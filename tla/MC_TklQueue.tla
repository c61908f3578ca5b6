---------------------------- MODULE MC_TklQueue ----------------------------
EXTENDS TklQueue

\* one poster and two fetching worker threads
MC_Producers == {"p1"}
MC_Consumers == {"c1", "c2"}
MC_Waits     == {"none", "timed", "forever"}
MC_Forever   == {"forever"}
MC_Timed     == {"timed"}
=============================================================================
