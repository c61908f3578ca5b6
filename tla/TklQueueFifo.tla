---------------------------- MODULE TklQueueFifo ----------------------------
(***************************************************************************)
(* What the OS adapter's message queue promises its callers, without the  *)
(* ring, the mutex or the condition variables: a FIFO of at most          *)
(* Capacity messages.  A tkl_queue_post returns OPRT_OK exactly when its  *)
(* message went in at the tail in that step, a tkl_queue_fetch exactly    *)
(* when the message at the head came out to it; a call that fails, or     *)
(* that starts to wait, leaves the queue as it is.  Consumers that keep   *)
(* calling get every message.                                             *)
(***************************************************************************)
EXTENDS Naturals, Sequences

CONSTANTS
    Producers,   \* threads that post
    Consumers,   \* threads that fetch
    Capacity,    \* the most messages the queue holds
    Msgs         \* the messages

VARIABLES
    q,       \* the messages posted and not yet fetched, oldest first
    taken,   \* the messages fetched, in the order they were fetched
    ret      \* per thread: "none" while a call waits, else what it returned

vars == <<q, taken, ret>>

Threads == Producers \cup Consumers

Init == q = <<>> /\ taken = <<>> /\ ret = [t \in Threads |-> "none"]

(* A post that succeeds puts its message at the tail. *)
Put(p, m) ==
    /\ Len(q) < Capacity
    /\ q' = Append(q, m)
    /\ ret' = [ret EXCEPT ![p] = "ok"]
    /\ UNCHANGED taken

(* A fetch that succeeds takes the message at the head. *)
Get(c) ==
    /\ q # <<>>
    /\ q' = Tail(q)
    /\ taken' = Append(taken, Head(q))
    /\ ret' = [ret EXCEPT ![c] = "ok"]

(* A call fails, or starts to wait, and the queue is left as it is. *)
Fail(t) == ret' = [ret EXCEPT ![t] = "fail"] /\ UNCHANGED <<q, taken>>
Wait(t) == ret' = [ret EXCEPT ![t] = "none"] /\ UNCHANGED <<q, taken>>

Next ==
    \/ \E p \in Producers, m \in Msgs : Put(p, m)
    \/ \E c \in Consumers : Get(c)
    \/ \E t \in Threads : Fail(t) \/ Wait(t)

Spec == Init /\ [][Next]_vars /\ WF_vars(\E c \in Consumers : Get(c))
=============================================================================
