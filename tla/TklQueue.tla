------------------------------ MODULE TklQueue ------------------------------
(***************************************************************************)
(* The Linux message queue of the OS adapter (tkl_queue.c): tkl_queue_post *)
(* copies the message into a malloc'd buffer and pushes the pointer onto   *)
(* an rpa_queue (a ring of `bounds` slots under one mutex with the         *)
(* condition variables not_full and not_empty); tkl_queue_fetch pops a     *)
(* pointer, copies the message out and frees the buffer.  A call waits     *)
(* not at all (wait_ms 0), up to a time-out, or for ever.                  *)
(*                                                                         *)
(* Everything a thread does while it holds the mutex is one step; the      *)
(* points where it lets the mutex go are pthread_cond_wait /               *)
(* pthread_cond_timedwait, so a woken thread takes a step of its own to   *)
(* get the mutex back, and any other thread may run in between.  Buffer n *)
(* is the one malloc'd by the n-th post.  rpa_queue's `terminated` is     *)
(* never set in this file and is left out.                                 *)
(***************************************************************************)
EXTENDS Naturals, Sequences, FiniteSets

CONSTANTS
    Producers,        \* threads calling tkl_queue_post
    Consumers,        \* threads calling tkl_queue_fetch
    Capacity,         \* msgcount given to tkl_queue_create_init (bounds)
    Waits,            \* wait kinds callers use: "none", "timed", "forever"
    WaitMs,           \* the timed callers' timeout in ms
    ClockMs,          \* values of tv_nsec / 1000000 when set_timeout runs
    SpuriousWakeups,  \* pthread_cond_wait may return without a signal
    MaxPosts          \* bound: calls of tkl_queue_post

ASSUME /\ Capacity \in Nat \ {0} /\ MaxPosts \in Nat
       /\ Waits \subseteq {"none", "timed", "forever"}
       /\ WaitMs \in Nat \ {0} /\ ClockMs \subseteq 0..999
       /\ SpuriousWakeups \in BOOLEAN

Threads == Producers \cup Consumers
Slots   == 0..(Capacity - 1)

(* set_timeout: add wait_ms to the current time, carrying whole seconds    *)
(* out of the millisecond part while it is greater than 1000.              *)
RECURSIVE Carry(_, _)
Carry(sec, ms) == IF ms > 1000 THEN Carry(sec + 1, ms - 1000) ELSE [sec |-> sec, ms |-> ms]

SetTimeout(nowMs, waitMs) ==
    LET c == Carry(waitMs \div 1000, nowMs + (waitMs % 1000))
    IN [tv_sec |-> c.sec, tv_nsec |-> c.ms * 1000000]

\* pthread_cond_timedwait fails with EINVAL for tv_nsec out of 0..999999999
AbstimeValid(t) == t.tv_nsec < 1000000000

VARIABLES
    data, in, out, nelts,          \* the rpa_queue ring
    full_waiters, empty_waiters,   \* rpa_queue counters
    pc,        \* "idle", "waitFull"/"waitEmpty" (in cond wait), "wokenFull"/"wokenEmpty"
    wmode,     \* wait kind of the thread's current call
    hold,      \* buffer a producer is posting (0: none)
    ret,       \* "none", "ok" or "fail": what the thread's last call returned
    live,      \* malloc'd message buffers not yet freed
    pushed,    \* buffers in the order they were pushed
    got,       \* buffers in the order they were popped
    nPosts

vars == <<data, in, out, nelts, full_waiters, empty_waiters, pc, wmode, hold,
          ret, live, pushed, got, nPosts>>

-----------------------------------------------------------------------------
(* The ring, under the mutex                                               *)

\* fault variant: the index wraps one slot late
WrapLate(i) == IF i + 1 > Capacity THEN i + 1 - Capacity ELSE i + 1

\* queue->in++ / queue->out++ and subtract bounds once it reaches bounds
Wrap(i) == IF i + 1 >= Capacity THEN i + 1 - Capacity ELSE i + 1

\* pthread_cond_signal on cond, from pc function f: at most one blocked thread wakes
WakeOne(f, cond) ==
    IF \E t \in Threads : f[t] = "wait" \o cond
    THEN {[f EXCEPT ![t] = "woken" \o cond] : t \in {u \in Threads : f[u] = "wait" \o cond}}
    ELSE {f}

\* fault variant: not_empty is never signalled
PushSignalNever(f) == {f}

\* fault variant: not_empty is only signalled when the ring was empty
PushSignalIfWasEmpty(f) == IF empty_waiters > 0 /\ nelts = 0 THEN WakeOne(f, "Empty") ELSE {f}

\* a push signals not_empty when empty_waiters is non-zero
PushSignal(f) == IF empty_waiters > 0 THEN WakeOne(f, "Empty") ELSE {f}

\* a pop signals not_full when full_waiters is non-zero
PopSignal(f) == IF full_waiters > 0 THEN WakeOne(f, "Full") ELSE {f}

\* store the buffer at `in`, advance `in` and count it
Enqueue(b) ==
    /\ data' = [data EXCEPT ![in] = b]
    /\ in' = Wrap(in) /\ nelts' = nelts + 1
    /\ pushed' = Append(pushed, b)
    /\ UNCHANGED <<out, got>>

\* fault variant: nelts is not decremented
DequeueNoCount ==
    /\ out' = Wrap(out) /\ nelts' = nelts
    /\ got' = Append(got, data[out])
    /\ live' = live \ {data[out]}
    /\ UNCHANGED <<data, in, pushed>>

\* take the buffer at `out`; tkl_queue_fetch frees it after the memcpy
Dequeue ==
    /\ out' = Wrap(out) /\ nelts' = nelts - 1
    /\ got' = Append(got, data[out])
    /\ live' = live \ {data[out]}
    /\ UNCHANGED <<data, in, pushed>>

-----------------------------------------------------------------------------
(* Calls                                                                   *)

Return(t, r) ==
    /\ ret' = [ret EXCEPT ![t] = r]
    /\ hold' = [hold EXCEPT ![t] = 0]

(* Block in pthread_cond_(timed)wait on cond, or, for a timed wait whose  *)
(* absolute time set_timeout got wrong, fail at once with EINVAL.          *)
StartWait(t, w, cond, b) ==
    \/ /\ w = "forever" \/ \E now \in ClockMs : AbstimeValid(SetTimeout(now, WaitMs))
       /\ pc' = [pc EXCEPT ![t] = "wait" \o cond]
       /\ ret' = [ret EXCEPT ![t] = "none"]
       /\ hold' = [hold EXCEPT ![t] = b]
       /\ IF cond = "Full" THEN full_waiters' = full_waiters + 1 /\ UNCHANGED empty_waiters
                           ELSE empty_waiters' = empty_waiters + 1 /\ UNCHANGED full_waiters
    \/ /\ w = "timed" /\ \E now \in ClockMs : ~AbstimeValid(SetTimeout(now, WaitMs))
       /\ Return(t, "fail")
       /\ UNCHANGED <<pc, full_waiters, empty_waiters>>

(* tkl_queue_post with wait kind w: malloc and copy, then                  *)
(* rpa_queue_timedpush (rpa_queue_trypush for wait_ms 0).  On any failure   *)
(* the post returns QUEUE_SEND_FAIL and the buffer is not freed.           *)
TklQueuePost(p, w) ==
    LET b == nPosts + 1 IN
    /\ pc[p] = "idle" /\ nPosts < MaxPosts
    /\ nPosts' = nPosts + 1
    /\ wmode' = [wmode EXCEPT ![p] = w]
    /\ live' = live \cup {b}
    /\ IF nelts < Capacity
       THEN /\ Enqueue(b) /\ pc' \in PushSignal(pc)
            /\ Return(p, "ok")
            /\ UNCHANGED <<full_waiters, empty_waiters>>
       ELSE /\ UNCHANGED <<data, in, out, nelts, pushed, got>>
            /\ IF w = "none"
               THEN /\ Return(p, "fail")
                    /\ UNCHANGED <<pc, full_waiters, empty_waiters>>
               ELSE StartWait(p, w, "Full", b)

(* tkl_queue_fetch with wait kind w: rpa_queue_timedpop (rpa_queue_trypop *)
(* for wait_ms 0), then memcpy and free.                                   *)
TklQueueFetch(c, w) ==
    /\ pc[c] = "idle"
    /\ wmode' = [wmode EXCEPT ![c] = w]
    /\ IF nelts > 0
       THEN /\ Dequeue /\ pc' \in PopSignal(pc)
            /\ Return(c, "ok")
            /\ UNCHANGED <<full_waiters, empty_waiters>>
       ELSE /\ UNCHANGED <<data, in, out, nelts, pushed, got, live>>
            /\ IF w = "none"
               THEN /\ Return(c, "fail")
                    /\ UNCHANGED <<pc, full_waiters, empty_waiters>>
               ELSE StartWait(c, w, "Empty", 0)
    /\ UNCHANGED nPosts

(* A woken producer takes the mutex back and decrements full_waiters.  If  *)
(* the ring is still full it returns false (the "interrupted" case) and   *)
(* does not wait again.                                                    *)
PushWake(p) ==
    /\ pc[p] = "wokenFull"
    /\ full_waiters' = full_waiters - 1
    /\ IF nelts < Capacity
       THEN /\ Enqueue(hold[p])
            /\ pc' \in PushSignal([pc EXCEPT ![p] = "idle"])
            /\ Return(p, "ok")
       ELSE /\ pc' = [pc EXCEPT ![p] = "idle"]
            /\ Return(p, "fail")
            /\ UNCHANGED <<data, in, out, nelts, pushed, got>>
    /\ UNCHANGED <<empty_waiters, wmode, live, nPosts>>

\* A wake-up taken for a message: the empty re-check reports success.
PopWakeOkEmpty(c) ==
    /\ pc[c] = "wokenEmpty"
    /\ empty_waiters' = empty_waiters - 1
    /\ IF nelts > 0
       THEN /\ Dequeue
            /\ pc' \in PopSignal([pc EXCEPT ![c] = "idle"])
            /\ Return(c, "ok")
       ELSE /\ pc' = [pc EXCEPT ![c] = "idle"]
            /\ Return(c, "ok")
            /\ UNCHANGED <<data, in, out, nelts, pushed, got, live>>
    /\ UNCHANGED <<full_waiters, wmode, nPosts>>

\* The same for a woken consumer.
PopWake(c) ==
    /\ pc[c] = "wokenEmpty"
    /\ empty_waiters' = empty_waiters - 1
    /\ IF nelts > 0
       THEN /\ Dequeue
            /\ pc' \in PopSignal([pc EXCEPT ![c] = "idle"])
            /\ Return(c, "ok")
       ELSE /\ pc' = [pc EXCEPT ![c] = "idle"]
            /\ Return(c, "fail")
            /\ UNCHANGED <<data, in, out, nelts, pushed, got, live>>
    /\ UNCHANGED <<full_waiters, wmode, nPosts>>

Wake(t) == IF t \in Producers THEN PushWake(t) ELSE PopWake(t)

\* pthread_cond_timedwait returns ETIMEDOUT: the counter is decremented and
\* the call fails without looking at the ring again.
TimedOut(t) ==
    /\ pc[t] \in {"waitFull", "waitEmpty"} /\ wmode[t] = "timed"
    /\ IF pc[t] = "waitFull"
       THEN full_waiters' = full_waiters - 1 /\ UNCHANGED empty_waiters
       ELSE empty_waiters' = empty_waiters - 1 /\ UNCHANGED full_waiters
    /\ pc' = [pc EXCEPT ![t] = "idle"]
    /\ Return(t, "fail")
    /\ UNCHANGED <<data, in, out, nelts, wmode, live, pushed, got, nPosts>>

\* pthread_cond_wait returns without a signal
Spurious(t) ==
    /\ SpuriousWakeups
    /\ pc[t] \in {"waitFull", "waitEmpty"}
    /\ pc' = [pc EXCEPT ![t] = IF pc[t] = "waitFull" THEN "wokenFull" ELSE "wokenEmpty"]
    /\ UNCHANGED <<data, in, out, nelts, full_waiters, empty_waiters, wmode, hold,
                   ret, live, pushed, got, nPosts>>

\* tkl_queue_create_init: an empty ring with no waiters
Init ==
    /\ data = [i \in Slots |-> 0] /\ in = 0 /\ out = 0 /\ nelts = 0
    /\ full_waiters = 0 /\ empty_waiters = 0
    /\ pc = [t \in Threads |-> "idle"] /\ wmode = [t \in Threads |-> "none"]
    /\ hold = [t \in Threads |-> 0]
    /\ ret = [t \in Threads |-> "none"]
    /\ live = {} /\ pushed = <<>> /\ got = <<>> /\ nPosts = 0

Next ==
    \/ \E p \in Producers, w \in Waits : TklQueuePost(p, w)
    \/ \E c \in Consumers, w \in Waits : TklQueueFetch(c, w)
    \/ \E t \in Threads : Wake(t) \/ TimedOut(t) \/ Spurious(t)

(* A woken thread gets the mutex back, a timed wait ends, and a consumer   *)
(* thread keeps calling tkl_queue_fetch (the callers are worker loops).   *)
Spec == Init /\ [][Next]_vars
        /\ \A t \in Threads : WF_vars(Wake(t)) /\ WF_vars(TimedOut(t))
        /\ \A c \in Consumers : WF_vars(\E w \in Waits : TklQueueFetch(c, w))

-----------------------------------------------------------------------------
(* Properties                                                              *)

\* the buffers in the ring, from `out` on
Ring == [k \in 1..nelts |-> data[(out + k - 1) % Capacity]]

TypeOK ==
    /\ data \in [Slots -> 0..MaxPosts] /\ in \in Slots /\ out \in Slots
    /\ nelts \in 0..Capacity
    /\ full_waiters \in 0..Cardinality(Producers) /\ empty_waiters \in 0..Cardinality(Consumers)
    /\ pc \in [Threads -> {"idle", "waitFull", "waitEmpty", "wokenFull", "wokenEmpty"}]
    /\ wmode \in [Threads -> Waits \cup {"none"}]
    /\ ret \in [Threads -> {"none", "ok", "fail"}]
    /\ live \subseteq 1..MaxPosts /\ nPosts \in 0..MaxPosts

(* The ring slots from `out` hold, in push order, exactly the buffers that *)
(* were pushed and not yet popped, and pops come out in push order: the   *)
(* in/out/nelts arithmetic of rpa_queue_trypush/_timedpush and            *)
(* rpa_queue_trypop/_timedpop keeps the ring a FIFO.                      *)
RingHoldsPostedInOrder ==
    /\ got = SubSeq(pushed, 1, Len(got))
    /\ Ring = SubSeq(pushed, Len(got) + 1, Len(pushed))

(* No consumer sleeps on not_empty while the ring holds more messages than *)
(* there are consumers already woken to take them: every push made while  *)
(* empty_waiters is non-zero signals not_empty.                           *)
NoStrandedConsumer ==
    (\E c \in Consumers : pc[c] = "waitEmpty")
        => nelts <= Cardinality({c \in Consumers : pc[c] = "wokenEmpty"})

(* The queue as its callers see it: the messages in the ring from `out`   *)
(* on, the messages fetched, and what each call returned.                 *)
Fifo == INSTANCE TklQueueFifo WITH q <- Ring, taken <- got, Msgs <- 1..MaxPosts

(* tkl_queue_post/tkl_queue_fetch over rpa_queue implement the FIFO       *)
(* contract: every step of any thread, woken, timed out or spurious,      *)
(* either leaves the queue and the results alone, or is one call that     *)
(* returns OPRT_OK while putting its message at the tail or taking the    *)
(* head, or one call that fails or starts to wait without touching the    *)
(* queue; and, with consumers that keep fetching, the head is taken.      *)
FifoRefined == Fifo!Spec

(* Every message pushed is eventually fetched, given consumer threads that *)
(* keep calling tkl_queue_fetch.                                           *)
PostedFetched ==
    \A b \in 1..MaxPosts :
        (\E i \in 1..Len(pushed) : pushed[i] = b) ~> (\E i \in 1..Len(got) : got[i] = b)

(* A call made with TKL_QUEUE_WAIT_FROEVER returns only with a message     *)
(* posted or fetched (rpa_queue_timedpop: "Keep waiting until we wake up   *)
(* and find that the queue is not empty").                                 *)
ForeverCallsSucceed ==
    \A t \in Threads : (pc[t] = "idle" /\ wmode[t] = "forever") => ret[t] # "fail"
=============================================================================
