----------------------------- MODULE ThreadPoll -----------------------------
(***************************************************************************)
(* The event hand-off of common/thread_poll.c: one slot per thread, filled *)
(* by event_push and emptied by event_pop.  Both programs use it the same  *)
(* way: their single epoll thread pushes (an fd and a flow size) and every *)
(* slot has one worker thread that pops, serves the event and finally      *)
(* writes THREAD_IDLE into its slot WITHOUT taking the slot's mutex        *)
(* (client.c:129, server.c:78).                                            *)
(*                                                                         *)
(* A region between pthread_mutex_lock and pthread_mutex_unlock is one     *)
(* step: the slot's event is touched only under the mutex, and the one     *)
(* unlocked access, the worker's store of THREAD_IDLE, commutes with the   *)
(* rest of the region.  pthread_cond_signal comes AFTER the unlock         *)
(* (thread_poll.c:35-36) and is a step of its own.  The condition variable *)
(* `idle' is never waited on (StoreFindsIdle), so its signals do nothing.  *)
(***************************************************************************)
EXTENDS Naturals

CONSTANTS Events,      \* what can be pushed: an fd with its flow size
          NoEvent,     \* the {0, 0} event init_events_poll leaves in a slot
          NumThreads,  \* threads_num: slots that have a worker
          MaxThreads,  \* MAX_THREADS: slots in the array
          LateSignal,  \* slots where the pusher may be preempted between
                       \* unlock and signal
          Spurious     \* threads whose pthread_cond_wait may return without
                       \* a signal

Slots   == 0 .. MaxThreads - 1
Threads == 0 .. NumThreads - 1

\* main() asserts threads_num > 0 && threads_num < MAX_THREADS.
ASSUME PollAssumption ==
    /\ NumThreads \in Nat \ {0} /\ MaxThreads \in Nat
    /\ NumThreads < MaxThreads
    /\ NoEvent \notin Events
    /\ LateSignal \subseteq Threads /\ Spurious \subseteq Threads

VARIABLES flag,   \* events_poll.flag of every slot
          event,  \* events_poll.event of every slot
          ppc,    \* where the pusher is in event_push ("out": not in it)
          slot,   \* its index, in the scan and then as the chosen slot
          pev,    \* the event it is pushing
          wpc,    \* where every worker is in its pop-serve-release loop
          wev,    \* the worker's copy of the event it serves
          taken   \* history: times the slot's event was taken, saturating at 3

pollVars == <<flag, event, ppc, slot, pev, wpc, wev, taken>>

TypeOK ==
    /\ flag \in [Slots -> {"IDLE", "BUSY", "INVALID"}]
    /\ event \in [Slots -> Events \cup {NoEvent}]
    /\ ppc \in {"out", "scan", "store", "signal", "exited"}
    /\ slot \in Slots
    /\ pev \in Events \cup {NoEvent}
    /\ wpc \in [Threads -> {"pop", "asleep", "woken", "serving"}]
    /\ wev \in [Threads -> Events \cup {NoEvent}]
    /\ taken \in [Slots -> 0 .. 3]

\* init_events_polls: the first threads_num slots idle, the others invalid.
Init ==
    /\ flag = [i \in Slots |-> IF i < NumThreads THEN "IDLE" ELSE "INVALID"]
    /\ event = [i \in Slots |-> NoEvent]
    /\ ppc = "out" /\ slot = 0 /\ pev = NoEvent
    /\ wpc = [w \in Threads |-> "pop"]
    /\ wev = [w \in Threads |-> NoEvent]
    /\ taken = [i \in Slots |-> 0]

Running == ppc # "exited"

-----------------------------------------------------------------------------
(* event_push, run by the epoll thread.                                    *)

PushCall(e) ==
    /\ ppc = "out"
    /\ ppc' = "scan" /\ slot' = 0 /\ pev' = e
    /\ UNCHANGED <<flag, event, wpc, wev, taken>>

\* get_valid_thread reads one flag at a time and holds no mutex.
ScanHitAnyThread ==  \* faulty variant: takes any slot that has a thread
    /\ ppc = "scan" /\ flag[slot] # "INVALID"
    /\ ppc' = "store"
    /\ UNCHANGED <<flag, event, slot, pev, wpc, wev, taken>>

ScanHit ==
    /\ ppc = "scan" /\ flag[slot] = "IDLE"
    /\ ppc' = "store"
    /\ UNCHANGED <<flag, event, slot, pev, wpc, wev, taken>>

ScanMissOffByOne ==  \* faulty variant: the scan runs one slot too far
    /\ ppc = "scan" /\ flag[slot] # "IDLE" /\ slot < MaxThreads
    /\ slot' = slot + 1
    /\ UNCHANGED <<flag, event, ppc, pev, wpc, wev, taken>>

ScanMiss ==
    /\ ppc = "scan" /\ flag[slot] # "IDLE" /\ slot < MaxThreads - 1
    /\ slot' = slot + 1
    /\ UNCHANGED <<flag, event, ppc, pev, wpc, wev, taken>>

\* "The flow concurrency outnumbers the threads": exit(EXIT_SUCCESS).
ScanFail ==
    /\ ppc = "scan" /\ flag[slot] # "IDLE" /\ slot = MaxThreads - 1
    /\ ppc' = "exited"
    /\ UNCHANGED <<flag, event, slot, pev, wpc, wev, taken>>

\* A signal wakes the slot's worker if it waits, and is lost otherwise.
AfterSignal ==
    [w \in Threads |->
        IF w = slot /\ wpc[w] = "asleep" THEN "woken" ELSE wpc[w]]

StoreFlagForgotten ==  \* faulty variant: the slot is not marked busy
    /\ ppc = "store"
    /\ event' = [event EXCEPT ![slot] = pev]
    /\ taken' = [taken EXCEPT ![slot] = 0]
    /\ ppc' = "out" /\ slot' = 0 /\ pev' = NoEvent /\ wpc' = AfterSignal
    /\ UNCHANGED <<flag, wev>>

\* The locked region of event_push.  For a slot outside LateSignal the
\* schedules are restricted to those where the signal follows at once.
Store ==
    /\ ppc = "store"
    /\ flag' = [flag EXCEPT ![slot] = "BUSY"]
    /\ event' = [event EXCEPT ![slot] = pev]
    /\ taken' = [taken EXCEPT ![slot] = 0]
    /\ \/ /\ slot \in LateSignal
          /\ ppc' = "signal"
          /\ UNCHANGED <<slot, pev, wpc>>
       \/ /\ slot \notin LateSignal
          /\ ppc' = "out" /\ slot' = 0 /\ pev' = NoEvent
          /\ wpc' = AfterSignal
    /\ UNCHANGED wev

SignalWrongCond ==  \* faulty variant: signals `idle' instead of `busy'
    /\ ppc = "signal"
    /\ ppc' = "out" /\ slot' = 0 /\ pev' = NoEvent
    /\ UNCHANGED <<flag, event, wpc, wev, taken>>

Signal ==
    /\ ppc = "signal"
    /\ ppc' = "out" /\ slot' = 0 /\ pev' = NoEvent
    /\ wpc' = AfterSignal
    /\ UNCHANGED <<flag, event, wev, taken>>

-----------------------------------------------------------------------------
(* event_pop and the worker's loop around it.                              *)

Take(w) ==
    /\ wpc' = [wpc EXCEPT ![w] = "serving"]
    /\ wev' = [wev EXCEPT ![w] = event[w]]
    /\ taken' = [taken EXCEPT ![w] = IF @ < 3 THEN @ + 1 ELSE 3]
    /\ UNCHANGED <<flag, event, ppc, slot, pev>>

PopTake(w) ==
    /\ Running
    /\ wpc[w] = "pop" /\ flag[w] # "IDLE"
    /\ Take(w)

PopWithoutWait(w) ==  \* faulty variant: the wait for `busy' is missing
    /\ Running
    /\ wpc[w] = "pop" /\ flag[w] = "IDLE"
    /\ Take(w)

PopWait(w) ==
    /\ Running
    /\ wpc[w] = "pop" /\ flag[w] = "IDLE"
    /\ wpc' = [wpc EXCEPT ![w] = "asleep"]
    /\ UNCHANGED <<flag, event, ppc, slot, pev, wev, taken>>

SpuriousWake(w) ==
    /\ Running
    /\ w \in Spurious /\ wpc[w] = "asleep"
    /\ wpc' = [wpc EXCEPT ![w] = "woken"]
    /\ UNCHANGED <<flag, event, ppc, slot, pev, wev, taken>>

\* The wait sits in an `if', not in a `while': a woken worker takes whatever
\* the slot holds and does not look at the flag again.
PopWoken(w) ==
    /\ Running
    /\ wpc[w] = "woken"
    /\ Take(w)

ReleaseForgotten(w) ==  \* faulty variant: the slot is never set idle
    /\ Running
    /\ wpc[w] = "serving"
    /\ wpc' = [wpc EXCEPT ![w] = "pop"]
    /\ wev' = [wev EXCEPT ![w] = NoEvent]
    /\ UNCHANGED <<flag, event, ppc, slot, pev, taken>>

\* The worker has served its event: poll->flag = THREAD_IDLE, no mutex held.
Release(w) ==
    /\ Running
    /\ wpc[w] = "serving"
    /\ flag' = [flag EXCEPT ![w] = "IDLE"]
    /\ wpc' = [wpc EXCEPT ![w] = "pop"]
    /\ wev' = [wev EXCEPT ![w] = NoEvent]
    /\ UNCHANGED <<event, ppc, slot, pev, taken>>

-----------------------------------------------------------------------------
Push == ScanHit \/ ScanMiss \/ ScanFail \/ Store \/ Signal

Work(w) == PopTake(w) \/ PopWait(w) \/ PopWoken(w) \/ Release(w)

Next ==
    \/ \E e \in Events : PushCall(e)
    \/ Push
    \/ \E w \in Threads : Work(w) \/ SpuriousWake(w)

Spec == Init /\ [][Next]_pollVars

\* Both threads are ordinary runnable threads, and a worker finishes serving.
\* Nothing makes the epoll thread push again: PushCall has no fairness.
FairSpec ==
    /\ Spec
    /\ WF_pollVars(Push)
    /\ \A w \in Threads : WF_pollVars(Work(w))

-----------------------------------------------------------------------------
(* Properties.                                                             *)

\* The slot event_push chose without a lock is still idle when it has the
\* lock: the pthread_cond_wait on `idle' in event_push is never executed.
StoreFindsIdle == ppc = "store" => flag[slot] = "IDLE"

\* No wake-up is lost: a worker asleep in event_pop while its slot is busy
\* still has its signal coming, although the flag is set before the signal
\* and cleared outside the mutex.
NoLostWakeup ==
    \A w \in Threads :
        wpc[w] = "asleep" /\ flag[w] = "BUSY" => ppc = "signal" /\ slot = w

\* A thread without spurious wake-ups never serves the {0, 0} event of a slot
\* that was never filled (fd 0 is the standard input).
NoPhantomEvent ==
    \A w \in Threads \ Spurious : wpc[w] = "serving" => wev[w] # NoEvent

\* Without spurious wake-ups a pushed event is taken at most twice, and at
\* most once when every signal follows its unlock at once: the second taking
\* is the one a late signal causes, by waking a worker that has served the
\* event already and waits for the next one.
BoundedTakes ==
    \A w \in Threads \ Spurious :
        taken[w] <= (IF w \in LateSignal THEN 2 ELSE 1)

\* Where signals are prompt, a slot that looks free to event_push holds no
\* event that nobody took: a push never overwrites an undelivered event.
IdleMeansDelivered ==
    \A w \in Threads \ (Spurious \cup LateSignal) :
        flag[w] = "IDLE" => event[w] = NoEvent \/ taken[w] = 1

\* An event pushed to a worker that is not serving another one is eventually
\* taken (unless the process exits): the hand-off itself drops nothing.
Delivery ==
    \A w \in Threads :
        (flag[w] = "BUSY" /\ taken[w] = 0 /\ wpc[w] # "serving")
            ~> (taken[w] > 0 \/ ~Running)
=============================================================================
