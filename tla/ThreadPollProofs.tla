-------------------------- MODULE ThreadPollProofs --------------------------
(***************************************************************************)
(* What ThreadPoll promises for every number of threads, every event set   *)
(* and every schedule, with the inductive invariants it takes to prove it. *)
(* HandOffInv is about the flags and the wake-ups; the three others count  *)
(* takings and follow the pushed event through the slot.                   *)
(***************************************************************************)
EXTENDS ThreadPoll, TLAPS

\* What the flag of a slot says: slots without a thread stay invalid, and a
\* thread's slot is idle or busy.
FlagOK ==
    \A i \in Slots : flag[i] = "INVALID" <=> i \notin Threads

\* The pusher is at a slot that has a thread once its scan has succeeded.
ChosenOK == ppc \in {"store", "signal"} => slot \in Threads

\* The inductive invariant of the hand-off itself, whatever the schedule.
HandOffInv ==
    /\ TypeOK /\ FlagOK /\ ChosenOK
    /\ StoreFindsIdle
    /\ NoLostWakeup

\* The signal of slot w is still to come.
Pending(w) == ppc = "signal" /\ slot = w

\* The takings worker w can still make of its slot's event without another
\* push: one for a signal to come, one for a wake-up that has happened, one
\* for a busy slot it finds on its way into event_pop.
Owed(w) ==
    (IF Pending(w) THEN 1 ELSE 0)
    + (IF wpc[w] = "woken" THEN 1 ELSE 0)
    + (IF wpc[w] = "pop" /\ flag[w] = "BUSY" THEN 1 ELSE 0)

\* Takings made and still owed never exceed what one push is worth.
TakesInv ==
    \A w \in Threads \ Spurious :
        taken[w] + Owed(w) <= (IF w \in LateSignal THEN 2 ELSE 1)

\* With prompt signals a worker is where its slot's flag says.
PromptInv ==
    \A w \in Threads \ (Spurious \cup LateSignal) :
        /\ ~Pending(w)
        /\ wpc[w] = "serving" => flag[w] = "BUSY" /\ taken[w] = 1
        /\ wpc[w] = "woken" => flag[w] = "BUSY"
        /\ wpc[w] \in {"pop", "woken"} /\ flag[w] = "BUSY" => taken[w] = 0
        /\ flag[w] = "IDLE" => event[w] = NoEvent \/ taken[w] = 1

\* Where a real event must be: with the pusher, then in the slot, then with
\* the worker.
EventInv ==
    /\ ppc \in {"scan", "store"} => pev \in Events
    /\ ppc = "signal" => event[slot] # NoEvent
    /\ \A w \in Threads \ Spurious :
          /\ flag[w] = "BUSY" \/ wpc[w] = "woken" => event[w] # NoEvent
          /\ wpc[w] = "serving" => wev[w] # NoEvent

\* Every thread has a slot, and slot 0 is one of them.
LEMMA ThreadsAreSlots == Threads \subseteq Slots /\ 0 \in Slots
  BY PollAssumption DEF Threads, Slots

\* No step leaves the types.
LEMMA TypeStep == TypeOK /\ [Next]_pollVars => TypeOK'
<1> USE ThreadsAreSlots
<1> SUFFICES ASSUME TypeOK, [Next]_pollVars
             PROVE  TypeOK'
  OBVIOUS
<1> USE DEF TypeOK
<1>1. ASSUME NEW e \in Events, PushCall(e)
      PROVE  TypeOK'
  BY <1>1 DEF PushCall
<1>2. CASE ScanHit
  BY <1>2 DEF ScanHit
<1>3. CASE ScanMiss
  BY <1>3, PollAssumption DEF ScanMiss, Slots
<1>4. CASE ScanFail
  BY <1>4 DEF ScanFail
<1>5. CASE Store
  BY <1>5 DEF Store, AfterSignal
<1>6. CASE Signal
  BY <1>6 DEF Signal, AfterSignal
<1>7. ASSUME NEW w \in Threads, Take(w)
      PROVE  TypeOK'
  <2>1. taken[w] \in 0 .. 3 /\ event[w] \in Events \cup {NoEvent}
    OBVIOUS
  <2>2. (IF taken[w] < 3 THEN taken[w] + 1 ELSE 3) \in 0 .. 3
    BY <2>1
  <2> QED
    BY <1>7, <2>1, <2>2 DEF Take
<1>8. ASSUME NEW w \in Threads, Work(w) \/ SpuriousWake(w)
      PROVE  TypeOK'
  BY <1>7, <1>8 DEF Work, PopTake, PopWait, PopWoken, Release, SpuriousWake
<1>9. CASE UNCHANGED pollVars
  BY <1>9 DEF pollVars
<1> QED
  BY <1>1, <1>2, <1>3, <1>4, <1>5, <1>6, <1>8, <1>9 DEF Next, Push

\* Every state of the pool is of its type.
THEOREM TypeCorrect == Spec => []TypeOK
<1>1. Init => TypeOK
  BY ThreadsAreSlots DEF Init, TypeOK
<1> QED
  BY <1>1, TypeStep, PTL DEF Spec

\* The flags and the wake-ups: what every step preserves.
LEMMA HandOffStep == HandOffInv /\ [Next]_pollVars => HandOffInv'
<1> SUFFICES ASSUME HandOffInv, [Next]_pollVars
             PROVE  HandOffInv'
  OBVIOUS
<1> USE ThreadsAreSlots
<1>0. TypeOK'
  BY TypeStep DEF HandOffInv
<1> DEFINE Rest == FlagOK /\ ChosenOK /\ StoreFindsIdle /\ NoLostWakeup
<1> SUFFICES Rest'
  BY <1>0 DEF HandOffInv
<1> USE DEF HandOffInv, TypeOK, FlagOK, ChosenOK, StoreFindsIdle, NoLostWakeup
<1>1. ASSUME NEW e \in Events, PushCall(e)
      PROVE  Rest'
  BY <1>1 DEF PushCall
<1>2. CASE ScanHit
  BY <1>2 DEF ScanHit
<1>3. CASE ScanMiss
  BY <1>3 DEF ScanMiss
<1>4. CASE ScanFail
  BY <1>4 DEF ScanFail
<1>5. CASE Store
  BY <1>5 DEF Store, AfterSignal
<1>6. CASE Signal
  BY <1>6 DEF Signal, AfterSignal
<1>7. ASSUME NEW w \in Threads, Take(w)
      PROVE  Rest'
  BY <1>7 DEF Take
<1>8. ASSUME NEW w \in Threads, Work(w) \/ SpuriousWake(w)
      PROVE  Rest'
  <2>1. CASE PopTake(w) \/ PopWoken(w)
    BY <1>7, <2>1 DEF PopTake, PopWoken
  <2>2. CASE PopWait(w)
    BY <2>2 DEF PopWait
  <2>3. CASE Release(w)
    BY <2>3 DEF Release
  <2>4. CASE SpuriousWake(w)
    BY <2>4 DEF SpuriousWake
  <2> QED
    BY <1>8, <2>1, <2>2, <2>3, <2>4 DEF Work
<1>9. CASE UNCHANGED pollVars
  BY <1>9 DEF pollVars
<1> QED
  BY <1>1, <1>2, <1>3, <1>4, <1>5, <1>6, <1>8, <1>9 DEF Next, Push

\* All slots are idle and every worker is on its way into event_pop.
LEMMA PoolStarts == Init => HandOffInv /\ EventInv /\ PromptInv
<1> SUFFICES ASSUME Init PROVE HandOffInv /\ EventInv /\ PromptInv
  OBVIOUS
<1> USE ThreadsAreSlots, PollAssumption DEF Init, Threads
<1>1. HandOffInv
  BY DEF HandOffInv, TypeOK, FlagOK, ChosenOK, StoreFindsIdle, NoLostWakeup, Slots
<1>2. EventInv
  BY DEF EventInv
<1>3. PromptInv
  BY DEF PromptInv, Pending
<1> QED
  BY <1>1, <1>2, <1>3

LEMMA HandOff == Spec => []HandOffInv
BY PoolStarts, HandOffStep, PTL DEF Spec

\* event_push never finds its chosen slot busy, so it never waits.
THEOREM PushNeverWaits == Spec => []StoreFindsIdle
<1>1. HandOffInv => StoreFindsIdle
  BY DEF HandOffInv
<1> QED
  BY <1>1, HandOff, PTL

\* No worker sleeps over a busy slot whose signal has been sent, spurious
\* wake-ups and late signals included.
THEOREM WakeupsArrive == Spec => []NoLostWakeup
<1>1. HandOffInv => NoLostWakeup
  BY DEF HandOffInv
<1> QED
  BY <1>1, HandOff, PTL

\* A real event stays real on its way from the pusher to the worker.
LEMMA EventStep ==
    HandOffInv /\ EventInv /\ [Next]_pollVars => EventInv'
<1> SUFFICES ASSUME HandOffInv, EventInv, [Next]_pollVars
             PROVE  EventInv'
  OBVIOUS
<1> USE ThreadsAreSlots, PollAssumption
<1> USE DEF HandOffInv, TypeOK, FlagOK, ChosenOK, EventInv
<1>1. ASSUME NEW e \in Events, PushCall(e)
      PROVE  EventInv'
  BY <1>1 DEF PushCall
<1>2. CASE ScanHit
  BY <1>2 DEF ScanHit
<1>3. CASE ScanMiss
  BY <1>3 DEF ScanMiss
<1>4. CASE ScanFail
  BY <1>4 DEF ScanFail
<1>5. CASE Store
  BY <1>5 DEF Store, AfterSignal
<1>6. CASE Signal
  BY <1>6 DEF Signal, AfterSignal
<1>7. ASSUME NEW w \in Threads, PopTake(w) \/ PopWoken(w)
      PROVE  EventInv'
  BY <1>7 DEF PopTake, PopWoken, Take
<1>8. ASSUME NEW w \in Threads, PopWait(w)
      PROVE  EventInv'
  BY <1>8 DEF PopWait
<1>9. ASSUME NEW w \in Threads, Release(w)
      PROVE  EventInv'
  BY <1>9 DEF Release
<1>10. ASSUME NEW w \in Threads, SpuriousWake(w)
       PROVE  EventInv'
  BY <1>10 DEF SpuriousWake
<1>11. CASE UNCHANGED pollVars
  BY <1>11 DEF pollVars
<1> QED
  BY <1>1, <1>2, <1>3, <1>4, <1>5, <1>6, <1>7, <1>8, <1>9, <1>10, <1>11
  DEF Next, Push, Work

\* Without spurious wake-ups nobody serves the {0, 0} of an unused slot.
THEOREM NoPhantom == Spec => []NoPhantomEvent
<1>1. Init => EventInv
  BY PoolStarts
<1>2. EventInv => NoPhantomEvent
  BY DEF EventInv, NoPhantomEvent
<1> QED
  BY <1>1, <1>2, EventStep, HandOff, PTL DEF Spec

\* With prompt signals the flag of a slot tells where its worker is.
LEMMA PromptStep ==
    HandOffInv /\ PromptInv /\ [Next]_pollVars => PromptInv'
<1> SUFFICES ASSUME HandOffInv, PromptInv, [Next]_pollVars
             PROVE  PromptInv'
  OBVIOUS
<1> USE ThreadsAreSlots
<1> USE DEF HandOffInv, TypeOK, FlagOK, ChosenOK, NoLostWakeup, PromptInv,
            Pending
<1>1. ASSUME NEW e \in Events, PushCall(e)
      PROVE  PromptInv'
  BY <1>1 DEF PushCall
<1>2. CASE ScanHit
  BY <1>2 DEF ScanHit
<1>3. CASE ScanMiss
  BY <1>3 DEF ScanMiss
<1>4. CASE ScanFail
  BY <1>4 DEF ScanFail
<1>5. CASE Store
  BY <1>5 DEF Store, AfterSignal, StoreFindsIdle
<1>6. CASE Signal
  BY <1>6 DEF Signal, AfterSignal
<1>7. ASSUME NEW w \in Threads, PopTake(w) \/ PopWoken(w)
      PROVE  PromptInv'
  BY <1>7 DEF PopTake, PopWoken, Take
<1>8. ASSUME NEW w \in Threads, PopWait(w)
      PROVE  PromptInv'
  BY <1>8 DEF PopWait
<1>9. ASSUME NEW w \in Threads, Release(w)
      PROVE  PromptInv'
  BY <1>9 DEF Release
<1>10. ASSUME NEW w \in Threads, SpuriousWake(w)
       PROVE  PromptInv'
  BY <1>10 DEF SpuriousWake
<1>11. CASE UNCHANGED pollVars
  BY <1>11 DEF pollVars
<1> QED
  BY <1>1, <1>2, <1>3, <1>4, <1>5, <1>6, <1>7, <1>8, <1>9, <1>10, <1>11
  DEF Next, Push, Work

\* With prompt signals an idle slot holds no undelivered event.
THEOREM NothingOverwritten == Spec => []IdleMeansDelivered
<1>1. Init => PromptInv
  BY PoolStarts
<1>2. PromptInv => IdleMeansDelivered
  BY DEF PromptInv, IdleMeansDelivered
<1> QED
  BY <1>1, <1>2, PromptStep, HandOff, PTL DEF Spec

\* Takings made and still owed: every step keeps the sum within its bound.
LEMMA TakesStep ==
    HandOffInv /\ PromptInv /\ TakesInv /\ [Next]_pollVars => TakesInv'
<1> SUFFICES ASSUME HandOffInv, PromptInv, TakesInv, [Next]_pollVars,
                    NEW v \in Threads \ Spurious
             PROVE  taken'[v] + Owed(v)' <= (IF v \in LateSignal THEN 2 ELSE 1)
  BY DEF TakesInv
<1> USE ThreadsAreSlots, PollAssumption
<1> USE DEF HandOffInv, TypeOK, FlagOK, ChosenOK, TakesInv, Owed, Pending
<1>0. taken[v] \in 0 .. 3
  OBVIOUS
<1>1. ASSUME NEW e \in Events, PushCall(e)
      PROVE  taken'[v] + Owed(v)' <= (IF v \in LateSignal THEN 2 ELSE 1)
  BY <1>1 DEF PushCall
<1>2. CASE ScanHit
  BY <1>2 DEF ScanHit
<1>3. CASE ScanMiss
  BY <1>3 DEF ScanMiss
<1>4. CASE ScanFail
  BY <1>4 DEF ScanFail
<1>5. CASE Store
  <2>1. CASE v = slot
    BY <1>5, <2>1 DEF Store, AfterSignal, StoreFindsIdle, PromptInv
  <2>2. CASE v # slot
    BY <1>5, <2>2 DEF Store, AfterSignal
  <2> QED
    BY <2>1, <2>2
<1>6. CASE Signal
  BY <1>6 DEF Signal, AfterSignal
<1>7. ASSUME NEW w \in Threads, PopTake(w) \/ PopWoken(w)
      PROVE  taken'[v] + Owed(v)' <= (IF v \in LateSignal THEN 2 ELSE 1)
  <2>1. CASE w = v
    BY <1>0, <1>7, <2>1 DEF PopTake, PopWoken, Take
  <2>2. CASE w # v
    BY <1>7, <2>2 DEF PopTake, PopWoken, Take
  <2> QED
    BY <2>1, <2>2
<1>8. ASSUME NEW w \in Threads, PopWait(w)
      PROVE  taken'[v] + Owed(v)' <= (IF v \in LateSignal THEN 2 ELSE 1)
  BY <1>8 DEF PopWait
<1>9. ASSUME NEW w \in Threads, Release(w)
      PROVE  taken'[v] + Owed(v)' <= (IF v \in LateSignal THEN 2 ELSE 1)
  BY <1>9 DEF Release
<1>10. ASSUME NEW w \in Threads, SpuriousWake(w)
       PROVE  taken'[v] + Owed(v)' <= (IF v \in LateSignal THEN 2 ELSE 1)
  BY <1>10 DEF SpuriousWake
<1>11. CASE UNCHANGED pollVars
  BY <1>11 DEF pollVars
<1> QED
  BY <1>1, <1>2, <1>3, <1>4, <1>5, <1>6, <1>7, <1>8, <1>9, <1>10, <1>11
  DEF Next, Push, Work

\* Without spurious wake-ups one push is taken at most twice, and at most
\* once if signals are prompt.
THEOREM AtMostTwice == Spec => []BoundedTakes
<1>1. Init => TakesInv
  BY ThreadsAreSlots, PollAssumption
  DEF Init, TakesInv, Owed, Pending, Threads
<1>2. HandOffInv /\ TakesInv => BoundedTakes
  BY ThreadsAreSlots, PollAssumption
  DEF HandOffInv, TypeOK, TakesInv, BoundedTakes, Owed
<1>3. Init => PromptInv
  BY PoolStarts
<1> QED
  BY <1>1, <1>2, <1>3, TakesStep, PromptStep, HandOff, PTL DEF Spec
=============================================================================
