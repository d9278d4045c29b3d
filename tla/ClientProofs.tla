---------------------------- MODULE ClientProofs ----------------------------
(***************************************************************************)
(* What Client keeps for every number of sockets and threads, every limit  *)
(* and every network.  The slots are ThreadPoll's: the client is shown to  *)
(* drive them as ThreadPoll says (ClientUsesPool), and what is proved of   *)
(* ThreadPoll is then cited.  OnceInv, about admission, holds for every    *)
(* schedule; the invariants after it, which follow a flow through the slots *)
(* and balance the counters, need prompt signals and updates that do not   *)
(* overlap.                                                                *)
(***************************************************************************)
EXTENDS Client, FiniteSetTheorems, TLAPS

PP == INSTANCE ThreadPollProofs WITH Events <- Fds, NoEvent <- NoFd,
                                     Spurious <- {}

\* The restrictions of the runs: the signal follows the unlock at once, and no
\* update of a counter falls between another one's load and store.
Prompt == LateSignal = {} /\ Race = FALSE

-----------------------------------------------------------------------------
(* The invariants.                                                         *)

\* A writable event that is registered or still to be handled belongs to a
\* flow without a request, and such a flow has no entry in the table.
AdmitInv ==
    /\ \A f \in Fds : interest[f] = "OUT" \/ <<f, "OUT">> \in batch => sent[f] = 0
    /\ \A f \in Fds : sent[f] <= 1 /\ (sent[f] = 0 => entry[f] = "empty")
    /\ epc \in {"load", "add"} => cur \in Fds /\ sent[cur] = 1 /\ entry[cur] = "empty"

OnceInv == TypeOK /\ AdmitInv

\* What ThreadPoll promises of the slots.
PoolInv == PP!HandOffInv /\ PP!EventInv /\ PP!PromptInv

\* An admitted flow is at one place: with the epoll thread, in the push, or in
\* the slot of a worker, which then serves that flow.
PlaceInv ==
    /\ ppc = "out" => pev = NoFd
    /\ cur # NoFd <=> epc \in {"load", "add"}
    /\ epc \in {"load", "add"} => ppc = "out"
    /\ \A w \in Threads : IF wpc[w] = "serving" THEN wev[w] = event[w] ELSE task[w] = "read"
    /\ \A w \in InFlight : event[w] # cur /\ event[w] # pev
    /\ \A v, w \in InFlight : event[v] = event[w] => v = w
    /\ \A f \in Admitted : sent[f] = 1

Dead(f) == sock[f] \in {"error", "closed"}

\* A socket that is registered, has an event or has sent its request exists, and
\* a flow that is counted out has no live socket.
SocketInv ==
    /\ \A f \in Fds : interest[f] # "none" \/ sent[f] # 0 => sock[f] # "absent"
    /\ \A e \in batch : sock[e[1]] # "absent"
    /\ \A f \in Fds : sent[f] # 0 => f \in Admitted \/ Dead(f)
    /\ \A w \in Threads :
          wpc[w] = "serving" /\ task[w] \in {"connErr", "load", "store", "release"} => Dead(wev[w])

Waiting == {f \in Created : sent[f] = 0}

\* The counters, with the admission in progress counted within the limit.
TallyInv ==
    /\ active = Cardinality(InFlight) + (IF pev # NoFd THEN 1 ELSE 0)
    /\ left = Cardinality(Waiting) + active + (IF epc \in {"load", "add"} THEN 1 ELSE 0)
    /\ active + (IF epc \in {"load", "add"} THEN 1 ELSE 0) <= Concurrent

\* The flows whose response no worker has read to its end or its error.
Reading == {w \in InFlight : task[w] \in {"read", "connErr", "sizeErr"}}
Unread == ({event[w] : w \in Reading} \cup {cur, pev}) \ {NoFd}

\* The flows that have been counted as errors.
Failed == {f \in Fds : sent[f] # 0 /\ inbox[f] # "drained" /\ f \notin Unread}

ReadInv ==
    /\ \A f \in Fds : sent[f] = 0 \/ f \in Unread => inbox[f] # "drained"
    /\ \A w \in Threads :
          wpc[w] = "serving" /\ task[w] \in {"stamp", "close"} => inbox[wev[w]] = "drained"

\* The table and the errors: a flow counted as an error has no entry, and an
\* entry without completion time belongs to a flow that is not read yet or is
\* about to be stamped.
LedgerInv ==
    /\ errs["conn"] + errs["size"] = Cardinality(Failed)
    /\ \A f \in Failed : entry[f] = "empty"
    /\ \A f \in Fds : entry[f] = "started" =>
          f \in Unread \/ \E w \in InFlight : event[w] = f /\ task[w] = "stamp"
    /\ \A f \in Fds : entry[f] = "done" => inbox[f] = "drained"
    /\ epc = "reported" => left = 0

FlowInv == OnceInv /\ PoolInv /\ PlaceInv /\ SocketInv /\ TallyInv /\ ReadInv /\ LedgerInv

-----------------------------------------------------------------------------
(* The slots are ThreadPoll's.                                             *)

\* The assumptions of ThreadPoll, which its theorems need.
LEMMA PoolAssumptions ==
    /\ NumThreads \in Nat \ {0} /\ MaxThreads \in Nat /\ NumThreads < MaxThreads
    /\ NoFd \notin Fds
    /\ LateSignal \subseteq PP!Threads /\ {} \subseteq PP!Threads
BY ClientAssumption DEF PP!Threads

LEMMA SameThreads == PP!Threads = Threads /\ Threads \subseteq PP!Slots /\ PP!Slots = P!Slots
BY ClientAssumption DEF PP!Threads, Threads, P!Threads, PP!Slots, P!Slots

\* A step of the client is a step of ThreadPoll or leaves the slots alone.
LEMMA PoolSteps ==
    ASSUME AdmitInv, [Next]_vars
    PROVE  [PP!Next]_(PP!pollVars)
<1> USE DEF PP!pollVars, pollVars
<1>1. CASE AddFlow
  <2>1. cur \in Fds /\ P!PushCall(cur)
    BY <1>1 DEF AddFlow, AdmitInv
  <2> QED BY <2>1 DEF PP!Next, PP!PushCall, P!PushCall
<1>2. CASE PushStep
  <2>1. P!Push
    BY <1>2 DEF PushStep
  <2>2. PP!Push
    BY <2>1 DEF P!Push, PP!Push, P!ScanHit, PP!ScanHit, P!ScanMiss, PP!ScanMiss,
                P!ScanFail, PP!ScanFail, P!Store, PP!Store, P!Signal, PP!Signal,
                P!AfterSignal, PP!AfterSignal, P!Threads, PP!Threads
  <2> QED BY <2>2 DEF PP!Next
<1>3. ASSUME NEW w \in Threads, Pop(w) \/ FreeSlot(w)
      PROVE  PP!Next
  <2>1. PP!Work(w)
    BY <1>3 DEF Pop, FreeSlot, PP!Work, P!PopTake, PP!PopTake, P!PopWait, PP!PopWait,
                P!PopWoken, PP!PopWoken, P!Release, PP!Release, P!Take, PP!Take,
                P!Running, PP!Running
  <2> QED BY <2>1, SameThreads DEF PP!Next
<1>4. CASE \/ Loop \/ Wait \/ DispatchEnd \/ IncLoad \/ Shell
           \/ \E f \in Fds : HandleErr(f) \/ Admit(f) \/ Defer(f) \/ HandleIn(f)
           \/ \E f \in Fds : NetworkStep(f)
  BY <1>4 DEF Loop, Wait, DispatchEnd, IncLoad, Shell, HandleErr, Admit, Defer, HandleIn,
              NetworkStep, Connect, Respond, Refuse, Reset, ServerCloses, Happens
<1>5. ASSUME NEW w \in Threads,
             \/ ReadFull(w) \/ ReadEof(w) \/ ReadErr(w) \/ FailConn(w) \/ FailSize(w) \/ Stamp(w)
             \/ StampAborts(w) \/ CloseFlow(w) \/ DecLoad(w) \/ DecStore(w)
      PROVE  UNCHANGED PP!pollVars
  BY <1>5 DEF ReadFull, ReadEof, ReadErr, FailConn, FailSize, Stamp, StampAborts, CloseFlow,
              DecLoad, DecStore
<1>6. CASE UNCHANGED vars
  BY <1>6 DEF vars
<1> QED BY <1>1, <1>2, <1>3, <1>4, <1>5, <1>6 DEF Next, EpollStep, WorkerStep

-----------------------------------------------------------------------------
(* Types and admission, under every schedule and every network.            *)

\* The types of what the client adds to the slots.
OwnTypes ==
    /\ epc \in {"loop", "wait", "dispatch", "load", "add", "reported"}
    /\ batch \subseteq Fds \X {"ERR", "OUT", "IN"}
    /\ cur \in Fds \cup {NoFd} /\ etmp \in 0 .. Word - 1
    /\ memaslap \in {"off", "due", "started"}
    /\ task \in [Threads -> {"read", "connErr", "sizeErr", "stamp", "close",
                             "load", "store", "release", "aborted"}]
    /\ wtmp \in [Threads -> 0 .. Word - 1]
    /\ active \in 0 .. Word - 1 /\ left \in 0 .. Word - 1
    /\ entry \in [Fds -> {"empty", "started", "done"}]
    /\ errs \in [{"conn", "size"} -> 0 .. Word - 1]
    /\ sock \in [Fds -> {"absent", "connecting", "open", "error", "closed"}]
    /\ inbox \in [Fds -> {"none", "full", "eof", "drained"}]
    /\ sent \in [Fds -> 0 .. 2]
    /\ interest \in [Fds -> {"none", "OUT", "IN"}]
    /\ ready \subseteq Fds

LEMMA CountsMod ==
    /\ 0 \in 0 .. Word - 1
    /\ \A n \in 0 .. Word - 1 : Inc(n) \in 0 .. Word - 1 /\ Dec(n) \in 0 .. Word - 1
BY ClientAssumption, FS_CardinalityType DEF Inc, Dec

LEMMA OwnTypesStep ==
    ASSUME OwnTypes, [Next]_vars
    PROVE  OwnTypes'
<1> USE CountsMod DEF OwnTypes
<1>1. CASE Loop \/ DispatchEnd \/ IncLoad \/ Shell
  BY <1>1 DEF Loop, DispatchEnd, IncLoad, Shell, tableVars, netVars
<1>2. CASE Wait
  <2>1. batch' \subseteq Fds \X {"ERR", "OUT", "IN"} /\ ready' \subseteq Fds
    BY <1>2 DEF Wait, Kind
  <2> QED BY <1>2, <2>1 DEF Wait, tableVars
<1>3. CASE AddFlow
  BY <1>3 DEF AddFlow, netVars
<1>4. CASE PushStep
  BY <1>4 DEF PushStep, epollVars, tableVars, netVars
<1>5. ASSUME NEW f \in Fds, HandleErr(f)
      PROVE  OwnTypes'
  BY <1>5 DEF HandleErr, Dispatch, CloseFd
<1>6. ASSUME NEW f \in Fds, Admit(f)
      PROVE  OwnTypes'
  <2>1. /\ ready' \subseteq Fds /\ interest' \in [Fds -> {"none", "OUT", "IN"}]
        /\ UNCHANGED <<sock, inbox>>
    BY <1>6 DEF Admit, Modify
  <2>2. sent' \in [Fds -> 0 .. 2]
    <3>1. sent[f] \in 0 .. 2
      OBVIOUS
    <3>2. (IF sent[f] < 2 THEN sent[f] + 1 ELSE 2) \in 0 .. 2
      BY <3>1
    <3> QED BY <1>6, <3>2 DEF Admit
  <2> QED BY <1>6, <2>1, <2>2 DEF Admit, Dispatch, tableVars
<1>7. ASSUME NEW f \in Fds, Defer(f)
      PROVE  OwnTypes'
  <2>1. /\ ready' \subseteq Fds /\ interest' \in [Fds -> {"none", "OUT", "IN"}]
        /\ UNCHANGED <<sock, inbox>>
    BY <1>7 DEF Defer, Modify
  <2> QED BY <1>7, <2>1 DEF Defer, Dispatch, tableVars
<1>8. ASSUME NEW f \in Fds, HandleIn(f)
      PROVE  OwnTypes'
  BY <1>8 DEF HandleIn, Dispatch, tableVars, netVars
<1>9. ASSUME NEW w \in Threads, Pop(w) \/ FreeSlot(w)
      PROVE  OwnTypes'
  BY <1>9 DEF Pop, FreeSlot, Go, epollVars, tableVars, netVars
<1>10. ASSUME NEW w \in Threads, ReadFull(w) \/ ReadEof(w) \/ ReadErr(w)
       PROVE  OwnTypes'
  BY <1>10 DEF ReadFull, ReadEof, ReadErr, Go, epollVars, tableVars, netVars
<1>11. ASSUME NEW w \in Threads, FailConn(w) \/ FailSize(w)
       PROVE  OwnTypes'
  <2>1. UNCHANGED <<epollVars, active, left>>
    BY <1>11 DEF FailConn, FailSize
  <2>2. CASE FailConn(w)
    BY <2>1, <2>2 DEF FailConn, CountError, Go, epollVars, netVars
  <2>3. CASE FailSize(w)
    BY <2>1, <2>3 DEF FailSize, CountError, Go, epollVars, CloseFd
  <2> QED BY <1>11, <2>2, <2>3
<1>12. ASSUME NEW w \in Threads, Stamp(w) \/ StampAborts(w) \/ CloseFlow(w)
       PROVE  OwnTypes'
  BY <1>12 DEF Stamp, StampAborts, CloseFlow, Go, CloseFd, epollVars, tableVars, netVars
<1>13. ASSUME NEW w \in Threads, DecLoad(w) \/ DecStore(w)
       PROVE  OwnTypes'
  BY <1>13 DEF DecLoad, DecStore, Go, epollVars, tableVars, netVars
<1>14. ASSUME NEW f \in Fds, NetworkStep(f)
       PROVE  OwnTypes'
  <2>1. ready' \subseteq Fds
    BY <1>14 DEF NetworkStep, Connect, Respond, Refuse, Reset, ServerCloses, Happens
  <2>2. /\ sock' \in [Fds -> {"absent", "connecting", "open", "error", "closed"}]
        /\ inbox' \in [Fds -> {"none", "full", "eof", "drained"}]
    BY <1>14 DEF NetworkStep, Connect, Respond, Refuse, Reset, ServerCloses
  <2>3. UNCHANGED <<epollVars, task, wtmp, tableVars, sent, interest>>
    BY <1>14 DEF NetworkStep, Connect, Respond, Refuse, Reset, ServerCloses, Happens
  <2> QED BY <2>1, <2>2, <2>3 DEF epollVars, tableVars
<1>15. CASE UNCHANGED vars
  BY <1>15 DEF vars, epollVars, tableVars, netVars
<1> QED BY <1>1, <1>2, <1>3, <1>4, <1>5, <1>6, <1>7, <1>8, <1>9, <1>10, <1>11, <1>12, <1>13,
           <1>14, <1>15 DEF Next, EpollStep, WorkerStep

LEMMA TypesSplit == TypeOK <=> PP!TypeOK /\ OwnTypes
BY DEF TypeOK, OwnTypes, P!TypeOK, PP!TypeOK, P!Slots, PP!Slots, P!Threads, PP!Threads, Threads

\* A flow is admitted once: the edge-triggered EPOLLOUT, armed again by every
\* deferral, is gone for good when the request has been written.
LEMMA AdmitStep ==
    ASSUME OwnTypes, AdmitInv, [Next]_vars
    PROVE  AdmitInv'
<1> USE DEF OwnTypes, AdmitInv
<1>1. CASE Loop \/ DispatchEnd \/ IncLoad \/ Shell
  BY <1>1 DEF Loop, DispatchEnd, IncLoad, Shell, tableVars, netVars
<1>2. CASE Wait
  <2>1. \A f \in Fds : <<f, "OUT">> \in batch' => interest[f] = "OUT"
    BY <1>2 DEF Wait, Kind
  <2> QED BY <1>2, <2>1 DEF Wait, tableVars
<1>3. CASE AddFlow
  BY <1>3 DEF AddFlow, netVars
<1>4. CASE PushStep
  BY <1>4 DEF PushStep, epollVars, tableVars, netVars
<1>5. ASSUME NEW f \in Fds, HandleErr(f)
      PROVE  AdmitInv'
  BY <1>5 DEF HandleErr, Dispatch, CloseFd
<1>6. ASSUME NEW f \in Fds, Admit(f)
      PROVE  AdmitInv'
  <2>1. /\ <<f, "OUT">> \in batch /\ batch' = batch \ {<<f, "OUT">>}
        /\ cur' = f /\ epc' = "load" /\ UNCHANGED entry
        /\ sent' = [sent EXCEPT ![f] = IF sent[f] < 2 THEN sent[f] + 1 ELSE 2]
    BY <1>6 DEF Admit, Dispatch, tableVars
  <2>2. \A g \in Fds : interest'[g] = "OUT" => interest[g] = "OUT" /\ g # f
    BY <1>6 DEF Admit, Modify
  <2>3. sent[f] = 0
    BY <2>1
  <2>4. \A g \in Fds : sent'[g] = IF g = f THEN 1 ELSE sent[g]
    BY <2>1, <2>3
  <2> QED BY <2>1, <2>2, <2>4
<1>7. ASSUME NEW f \in Fds, Defer(f)
      PROVE  AdmitInv'
  <2>1. /\ <<f, "OUT">> \in batch /\ batch' = batch \ {<<f, "OUT">>}
        /\ UNCHANGED <<epc, cur, entry, sent>>
    BY <1>7 DEF Defer, Dispatch, tableVars
  <2>2. \A g \in Fds : interest'[g] = "OUT" => interest[g] = "OUT" \/ g = f
    BY <1>7 DEF Defer, Modify
  <2> QED BY <2>1, <2>2
<1>8. ASSUME NEW f \in Fds, HandleIn(f)
      PROVE  AdmitInv'
  BY <1>8 DEF HandleIn, Dispatch, tableVars, netVars
<1>9. ASSUME NEW w \in Threads, Pop(w) \/ FreeSlot(w) \/ ReadFull(w) \/ ReadEof(w) \/ ReadErr(w)
                                \/ StampAborts(w) \/ DecLoad(w) \/ DecStore(w)
      PROVE  AdmitInv'
  <2>1. UNCHANGED <<interest, batch, sent, epc, cur, entry>>
    BY <1>9 DEF Pop, FreeSlot, ReadFull, ReadEof, ReadErr, StampAborts, DecLoad, DecStore,
                epollVars, tableVars, netVars
  <2> QED BY <2>1
<1>10. ASSUME NEW w \in Threads, FailConn(w) \/ FailSize(w) \/ CloseFlow(w)
       PROVE  AdmitInv'
  <2>1. UNCHANGED <<epc, batch, cur, sent>>
    BY <1>10 DEF FailConn, FailSize, CloseFlow, CloseFd, epollVars, netVars
  <2>2. \A g \in Fds : (interest'[g] = "OUT" => interest[g] = "OUT")
                       /\ (entry[g] = "empty" => entry'[g] = "empty")
    BY <1>10 DEF FailConn, FailSize, CloseFlow, CountError, CloseFd, tableVars, netVars
  <2> QED BY <2>1, <2>2
<1>11. ASSUME NEW w \in Threads, Stamp(w)
       PROVE  AdmitInv'
  <2>1. \A g \in Fds : entry[g] = "empty" => entry'[g] = "empty"
    BY <1>11 DEF Stamp
  <2> QED BY <1>11, <2>1 DEF Stamp, epollVars, netVars
<1>12. ASSUME NEW f \in Fds, NetworkStep(f)
       PROVE  AdmitInv'
  <2>1. UNCHANGED <<epollVars, tableVars, sent, interest>>
    BY <1>12 DEF NetworkStep, Connect, Respond, Refuse, Reset, ServerCloses, Happens
  <2> QED BY <2>1 DEF epollVars, tableVars
<1>13. CASE UNCHANGED vars
  BY <1>13 DEF vars, epollVars, tableVars, netVars
<1> QED BY <1>1, <1>2, <1>3, <1>4, <1>5, <1>6, <1>7, <1>8, <1>9, <1>10, <1>11, <1>12, <1>13
        DEF Next, EpollStep, WorkerStep

LEMMA OnceStep == OnceInv /\ [Next]_vars => OnceInv'
<1> SUFFICES ASSUME OnceInv, [Next]_vars PROVE OnceInv'
  OBVIOUS
<1>1. PP!TypeOK'
  BY PoolAssumptions, PoolSteps, TypesSplit, PP!TypeStep DEF OnceInv
<1>2. OwnTypes' /\ AdmitInv'
  BY OwnTypesStep, AdmitStep, TypesSplit DEF OnceInv
<1>3. TypeOK' <=> PP!TypeOK' /\ OwnTypes'
  BY DEF TypeOK, OwnTypes, P!TypeOK, PP!TypeOK, P!Slots, PP!Slots, P!Threads, PP!Threads, Threads
<1> QED BY <1>1, <1>2, <1>3 DEF OnceInv

LEMMA OnceInit == Init => OnceInv /\ PP!Init
<1> SUFFICES ASSUME Init PROVE OnceInv /\ PP!Init
  OBVIOUS
<1> USE DEF Init
<1>1. PP!Init
  BY DEF P!Init, PP!Init, P!Slots, PP!Slots, P!Threads, PP!Threads
<1>2. PP!TypeOK
  BY <1>1, ClientAssumption DEF PP!Init, PP!TypeOK, PP!Slots, PP!Threads
<1>3. PICK created \in SUBSET Fds :
        /\ sock = [f \in Fds |-> IF f \in created THEN "connecting" ELSE "absent"]
        /\ interest = [f \in Fds |-> IF f \in created THEN "OUT" ELSE "none"]
        /\ left = Cardinality(created)
  OBVIOUS
<1>4. left \in 0 .. Word - 1
  <2>1. IsFiniteSet(Fds) /\ Cardinality(Fds) \in Nat /\ Word \in Nat /\ Word > Cardinality(Fds) + 1
    BY ClientAssumption, FS_CardinalityType
  <2>2. Cardinality(created) \in Nat /\ Cardinality(created) <= Cardinality(Fds)
    BY <2>1, FS_Subset, FS_CardinalityType
  <2> QED BY <1>3, <2>1, <2>2
<1>5. OwnTypes
  <2>1. sock \in [Fds -> {"absent", "connecting", "open", "error", "closed"}]
        /\ interest \in [Fds -> {"none", "OUT", "IN"}]
    BY <1>3
  <2> QED BY <1>4, <2>1, CountsMod DEF OwnTypes
<1>6. AdmitInv
  BY DEF AdmitInv
<1> QED BY <1>1, <1>2, <1>5, <1>6, TypesSplit DEF OnceInv

LEMMA Once == Spec => []OnceInv
BY OnceInit, OnceStep, PTL DEF Spec

\* The client keeps its types, under every schedule and every network.
THEOREM ClientTypes == Spec => []TypeOK
<1>1. OnceInv => TypeOK
  BY DEF OnceInv
<1> QED BY <1>1, Once, PTL

\* client.c:64-90: a socket gets one request, and the assertion of
\* set_flow_time_flowsize never fails, under every schedule and every network.
THEOREM OneRequest == Spec => []RequestOnce
<1>1. OnceInv => RequestOnce
  BY DEF OnceInv, AdmitInv, RequestOnce
<1> QED BY <1>1, Once, PTL

\* The client drives the slots as ThreadPoll says: what is proved of ThreadPoll
\* holds in the client.
THEOREM PoolDriven == Spec => UsesPool
<1>1. Init => P!Init
  BY DEF Init
<1>2. OnceInv /\ [Next]_vars => [P!Next]_(P!pollVars)
  <2> SUFFICES ASSUME OnceInv, [Next]_vars PROVE [P!Next]_(P!pollVars)
    OBVIOUS
  <2>1. [PP!Next]_(PP!pollVars)
    BY PoolSteps DEF OnceInv
  <2> QED BY <2>1 DEF P!Next, PP!Next, P!pollVars, PP!pollVars, P!PushCall, PP!PushCall,
                P!Push, PP!Push, P!ScanHit, PP!ScanHit, P!ScanMiss, PP!ScanMiss,
                P!ScanFail, PP!ScanFail, P!Store, PP!Store, P!Signal, PP!Signal,
                P!AfterSignal, PP!AfterSignal, P!Threads, PP!Threads, P!Work, PP!Work,
                P!PopTake, PP!PopTake, P!PopWait, PP!PopWait, P!PopWoken, PP!PopWoken,
                P!Release, PP!Release, P!Take, PP!Take, P!Running, PP!Running,
                P!SpuriousWake, PP!SpuriousWake
<1> QED BY <1>1, <1>2, Once, PTL DEF Spec, UsesPool, P!Spec

-----------------------------------------------------------------------------
(* Where an admitted flow is, with prompt signals.                         *)

\* What ThreadPoll's invariants say of the slots when signals are prompt.
SlotInv ==
    /\ P!TypeOK
    /\ ppc \in {"out", "scan", "store", "exited"}
    /\ ppc \in {"scan", "store"} => pev \in Fds
    /\ ppc = "store" => slot \in Threads /\ flag[slot] = "IDLE"
    /\ \A w \in Threads :
          /\ flag[w] \in {"IDLE", "BUSY"}
          /\ flag[w] = "BUSY" => event[w] \in Fds
          /\ wpc[w] \in {"serving", "woken"} => flag[w] = "BUSY"

LEMMA SlotFacts ==
    ASSUME Prompt, PoolInv
    PROVE  SlotInv
<1> USE SameThreads DEF Prompt, PoolInv, PP!HandOffInv, PP!TypeOK, PP!FlagOK, PP!ChosenOK
<1>1. ppc # "signal"
  <2>1. ppc = "signal" => slot \in Threads /\ ~PP!Pending(slot)
    BY DEF PP!PromptInv
  <2> QED BY <2>1 DEF PP!Pending
<1>2. ppc = "store" => slot \in Threads /\ flag[slot] = "IDLE"
  BY DEF PP!StoreFindsIdle
<1>3. ASSUME NEW w \in Threads
      PROVE  /\ flag[w] \in {"IDLE", "BUSY"}
             /\ flag[w] = "BUSY" => event[w] \in Fds
             /\ wpc[w] \in {"serving", "woken"} => flag[w] = "BUSY"
  <2>1. w \in PP!Threads /\ w \in PP!Slots
    OBVIOUS
  <2>2. flag[w] \in {"IDLE", "BUSY"}
    BY <2>1
  <2>3. flag[w] = "BUSY" => event[w] \in Fds
    BY <2>1 DEF PP!EventInv
  <2>4. wpc[w] \in {"serving", "woken"} => flag[w] = "BUSY"
    BY <2>1 DEF PP!PromptInv
  <2> QED BY <2>2, <2>3, <2>4
<1>4. P!TypeOK
  BY DEF P!TypeOK, P!Slots, PP!Slots, P!Threads, PP!Threads
<1> QED BY <1>1, <1>2, <1>3, <1>4 DEF SlotInv, PP!EventInv

LEMMA PoolStep ==
    ASSUME OnceInv, PoolInv, [Next]_vars
    PROVE  PoolInv'
BY PoolAssumptions, PoolSteps, PP!HandOffStep, PP!EventStep, PP!PromptStep DEF PoolInv, OnceInv

\* The steps that neither admit a flow, nor hand it on, nor end its reading or
\* its service.
QuietNext ==
    \/ Loop \/ Wait \/ DispatchEnd \/ IncLoad \/ Shell
    \/ PushStep /\ ppc # "store"
    \/ \E f \in Fds : HandleErr(f) \/ Defer(f) \/ HandleIn(f) \/ NetworkStep(f)
    \/ \E w \in Threads : \/ Pop(w) \/ ReadEof(w) \/ ReadErr(w) \/ Stamp(w) \/ StampAborts(w)
                          \/ CloseFlow(w) \/ DecLoad(w) \/ FreeSlot(w)
    \/ UNCHANGED vars

LEMMA NextSplit ==
    ASSUME [Next]_vars
    PROVE  \/ QuietNext
           \/ AddFlow
           \/ PushStep /\ ppc = "store"
           \/ \E f \in Fds : Admit(f)
           \/ \E w \in Threads : ReadFull(w) \/ FailConn(w) \/ FailSize(w) \/ DecStore(w)
BY DEF Next, EpollStep, WorkerStep, QuietNext

\* What the places of the flows depend on.
LEMMA PlacesKept ==
    ASSUME UNCHANGED <<flag, event, pev, cur>>,
           \A v \in Threads :
              /\ task'[v] = "release" <=> task[v] = "release"
              /\ task'[v] \in {"read", "connErr", "sizeErr"}
                    <=> task[v] \in {"read", "connErr", "sizeErr"}
    PROVE  UNCHANGED <<InFlight, Admitted, Reading, Unread>>
BY DEF InFlight, Admitted, Reading, Unread

LEMMA QuietPlaces ==
    ASSUME OwnTypes, SlotInv, PlaceInv, QuietNext
    PROVE  /\ UNCHANGED <<InFlight, Admitted, Reading, Unread>>
           /\ UNCHANGED <<event, pev, cur, sent>>
           /\ epc' \in {"load", "add"} <=> epc \in {"load", "add"}
<1> USE DEF OwnTypes
<1>1. CASE \/ Loop \/ Wait \/ DispatchEnd \/ IncLoad \/ Shell \/ UNCHANGED vars
           \/ \E f \in Fds : HandleErr(f) \/ Defer(f) \/ HandleIn(f) \/ NetworkStep(f)
           \/ PushStep /\ ppc # "store"
  <2>1. UNCHANGED <<flag, event, pev, cur, task, sent>>
    <3>1. CASE PushStep /\ ppc # "store"
      BY <3>1 DEF PushStep, P!Push, P!ScanHit, P!ScanMiss, P!ScanFail, P!Store, P!Signal, SlotInv,
                  epollVars, netVars
    <3>2. CASE \/ Loop \/ Wait \/ DispatchEnd \/ IncLoad \/ Shell \/ UNCHANGED vars
      BY <3>2 DEF Loop, Wait, DispatchEnd, IncLoad, Shell, vars, pollVars, epollVars, netVars
    <3>3. CASE \E f \in Fds : HandleErr(f) \/ Defer(f) \/ HandleIn(f) \/ NetworkStep(f)
      BY <3>3 DEF HandleErr, Defer, HandleIn, NetworkStep, Connect, Respond, Refuse, Reset,
                  ServerCloses, Happens, CloseFd, pollVars, epollVars, netVars
    <3> QED BY <1>1, <3>1, <3>2, <3>3
  <2>2. epc' \in {"load", "add"} <=> epc \in {"load", "add"}
    <3>1. CASE PushStep \/ UNCHANGED vars \/ Shell
      BY <3>1 DEF PushStep, vars, epollVars, Shell
    <3>2. CASE Loop \/ Wait \/ DispatchEnd \/ IncLoad
      BY <3>2 DEF Loop, Wait, DispatchEnd, IncLoad
    <3>3. CASE \E f \in Fds : HandleErr(f) \/ Defer(f) \/ HandleIn(f) \/ NetworkStep(f)
      BY <3>3 DEF HandleErr, Defer, HandleIn, NetworkStep, Connect, Respond, Refuse, Reset,
                  ServerCloses, Happens, epollVars
    <3> QED BY <1>1, <3>1, <3>2, <3>3
  <2> QED BY <2>1, <2>2, PlacesKept
<1>2. ASSUME NEW w \in Threads,
             \/ Pop(w) \/ ReadEof(w) \/ ReadErr(w) \/ Stamp(w) \/ StampAborts(w)
             \/ CloseFlow(w) \/ DecLoad(w)
      PROVE  /\ UNCHANGED <<flag, event, pev, cur, sent, epc>>
             /\ \A v \in Threads :
                   /\ task'[v] = "release" <=> task[v] = "release"
                   /\ task'[v] \in {"read", "connErr", "sizeErr"}
                         <=> task[v] \in {"read", "connErr", "sizeErr"}
  <2>1. UNCHANGED <<flag, event, pev, cur, sent, epc>>
    BY <1>2 DEF Pop, P!PopTake, P!PopWait, P!PopWoken, P!Take, ReadEof, ReadErr, Stamp,
                StampAborts, CloseFlow, CloseFd, DecLoad, pollVars, epollVars, netVars
  <2>2. CASE Pop(w)
    BY <2>1, <2>2 DEF Pop
  <2>3. CASE ReadEof(w) \/ ReadErr(w)
    BY <2>1, <2>3 DEF ReadEof, ReadErr, At, Go
  <2>4. CASE Stamp(w) \/ StampAborts(w) \/ CloseFlow(w) \/ DecLoad(w)
    BY <2>1, <2>4 DEF Stamp, StampAborts, CloseFlow, DecLoad, At, Go
  <2> QED BY <1>2, <2>1, <2>2, <2>3, <2>4
<1>3. ASSUME NEW w \in Threads, FreeSlot(w)
      PROVE  /\ UNCHANGED <<InFlight, Reading, event, pev, cur, sent, epc>>
  <2>1. UNCHANGED <<event, pev, cur, sent, epc>> /\ task[w] = "release"
    BY <1>3 DEF FreeSlot, At, P!Release, epollVars, netVars
  <2>2. \A v \in Threads : v # w => flag'[v] = flag[v] /\ task'[v] = task[v]
    BY <1>3 DEF FreeSlot, P!Release, Go
  <2>3. flag'[w] # "BUSY"
    <3>1. flag' = [flag EXCEPT ![w] = "IDLE"] /\ w \in DOMAIN flag
      BY <1>3, SameThreads DEF FreeSlot, P!Release, SlotInv, P!TypeOK
    <3> QED BY <3>1
  <2> QED BY <2>1, <2>2, <2>3 DEF InFlight, Reading
<1>4. ASSUME NEW w \in Threads, FreeSlot(w)
      PROVE  UNCHANGED <<Admitted, Unread>>
  BY <1>3, <1>4 DEF Admitted, Unread
<1> QED BY <1>1, <1>2, <1>3, <1>4, PlacesKept DEF QuietNext

\* Admitting a flow adds it.
LEMMA AdmitMoves ==
    ASSUME OwnTypes, AdmitInv, PlaceInv, NEW f \in Fds, Admit(f)
    PROVE  /\ UNCHANGED <<InFlight, Reading, event, pev, ppc, wpc, wev, task>>
           /\ pev = NoFd /\ cur = NoFd /\ cur' = f /\ epc = "dispatch" /\ epc' = "load"
           /\ sent[f] = 0 /\ sent' = [sent EXCEPT ![f] = 1]
           /\ Admitted' = Admitted \cup {f} /\ f \notin Admitted
           /\ Unread' = Unread \cup {f}
<1> USE DEF OwnTypes
<1>1. /\ UNCHANGED <<flag, event, pev, ppc, wpc, wev, task>>
      /\ epc = "dispatch" /\ epc' = "load" /\ ppc = "out" /\ cur' = f
      /\ <<f, "OUT">> \in batch
      /\ sent' = [sent EXCEPT ![f] = IF sent[f] < 2 THEN sent[f] + 1 ELSE 2]
  BY DEF Admit, Dispatch, pollVars
<1>2. pev = NoFd /\ cur = NoFd /\ f # NoFd
  BY <1>1, ClientAssumption DEF PlaceInv
<1>3. sent[f] = 0
  BY <1>1 DEF AdmitInv
<1>4. sent' = [sent EXCEPT ![f] = 1]
  BY <1>1, <1>3
<1>5. UNCHANGED <<InFlight, Reading>>
  BY <1>1 DEF InFlight, Reading
<1>6. f \notin Admitted
  BY <1>3 DEF PlaceInv
<1>7. Admitted' = Admitted \cup {f} /\ Unread' = Unread \cup {f}
  BY <1>1, <1>2, <1>5 DEF Admitted, Unread
<1> QED BY <1>1, <1>2, <1>3, <1>4, <1>5, <1>6, <1>7

\* Adding it to the table hands it to the push.
LEMMA AddMoves ==
    ASSUME OwnTypes, AdmitInv, PlaceInv, AddFlow
    PROVE  /\ UNCHANGED <<InFlight, Reading, Admitted, Unread, event, wpc, wev, task, sent>>
           /\ cur \in Fds /\ pev = NoFd /\ cur' = NoFd /\ pev' = cur
           /\ ppc' = "scan" /\ epc = "add" /\ epc' = "dispatch"
<1>1. /\ UNCHANGED <<flag, event, wpc, wev, task, sent>>
      /\ epc = "add" /\ epc' = "dispatch" /\ ppc' = "scan" /\ cur' = NoFd /\ pev' = cur
  BY DEF AddFlow, P!PushCall, netVars
<1>2. cur \in Fds /\ pev = NoFd
  BY <1>1 DEF AdmitInv, PlaceInv
<1>3. UNCHANGED <<InFlight, Reading>>
  BY <1>1 DEF InFlight, Reading
<1>4. UNCHANGED <<Admitted, Unread>>
  BY <1>1, <1>2, <1>3 DEF Admitted, Unread
<1> QED BY <1>1, <1>2, <1>3, <1>4

\* The push hands it to an idle slot.
LEMMA StoreMoves ==
    ASSUME Prompt, SlotInv, PlaceInv, PushStep, ppc = "store"
    PROVE  /\ slot \in Threads /\ slot \notin InFlight
           /\ InFlight' = InFlight \cup {slot} /\ Reading' = Reading \cup {slot}
           /\ \A w \in Threads : event'[w] = IF w = slot THEN pev ELSE event[w]
           /\ pev \in Fds /\ pev' = NoFd /\ ppc' = "out" /\ cur = NoFd
           /\ \A w \in Threads : wpc'[w] = "serving" <=> wpc[w] = "serving"
           /\ UNCHANGED <<Admitted, Unread, wev, task, sent, epc, cur>>
<1>1. /\ flag' = [flag EXCEPT ![slot] = "BUSY"] /\ event' = [event EXCEPT ![slot] = pev]
      /\ ppc' = "out" /\ pev' = NoFd /\ wpc' = P!AfterSignal
      /\ UNCHANGED <<wev, task, sent, epc, cur>>
  BY DEF PushStep, P!Push, P!ScanHit, P!ScanMiss, P!ScanFail, P!Store, P!Signal, Prompt,
         epollVars, netVars
<1>2. slot \in Threads /\ flag[slot] = "IDLE" /\ pev \in Fds /\ wpc[slot] # "serving"
  BY DEF SlotInv
<1>3. cur = NoFd /\ task[slot] = "read"
  BY <1>2 DEF PlaceInv
<1>4. \A w \in Threads : wpc'[w] = "serving" <=> wpc[w] = "serving"
  BY <1>1, SameThreads DEF P!AfterSignal, Threads
<1>5. \A w \in Threads : /\ event'[w] = IF w = slot THEN pev ELSE event[w]
                         /\ flag'[w] = IF w = slot THEN "BUSY" ELSE flag[w]
  BY <1>1, <1>2, SameThreads DEF SlotInv, P!TypeOK
<1>6. slot \notin InFlight /\ InFlight' = InFlight \cup {slot} /\ Reading' = Reading \cup {slot}
  BY <1>1, <1>2, <1>3, <1>5 DEF InFlight, Reading
<1>7. \A w \in InFlight : w \in Threads /\ w # slot
  BY <1>6 DEF InFlight
<1>8. Admitted' = Admitted
  BY <1>1, <1>2, <1>3, <1>5, <1>6, <1>7 DEF Admitted
<1>9. Unread' = Unread
  <2>1. \A w \in Reading : w \in Threads /\ w # slot
    BY <1>7 DEF Reading
  <2> QED BY <1>1, <1>2, <1>3, <1>5, <1>6, <2>1 DEF Unread
<1> QED BY <1>1, <1>2, <1>3, <1>4, <1>5, <1>6, <1>8, <1>9

\* A worker that is done with reading takes its flow from the unread ones.
LEMMA ReadMoves ==
    ASSUME OwnTypes, SlotInv, PlaceInv, NEW w \in Threads, ReadFull(w) \/ FailConn(w) \/ FailSize(w)
    PROVE  /\ UNCHANGED <<InFlight, Admitted, event, pev, cur, ppc, wpc, wev, sent, epc>>
           /\ w \in InFlight /\ wpc[w] = "serving" /\ wev[w] = event[w] /\ event[w] \in Fds
           /\ event[w] \in Unread /\ Unread' = Unread \ {event[w]}
<1> USE DEF OwnTypes
<1>1. /\ UNCHANGED <<flag, event, pev, cur, ppc, wpc, wev, sent, epc>>
      /\ wpc[w] = "serving" /\ task[w] \in {"read", "connErr", "sizeErr"}
      /\ \A v \in Threads : v # w => task'[v] = task[v]
      /\ task'[w] \in {"stamp", "load"}
  BY DEF ReadFull, FailConn, FailSize, CountError, CloseFd, At, Go, pollVars, epollVars, netVars
<1>2. flag[w] = "BUSY" /\ event[w] \in Fds /\ wev[w] = event[w]
  BY <1>1 DEF SlotInv, PlaceInv
<1>3. w \in InFlight /\ UNCHANGED InFlight /\ Reading' = Reading \ {w} /\ w \in Reading
  BY <1>1, <1>2 DEF InFlight, Reading
<1>4. UNCHANGED Admitted
  BY <1>1, <1>3 DEF Admitted
<1>5. \A v \in Reading \ {w} : event[v] # event[w]
  BY <1>3 DEF PlaceInv, Reading
<1>6. event[w] # cur /\ event[w] # pev /\ event[w] # NoFd
  BY <1>2, <1>3, ClientAssumption DEF PlaceInv
<1>7. event[w] \in Unread /\ Unread' = Unread \ {event[w]}
  BY <1>1, <1>3, <1>5, <1>6 DEF Unread
<1> QED BY <1>1, <1>2, <1>3, <1>4, <1>7

\* A worker that counts its flow out ends its admission.
LEMMA DecMoves ==
    ASSUME OwnTypes, SlotInv, PlaceInv, NEW w \in Threads, DecStore(w)
    PROVE  /\ UNCHANGED <<Unread, event, pev, cur, ppc, wpc, wev, sent, epc>>
           /\ w \in InFlight /\ wpc[w] = "serving" /\ wev[w] = event[w] /\ event[w] \in Fds
           /\ InFlight' = InFlight \ {w}
           /\ event[w] \in Admitted /\ Admitted' = Admitted \ {event[w]}
<1> USE DEF OwnTypes
<1>1. /\ UNCHANGED <<flag, event, pev, cur, ppc, wpc, wev, sent, epc>>
      /\ wpc[w] = "serving" /\ task[w] = "store" /\ task' = [task EXCEPT ![w] = "release"]
  BY DEF DecStore, At, Go, pollVars, epollVars, netVars
<1>2. flag[w] = "BUSY" /\ event[w] \in Fds /\ wev[w] = event[w]
  BY <1>1 DEF SlotInv, PlaceInv
<1>3. w \in InFlight /\ InFlight' = InFlight \ {w} /\ UNCHANGED Reading
  BY <1>1, <1>2 DEF InFlight, Reading
<1>4. UNCHANGED Unread
  BY <1>1, <1>3 DEF Unread
<1>5. \A v \in InFlight \ {w} : event[v] # event[w]
  BY <1>3 DEF PlaceInv
<1>6. event[w] # cur /\ event[w] # pev /\ event[w] # NoFd
  BY <1>2, <1>3, ClientAssumption DEF PlaceInv
<1>7. event[w] \in Admitted /\ Admitted' = Admitted \ {event[w]}
  BY <1>1, <1>3, <1>5, <1>6 DEF Admitted
<1> QED BY <1>1, <1>2, <1>3, <1>4, <1>7

\* An admitted flow stays at one place.
LEMMA PlaceStep ==
    ASSUME Prompt, OwnTypes, AdmitInv, SlotInv, PlaceInv, [Next]_vars
    PROVE  PlaceInv'
<1>1. CASE QuietNext
  <2>1. /\ UNCHANGED <<InFlight, Admitted, event, pev, cur, sent>>
        /\ epc' \in {"load", "add"} <=> epc \in {"load", "add"}
    BY <1>1, QuietPlaces
  <2>2. /\ ppc' = "out" => pev' = NoFd
        /\ epc' \in {"load", "add"} => ppc' = "out"
    <3>1. CASE PushStep /\ ppc # "store"
      <4>1. ppc \notin {"out", "signal", "store"} /\ ppc' # "out" /\ UNCHANGED epc
        BY <3>1 DEF PushStep, P!Push, P!ScanHit, P!ScanMiss, P!ScanFail, P!Store, P!Signal, SlotInv,
                    epollVars
      <4> QED BY <4>1 DEF PlaceInv
    <3>2. CASE \/ Loop \/ Wait \/ DispatchEnd \/ IncLoad \/ Shell \/ UNCHANGED vars
               \/ \E f \in Fds : HandleErr(f) \/ Defer(f) \/ HandleIn(f) \/ NetworkStep(f)
      <4>1. UNCHANGED ppc
        BY <3>2 DEF Loop, Wait, DispatchEnd, IncLoad, Shell, HandleErr, Defer, HandleIn, NetworkStep,
                    Connect, Respond, Refuse, Reset, ServerCloses, Happens, vars, pollVars
      <4> QED BY <2>1, <4>1 DEF PlaceInv
    <3>3. CASE \E w \in Threads : \/ Pop(w) \/ ReadEof(w) \/ ReadErr(w) \/ Stamp(w) \/ StampAborts(w)
                                  \/ CloseFlow(w) \/ DecLoad(w) \/ FreeSlot(w)
      <4>1. UNCHANGED ppc
        BY <3>3 DEF Pop, P!PopTake, P!PopWait, P!PopWoken, P!Take, ReadEof, ReadErr, Stamp,
                    StampAborts, CloseFlow, DecLoad, FreeSlot, P!Release, pollVars
      <4> QED BY <2>1, <4>1 DEF PlaceInv
    <3> QED BY <1>1, <3>1, <3>2, <3>3 DEF QuietNext
  <2>3. \A w \in Threads : IF wpc'[w] = "serving" THEN wev'[w] = event'[w] ELSE task'[w] = "read"
    <3>1. CASE \E w \in Threads : Pop(w)
      <4>1. PICK w \in Threads : Pop(w)
        BY <3>1
      <4>2. /\ UNCHANGED <<event, task>> /\ wpc[w] # "serving"
            /\ \A v \in Threads : v # w => wpc'[v] = wpc[v] /\ wev'[v] = wev[v]
            /\ wpc'[w] = "serving" => wev'[w] = event[w]
        BY <4>1, SameThreads DEF Pop, P!PopTake, P!PopWait, P!PopWoken, P!Take, SlotInv, P!TypeOK, Threads
      <4> QED BY <4>2 DEF PlaceInv
    <3>2. CASE \E w \in Threads : FreeSlot(w)
      <4>1. PICK w \in Threads : FreeSlot(w)
        BY <3>2
      <4>2. /\ UNCHANGED event /\ task'[w] = "read" /\ wpc'[w] = "pop"
            /\ \A v \in Threads : v # w => wpc'[v] = wpc[v] /\ wev'[v] = wev[v] /\ task'[v] = task[v]
        BY <4>1 DEF FreeSlot, Go, P!Release, SlotInv, P!TypeOK, Threads, OwnTypes
      <4> QED BY <4>2 DEF PlaceInv
    <3>3. CASE \E w \in Threads : \/ ReadEof(w) \/ ReadErr(w) \/ Stamp(w) \/ StampAborts(w)
                                  \/ CloseFlow(w) \/ DecLoad(w)
      <4>1. PICK w \in Threads : \/ ReadEof(w) \/ ReadErr(w) \/ Stamp(w) \/ StampAborts(w)
                                 \/ CloseFlow(w) \/ DecLoad(w)
        BY <3>3
      <4>2. /\ UNCHANGED <<event, wpc, wev>> /\ wpc[w] = "serving"
            /\ \A v \in Threads : v # w => task'[v] = task[v]
        BY <4>1 DEF ReadEof, ReadErr, Stamp, StampAborts, CloseFlow, DecLoad, At, Go, pollVars,
                    OwnTypes
      <4> QED BY <4>2 DEF PlaceInv
    <3>4. CASE PushStep /\ ppc # "store"
      <4>1. UNCHANGED <<event, wpc, wev, task>>
        BY <3>4 DEF PushStep, P!Push, P!ScanHit, P!ScanMiss, P!ScanFail, P!Store, P!Signal, SlotInv
      <4> QED BY <4>1 DEF PlaceInv
    <3>5. CASE \/ Loop \/ Wait \/ DispatchEnd \/ IncLoad \/ Shell \/ UNCHANGED vars
               \/ \E f \in Fds : HandleErr(f) \/ Defer(f) \/ HandleIn(f) \/ NetworkStep(f)
      <4>1. UNCHANGED <<event, wpc, wev, task>>
        BY <3>5 DEF Loop, Wait, DispatchEnd, IncLoad, Shell, HandleErr, Defer, HandleIn, NetworkStep,
                    Connect, Respond, Refuse, Reset, ServerCloses, Happens, vars, pollVars
      <4> QED BY <4>1 DEF PlaceInv
    <3> QED BY <1>1, <3>1, <3>2, <3>3, <3>4, <3>5 DEF QuietNext
  <2> QED BY <2>1, <2>2, <2>3 DEF PlaceInv
<1>2. CASE AddFlow
  <2>1. \A w \in InFlight : event[w] # cur
    BY DEF PlaceInv
  <2>2. \A w \in InFlight : event[w] # NoFd
    BY ClientAssumption DEF SlotInv, InFlight
  <2> QED BY <1>2, <2>1, <2>2, AddMoves DEF PlaceInv
<1>3. CASE PushStep /\ ppc = "store"
  <2>1. \A w \in InFlight : w \in Threads /\ w # slot /\ event[w] # pev /\ event[w] # NoFd
    BY <1>3, StoreMoves, ClientAssumption DEF PlaceInv, SlotInv, InFlight
  <2>2. wpc[slot] # "serving"
    BY <1>3 DEF SlotInv
  <2> QED BY <1>3, <2>1, <2>2, StoreMoves, ClientAssumption DEF PlaceInv
<1>4. ASSUME NEW f \in Fds, Admit(f)
      PROVE  PlaceInv'
  <2>1. \A w \in InFlight : event[w] \in Admitted
    BY ClientAssumption DEF Admitted, InFlight, SlotInv
  <2>2. ppc = "out"
    BY <1>4 DEF Admit, Dispatch
  <2>3. \A g \in Admitted : g \in Fds
    BY DEF Admitted, InFlight, SlotInv, P!TypeOK, OwnTypes
  <2> QED BY <1>4, <2>1, <2>2, <2>3, AdmitMoves, ClientAssumption DEF PlaceInv, OwnTypes
<1>5. ASSUME NEW w \in Threads, ReadFull(w) \/ FailConn(w) \/ FailSize(w)
      PROVE  PlaceInv'
  <2>1. \A v \in Threads : v # w => task'[v] = task[v]
    BY <1>5 DEF ReadFull, FailConn, FailSize, CountError, Go, OwnTypes
  <2> QED BY <1>5, <2>1, ReadMoves DEF PlaceInv
<1>6. ASSUME NEW w \in Threads, DecStore(w)
      PROVE  PlaceInv'
  <2>1. \A v \in Threads : v # w => task'[v] = task[v]
    BY <1>6 DEF DecStore, Go, OwnTypes
  <2> QED BY <1>6, <2>1, DecMoves DEF PlaceInv
<1> QED BY <1>1, <1>2, <1>3, <1>4, <1>5, <1>6, NextSplit

-----------------------------------------------------------------------------
(* The sockets.                                                            *)

\* A worker that serves a flow it has not counted out serves an admitted one.
LEMMA ServedAdmitted ==
    ASSUME SlotInv, PlaceInv, NEW w \in Threads, wpc[w] = "serving", task[w] # "release"
    PROVE  /\ w \in InFlight /\ wev[w] = event[w] /\ event[w] \in Fds
           /\ event[w] \in Admitted /\ sent[event[w]] = 1
<1>1. flag[w] = "BUSY" /\ event[w] \in Fds /\ wev[w] = event[w]
  BY DEF SlotInv, PlaceInv
<1>2. w \in InFlight /\ event[w] \in Admitted
  BY <1>1, ClientAssumption DEF InFlight, Admitted
<1> QED BY <1>1, <1>2 DEF PlaceInv

\* Sockets are created before the loop, and a dead one stays dead.
LEMMA SocketMoves ==
    ASSUME OwnTypes, SlotInv, PlaceInv, SocketInv, [Next]_vars
    PROVE  \A f \in Fds : (sock'[f] = "absent" <=> sock[f] = "absent") /\ (Dead(f) => Dead(f)')
<1> USE DEF OwnTypes, Dead
<1>1. CASE \/ Loop \/ Wait \/ DispatchEnd \/ IncLoad \/ AddFlow \/ PushStep \/ Shell \/ UNCHANGED vars
           \/ \E f \in Fds : Admit(f) \/ Defer(f) \/ HandleIn(f)
  <2>1. UNCHANGED sock
    BY <1>1 DEF Loop, Wait, DispatchEnd, IncLoad, AddFlow, PushStep, Shell, vars, netVars, Admit,
                Defer, HandleIn, Modify
  <2> QED BY <2>1
<1>2. ASSUME NEW g \in Fds, sock[g] # "absent", CloseFd(g)
      PROVE  \A f \in Fds : (sock'[f] = "absent" <=> sock[f] = "absent") /\ (Dead(f) => Dead(f)')
  BY <1>2 DEF CloseFd
<1>3. ASSUME NEW g \in Fds, HandleErr(g)
      PROVE  sock[g] # "absent" /\ CloseFd(g)
  BY <1>3 DEF HandleErr, Dispatch, SocketInv
<1>4. ASSUME NEW w \in Threads, FailSize(w) \/ CloseFlow(w)
      PROVE  wev[w] \in Fds /\ sock[wev[w]] # "absent" /\ CloseFd(wev[w])
  <2>1. wpc[w] = "serving" /\ task[w] # "release" /\ CloseFd(wev[w])
    BY <1>4 DEF FailSize, CloseFlow, At
  <2> QED BY <2>1, ServedAdmitted DEF SocketInv
<1>5. ASSUME NEW w \in Threads,
             \/ Pop(w) \/ ReadFull(w) \/ ReadEof(w) \/ ReadErr(w) \/ FailConn(w) \/ Stamp(w)
             \/ StampAborts(w) \/ DecLoad(w) \/ DecStore(w) \/ FreeSlot(w)
      PROVE  UNCHANGED sock
  BY <1>5 DEF Pop, ReadFull, ReadEof, ReadErr, FailConn, Stamp, StampAborts, DecLoad, DecStore,
              FreeSlot, netVars
<1>6. ASSUME NEW g \in Fds, NetworkStep(g)
      PROVE  \A f \in Fds : (sock'[f] = "absent" <=> sock[f] = "absent") /\ (Dead(f) => Dead(f)')
  BY <1>6 DEF NetworkStep, Connect, Respond, Refuse, Reset, ServerCloses
<1> QED BY <1>1, <1>2, <1>3, <1>4, <1>5, <1>6 DEF Next, EpollStep, WorkerStep

\* A worker gets to counting its flow out when the flow's socket is dead.
LEMMA DeadStep ==
    ASSUME OwnTypes, SlotInv, PlaceInv, SocketInv, [Next]_vars, NEW v \in Threads,
           wpc'[v] = "serving", task'[v] \in {"connErr", "load", "store", "release"}
    PROVE  Dead(wev[v])' /\ wev'[v] = wev[v]
<1> USE DEF OwnTypes
<1> DEFINE Counting == {"connErr", "load", "store", "release"}
<1>1. ASSUME wpc[v] = "serving", task[v] \in Counting, wev'[v] = wev[v]
      PROVE  Dead(wev[v])' /\ wev'[v] = wev[v]
  BY <1>1, SocketMoves DEF SocketInv, SlotInv, PlaceInv, Dead
<1>2. CASE \/ Loop \/ Wait \/ DispatchEnd \/ IncLoad \/ AddFlow \/ Shell \/ UNCHANGED vars
           \/ \E f \in Fds : HandleErr(f) \/ Admit(f) \/ Defer(f) \/ HandleIn(f) \/ NetworkStep(f)
  <2>1. UNCHANGED <<wpc, wev, task>>
    BY <1>2 DEF Loop, Wait, DispatchEnd, IncLoad, AddFlow, P!PushCall, Shell, vars, pollVars, HandleErr,
                Admit, Defer, HandleIn, NetworkStep, Connect, Respond, Refuse, Reset, ServerCloses,
                Happens
  <2> QED BY <1>1, <2>1
<1>3. CASE PushStep
  <2>1. UNCHANGED <<wev, task>> /\ wpc[v] = "serving"
    BY <1>3, SameThreads DEF PushStep, P!Push, P!ScanHit, P!ScanMiss, P!ScanFail, P!Store, P!Signal,
                P!AfterSignal, Threads
  <2> QED BY <1>1, <2>1
<1>4. ASSUME NEW w \in Threads,
             \/ Pop(w) \/ ReadFull(w) \/ ReadEof(w) \/ ReadErr(w) \/ FailConn(w) \/ FailSize(w)
             \/ Stamp(w) \/ StampAborts(w) \/ CloseFlow(w) \/ DecLoad(w) \/ DecStore(w) \/ FreeSlot(w)
      PROVE  Dead(wev[v])' /\ wev'[v] = wev[v]
  <2>1. CASE w # v
    <3>1. CASE Pop(w) \/ FreeSlot(w)
      <4>1. wpc[v] = wpc'[v] /\ wev'[v] = wev[v] /\ task'[v] = task[v]
        BY <2>1, <3>1, SameThreads DEF Pop, P!PopTake, P!PopWait, P!PopWoken, P!Take, FreeSlot,
                P!Release, Go, SlotInv, P!TypeOK, Threads
      <4> QED BY <1>1, <4>1
    <3>2. CASE \/ ReadFull(w) \/ ReadEof(w) \/ ReadErr(w) \/ FailConn(w) \/ FailSize(w)
               \/ Stamp(w) \/ StampAborts(w) \/ CloseFlow(w) \/ DecLoad(w) \/ DecStore(w)
      <4>1. wpc[v] = wpc'[v] /\ wev'[v] = wev[v] /\ task'[v] = task[v]
        BY <2>1, <3>2 DEF ReadFull, ReadEof, ReadErr, FailConn, FailSize, CountError, Stamp,
                StampAborts, CloseFlow, DecLoad, DecStore, Go, pollVars
      <4> QED BY <1>1, <4>1
    <3> QED BY <1>4, <3>1, <3>2
  <2>2. CASE w = v /\ Pop(w)
    BY <2>2, SameThreads DEF Pop, P!PopTake, P!PopWait, P!PopWoken, P!Take, SlotInv, P!TypeOK, PlaceInv,
                Threads
  <2>3. CASE w = v /\ FreeSlot(w)
    BY <2>3 DEF FreeSlot, P!Release, SlotInv, P!TypeOK, Threads
  <2>4. CASE w = v /\ ReadErr(w)
    <3>1. wev'[v] = wev[v] /\ Dead(wev[v]) /\ UNCHANGED sock
      BY <2>4 DEF ReadErr, Dead, pollVars, netVars
    <3> QED BY <3>1 DEF Dead
  <2>5. CASE w = v /\ (FailSize(w) \/ CloseFlow(w))
    <3>1. wpc[w] = "serving" /\ task[w] # "release" /\ CloseFd(wev[w]) /\ UNCHANGED wev
      BY <2>5 DEF FailSize, CloseFlow, At, pollVars
    <3>2. wev[w] \in Fds
      BY <3>1, ServedAdmitted
    <3> QED BY <2>5, <3>1, <3>2 DEF CloseFd, Dead
  <2>6. CASE w = v /\ (ReadFull(w) \/ ReadEof(w) \/ Stamp(w) \/ StampAborts(w))
    BY <2>6 DEF ReadFull, ReadEof, Stamp, StampAborts, Go
  <2>7. CASE w = v /\ (FailConn(w) \/ DecLoad(w) \/ DecStore(w))
    <3>1. wev'[v] = wev[v] /\ wpc[v] = "serving" /\ task[v] \in Counting
      BY <2>7 DEF FailConn, DecLoad, DecStore, At, pollVars
    <3> QED BY <1>1, <3>1
  <2> QED BY <1>4, <2>1, <2>2, <2>3, <2>4, <2>5, <2>6, <2>7
<1> QED BY <1>2, <1>3, <1>4 DEF Next, EpollStep, WorkerStep

\* What is registered or reported exists, and whoever sent a request is
\* admitted or dead.
LEMMA SocketStep ==
    ASSUME Prompt, OwnTypes, AdmitInv, SlotInv, PlaceInv, SocketInv, [Next]_vars
    PROVE  SocketInv'
<1> USE DEF OwnTypes
<1>1. \A f \in Fds : (sock'[f] = "absent" <=> sock[f] = "absent") /\ (Dead(f) => Dead(f)')
  BY SocketMoves
<1>2. \A f \in Fds : interest'[f] # "none" => interest[f] # "none" \/ <<f, "OUT">> \in batch
  <2>1. CASE \E f \in Fds : Admit(f) \/ Defer(f)
    BY <2>1 DEF Admit, Defer, Dispatch, Modify
  <2>2. ASSUME NEW f \in Fds, CloseFd(f)
        PROVE  \A g \in Fds : interest'[g] # "none" => interest[g] # "none"
    BY <2>2 DEF CloseFd
  <2>3. ASSUME NEW w \in Threads, FailSize(w) \/ CloseFlow(w)
        PROVE  wev[w] \in Fds /\ CloseFd(wev[w])
    <3>1. wpc[w] = "serving" /\ task[w] # "release" /\ CloseFd(wev[w])
      BY <2>3 DEF FailSize, CloseFlow, At
    <3> QED BY <3>1, ServedAdmitted
  <2>4. CASE \/ Loop \/ Wait \/ DispatchEnd \/ IncLoad \/ AddFlow \/ PushStep \/ Shell \/ UNCHANGED vars
             \/ \E f \in Fds : HandleIn(f) \/ NetworkStep(f)
    BY <2>4 DEF Loop, Wait, DispatchEnd, IncLoad, AddFlow, PushStep, Shell, vars, netVars, HandleIn,
                NetworkStep, Connect, Respond, Refuse, Reset, ServerCloses, Happens
  <2>5. ASSUME NEW w \in Threads,
               \/ Pop(w) \/ ReadFull(w) \/ ReadEof(w) \/ ReadErr(w) \/ FailConn(w) \/ Stamp(w)
               \/ StampAborts(w) \/ DecLoad(w) \/ DecStore(w) \/ FreeSlot(w)
        PROVE  UNCHANGED interest
    BY <2>5 DEF Pop, ReadFull, ReadEof, ReadErr, FailConn, Stamp, StampAborts, DecLoad, DecStore,
                FreeSlot, netVars
  <2>6. ASSUME NEW f \in Fds, HandleErr(f)
        PROVE  CloseFd(f)
    BY <2>6 DEF HandleErr
  <2> QED BY <2>1, <2>2, <2>3, <2>4, <2>5, <2>6 DEF Next, EpollStep, WorkerStep
<1>3. \A e \in batch' : e[1] \in Fds /\ sock[e[1]] # "absent"
  <2>1. batch' \subseteq batch \/ Wait
    <3>1. EpollStep \/ Shell \/ UNCHANGED vars => batch' \subseteq batch \/ Wait
      BY DEF EpollStep, Loop, DispatchEnd, IncLoad, AddFlow, PushStep, Shell, vars, HandleErr, Admit,
             Defer, HandleIn, Dispatch, epollVars
    <3>2. ASSUME NEW w \in Threads, WorkerStep(w)
          PROVE  UNCHANGED batch
      BY <3>2 DEF WorkerStep, Pop, ReadFull, ReadEof, ReadErr, FailConn, FailSize, Stamp, StampAborts,
                  CloseFlow, DecLoad, DecStore, FreeSlot, epollVars
    <3>3. ASSUME NEW f \in Fds, NetworkStep(f)
          PROVE  UNCHANGED batch
      BY <3>3 DEF NetworkStep, Connect, Respond, Refuse, Reset, ServerCloses, Happens, epollVars
    <3> QED BY <3>1, <3>2, <3>3 DEF Next
  <2>2. CASE batch' \subseteq batch
    BY <2>2 DEF SocketInv
  <2>3. CASE Wait
    <3>1. \A e \in batch' : e[1] \in Fds /\ interest[e[1]] # "none"
      BY <2>3 DEF Wait, Kind
    <3> QED BY <3>1 DEF SocketInv
  <2> QED BY <2>1, <2>2, <2>3
<1>4. ASSUME NEW f \in Fds, sent'[f] # 0
      PROVE  (f \in Admitted \/ Dead(f))' /\ sock[f] # "absent"
  <2>1. CASE QuietNext
    BY <1>1, <1>4, <2>1, QuietPlaces DEF SocketInv
  <2>2. CASE AddFlow
    BY <1>1, <1>4, <2>2, AddMoves DEF SocketInv
  <2>3. CASE PushStep /\ ppc = "store"
    BY <1>1, <1>4, <2>3, StoreMoves DEF SocketInv
  <2>4. ASSUME NEW g \in Fds, Admit(g)
        PROVE  (f \in Admitted \/ Dead(f))' /\ sock[f] # "absent"
    <3>1. sock[g] # "absent"
      BY <2>4 DEF Admit, Dispatch, SocketInv
    <3> QED BY <1>1, <1>4, <2>4, <3>1, AdmitMoves DEF SocketInv
  <2>5. ASSUME NEW w \in Threads, ReadFull(w) \/ FailConn(w) \/ FailSize(w)
        PROVE  (f \in Admitted \/ Dead(f))' /\ sock[f] # "absent"
    BY <1>1, <1>4, <2>5, ReadMoves DEF SocketInv
  <2>6. ASSUME NEW w \in Threads, DecStore(w)
        PROVE  (f \in Admitted \/ Dead(f))' /\ sock[f] # "absent"
    <3>1. task[w] = "store" /\ wpc[w] = "serving" /\ wev[w] = event[w]
      BY <2>6, DecMoves DEF DecStore, At
    <3>2. Dead(event[w])
      BY <3>1 DEF SocketInv
    <3> QED BY <1>1, <1>4, <2>6, <3>2, DecMoves DEF SocketInv
  <2> QED BY <2>1, <2>2, <2>3, <2>4, <2>5, <2>6, NextSplit
<1>5. ASSUME NEW f \in Fds, interest'[f] # "none"
      PROVE  sock'[f] # "absent"
  <2>1. CASE <<f, "OUT">> \in batch
    BY <1>1, <2>1 DEF SocketInv
  <2> QED BY <1>1, <1>2, <1>5, <2>1 DEF SocketInv
<1>6. \A e \in batch' : sock'[e[1]] # "absent"
  BY <1>1, <1>3
<1>7. \A v \in Threads : wpc'[v] = "serving" /\ task'[v] \in {"connErr", "load", "store", "release"}
                            => Dead(wev[v])'
  BY DeadStep
<1> QED BY <1>1, <1>4, <1>5, <1>6, <1>7 DEF SocketInv

-----------------------------------------------------------------------------
(* The counters.                                                           *)

\* The sets the counters count are finite.
LEMMA CountedFinite ==
    /\ IsFiniteSet(InFlight) /\ Cardinality(InFlight) \in Nat
    /\ IsFiniteSet(Waiting) /\ Cardinality(Waiting) \in Nat
<1>1. IsFiniteSet(Threads)
  BY ClientAssumption, FS_Interval DEF Threads, P!Threads
<1>2. InFlight \subseteq Threads /\ Waiting \subseteq Fds
  BY DEF InFlight, Waiting, Created
<1> QED BY <1>1, <1>2, ClientAssumption, FS_Subset, FS_CardinalityType

\* The waiting flows change with the requests alone.
LEMMA WaitingKept ==
    ASSUME OwnTypes, SlotInv, PlaceInv, SocketInv, [Next]_vars, UNCHANGED sent
    PROVE  UNCHANGED Waiting
BY SocketMoves DEF Waiting, Created

\* The counters change with what they count.
LEMMA TallyStep ==
    ASSUME Prompt, OwnTypes, AdmitInv, SlotInv, PlaceInv, SocketInv, TallyInv, [Next]_vars
    PROVE  TallyInv'
<1> USE CountedFinite
<1>1. Word \in Nat /\ Concurrent \in Nat /\ Word > Concurrent
  BY ClientAssumption
<1>2. active \in Nat /\ left \in Nat /\ active < Word /\ left < Word
  BY <1>1 DEF OwnTypes
<1>3. CASE QuietNext
  <2>1. UNCHANGED <<active, left>>
    BY <1>3 DEF QuietNext, Loop, Wait, DispatchEnd, IncLoad, Shell, PushStep, HandleErr, Defer, HandleIn,
             NetworkStep, Connect, Respond, Refuse, Reset, ServerCloses, Happens, Pop, ReadEof, ReadErr,
             Stamp, StampAborts, CloseFlow, DecLoad, FreeSlot, vars, tableVars
  <2> QED BY <1>3, <2>1, QuietPlaces, WaitingKept DEF TallyInv
<1>4. CASE AddFlow
  <2>1. active' = Inc(active) /\ left' = left
    BY <1>4 DEF AddFlow, Prompt
  <2>2. cur \in Fds /\ cur # NoFd
    BY <1>4, AddMoves, ClientAssumption
  <2>3. active + 1 <= Concurrent
    BY <1>4, AddMoves DEF TallyInv
  <2>4. active' = active + 1
    BY <1>1, <1>2, <2>1, <2>3 DEF Inc
  <2> QED BY <1>1, <1>2, <1>4, <2>1, <2>2, <2>4, AddMoves, WaitingKept DEF TallyInv
<1>5. CASE PushStep /\ ppc = "store"
  <2>1. UNCHANGED <<active, left>>
    BY <1>5 DEF PushStep, tableVars
  <2>2. pev # NoFd
    BY <1>5, StoreMoves, ClientAssumption
  <2>3. Cardinality(InFlight') = Cardinality(InFlight) + 1
    BY <1>5, StoreMoves, FS_AddElement
  <2> QED BY <1>5, <2>1, <2>2, <2>3, StoreMoves, WaitingKept DEF TallyInv
<1>6. ASSUME NEW f \in Fds, Admit(f)
      PROVE  TallyInv'
  <2>1. UNCHANGED <<active, left>> /\ active < Concurrent /\ <<f, "OUT">> \in batch
    BY <1>6 DEF Admit, Dispatch, tableVars
  <2>2. f \in Waiting
    BY <1>6, <2>1, AdmitMoves DEF Waiting, Created, SocketInv
  <2>3. Waiting' = Waiting \ {f}
    <3>1. \A g \in Fds : sent'[g] = 0 <=> sent[g] = 0 /\ g # f
      BY <1>6, AdmitMoves DEF OwnTypes
    <3> QED BY <3>1, SocketMoves DEF Waiting, Created
  <2>4. Cardinality(Waiting') = Cardinality(Waiting) - 1
    BY <2>2, <2>3, FS_RemoveElement
  <2> QED BY <1>1, <1>2, <1>6, <2>1, <2>4, AdmitMoves DEF TallyInv
<1>7. ASSUME NEW w \in Threads, ReadFull(w) \/ FailConn(w) \/ FailSize(w)
      PROVE  TallyInv'
  <2>1. UNCHANGED <<active, left>>
    BY <1>7 DEF ReadFull, FailConn, FailSize, tableVars
  <2> QED BY <1>7, <2>1, ReadMoves, WaitingKept DEF TallyInv
<1>8. ASSUME NEW w \in Threads, DecStore(w)
      PROVE  TallyInv'
  <2>1. active' = Dec(active) /\ left' = Dec(left)
    BY <1>8 DEF DecStore, Prompt
  <2>2. Cardinality(InFlight') = Cardinality(InFlight) - 1 /\ Cardinality(InFlight) > 0
    <3>1. w \in InFlight /\ InFlight' = InFlight \ {w}
      BY <1>8, DecMoves
    <3>2. Cardinality(InFlight') = Cardinality(InFlight) - 1
      BY <3>1, FS_RemoveElement
    <3>3. Cardinality(InFlight) # 0
      BY <3>1, FS_EmptySet
    <3> QED BY <3>2, <3>3
  <2>3. active > 0 /\ left > 0
    BY <1>2, <2>2 DEF TallyInv
  <2>4. active' = active - 1 /\ left' = left - 1
    BY <1>1, <1>2, <2>1, <2>3 DEF Dec
  <2> QED BY <1>1, <1>2, <1>8, <2>2, <2>4, DecMoves, WaitingKept DEF TallyInv
<1> QED BY <1>3, <1>4, <1>5, <1>6, <1>7, <1>8, NextSplit

-----------------------------------------------------------------------------
(* The responses, the table and the errors.                                *)

\* Only a worker that reads a whole response drains a socket.
LEMMA DrainMoves ==
    ASSUME OwnTypes, [Next]_vars
    PROVE  \/ \A f \in Fds : inbox'[f] = "drained" <=> inbox[f] = "drained"
           \/ \E w \in Threads : ReadFull(w)
<1> USE DEF OwnTypes
<1>1. CASE \/ Loop \/ Wait \/ DispatchEnd \/ IncLoad \/ AddFlow \/ PushStep \/ Shell \/ UNCHANGED vars
           \/ \E f \in Fds : HandleErr(f) \/ Admit(f) \/ Defer(f) \/ HandleIn(f)
  <2>1. UNCHANGED inbox
    BY <1>1 DEF Loop, Wait, DispatchEnd, IncLoad, AddFlow, PushStep, Shell, vars, netVars, HandleErr,
                Admit, Defer, HandleIn, Modify, CloseFd
  <2> QED BY <2>1
<1>2. ASSUME NEW w \in Threads,
             \/ Pop(w) \/ ReadEof(w) \/ ReadErr(w) \/ FailConn(w) \/ FailSize(w) \/ Stamp(w)
             \/ StampAborts(w) \/ CloseFlow(w) \/ DecLoad(w) \/ DecStore(w) \/ FreeSlot(w)
      PROVE  UNCHANGED inbox
  BY <1>2 DEF Pop, ReadEof, ReadErr, FailConn, FailSize, Stamp, StampAborts, CloseFlow, DecLoad,
              DecStore, FreeSlot, CloseFd, netVars
<1>3. ASSUME NEW g \in Fds, NetworkStep(g)
      PROVE  \A f \in Fds : inbox'[f] = "drained" <=> inbox[f] = "drained"
  BY <1>3 DEF NetworkStep, Connect, Respond, Refuse, Reset, ServerCloses
<1> QED BY <1>1, <1>2, <1>3 DEF Next, EpollStep, WorkerStep

\* What a worker that reads a whole response does.
LEMMA FullMoves ==
    ASSUME OwnTypes, SlotInv, PlaceInv, NEW w \in Threads, ReadFull(w)
    PROVE  /\ \A f \in Fds : inbox'[f] = "drained" <=> inbox[f] = "drained" \/ f = event[w]
           /\ task'[w] = "stamp" /\ \A v \in Threads \ {w} : task'[v] = task[v]
           /\ sent[event[w]] = 1
<1>1. wpc[w] = "serving" /\ task[w] = "read"
  BY DEF ReadFull, At
<1>2. event[w] \in Fds /\ wev[w] = event[w] /\ sent[event[w]] = 1
  BY <1>1, ServedAdmitted
<1>3. inbox' = [inbox EXCEPT ![event[w]] = "drained"] /\ task' = [task EXCEPT ![w] = "stamp"]
  BY <1>2 DEF ReadFull, Go
<1> QED BY <1>2, <1>3 DEF OwnTypes

\* A worker stamps and closes a flow whose response it has drained.
LEMMA StampedStep ==
    ASSUME OwnTypes, SlotInv, PlaceInv, ReadInv, [Next]_vars, NEW v \in Threads,
           wpc'[v] = "serving", task'[v] \in {"stamp", "close"}
    PROVE  inbox'[wev'[v]] = "drained"
<1> USE DEF OwnTypes
<1>1. ASSUME wpc[v] = "serving", task[v] \in {"stamp", "close"}, wev'[v] = wev[v]
      PROVE  inbox'[wev'[v]] = "drained"
  <2>1. wev[v] \in Fds /\ inbox[wev[v]] = "drained"
    BY <1>1, ServedAdmitted DEF ReadInv
  <2>2. CASE \E w \in Threads : ReadFull(w)
    BY <1>1, <2>1, <2>2, FullMoves
  <2> QED BY <1>1, <2>1, <2>2, DrainMoves
<1>2. CASE \/ Loop \/ Wait \/ DispatchEnd \/ IncLoad \/ AddFlow \/ Shell \/ UNCHANGED vars
           \/ \E f \in Fds : HandleErr(f) \/ Admit(f) \/ Defer(f) \/ HandleIn(f) \/ NetworkStep(f)
  <2>1. UNCHANGED <<wpc, wev, task>>
    BY <1>2 DEF Loop, Wait, DispatchEnd, IncLoad, AddFlow, P!PushCall, Shell, vars, pollVars, HandleErr,
                Admit, Defer, HandleIn, NetworkStep, Connect, Respond, Refuse, Reset, ServerCloses,
                Happens
  <2> QED BY <1>1, <2>1
<1>3. CASE PushStep
  <2>1. UNCHANGED <<wev, task>> /\ wpc[v] = "serving"
    BY <1>3, SameThreads DEF PushStep, P!Push, P!ScanHit, P!ScanMiss, P!ScanFail, P!Store, P!Signal,
                P!AfterSignal, Threads
  <2> QED BY <1>1, <2>1
<1>4. ASSUME NEW w \in Threads, Pop(w) \/ FreeSlot(w)
      PROVE  inbox'[wev'[v]] = "drained"
  <2>1. CASE w # v
    <3>1. wpc[v] = wpc'[v] /\ wev'[v] = wev[v] /\ task'[v] = task[v]
      BY <1>4, <2>1, SameThreads DEF Pop, P!PopTake, P!PopWait, P!PopWoken, P!Take, FreeSlot,
              P!Release, Go, SlotInv, P!TypeOK, Threads
    <3> QED BY <1>1, <3>1
  <2>2. CASE w = v /\ Pop(w)
    BY <2>2, SameThreads DEF Pop, P!PopTake, P!PopWait, P!PopWoken, P!Take, SlotInv, P!TypeOK, PlaceInv,
                Threads
  <2>3. CASE w = v /\ FreeSlot(w)
    BY <2>3 DEF FreeSlot, P!Release, SlotInv, P!TypeOK, Threads
  <2> QED BY <1>4, <2>1, <2>2, <2>3
<1>5. ASSUME NEW w \in Threads,
             \/ ReadEof(w) \/ ReadErr(w) \/ FailConn(w) \/ FailSize(w)
             \/ Stamp(w) \/ StampAborts(w) \/ CloseFlow(w) \/ DecLoad(w) \/ DecStore(w)
      PROVE  inbox'[wev'[v]] = "drained"
  <2>1. /\ UNCHANGED <<wpc, wev>>
        /\ task'[v] = task[v] \/ task[v] = "stamp"
    BY <1>5 DEF ReadEof, ReadErr, FailConn, FailSize, CountError, Stamp, StampAborts, CloseFlow,
                DecLoad, DecStore, At, Go, pollVars
  <2> QED BY <1>1, <2>1
<1>6. ASSUME NEW w \in Threads, ReadFull(w)
      PROVE  inbox'[wev'[v]] = "drained"
  <2>1. UNCHANGED <<wpc, wev>> /\ wpc[w] = "serving" /\ task[w] = "read"
    BY <1>6 DEF ReadFull, At, pollVars
  <2>2. event[w] \in Fds /\ wev[w] = event[w]
    BY <2>1, ServedAdmitted
  <2>3. CASE v = w
    BY <1>6, <2>1, <2>2, <2>3, FullMoves
  <2>4. CASE v # w
    BY <1>1, <1>6, <2>1, <2>4, FullMoves
  <2> QED BY <2>3, <2>4
<1> QED BY <1>2, <1>3, <1>4, <1>5, <1>6 DEF Next, EpollStep, WorkerStep

\* A flow is drained when its worker has read it, and not before.
LEMMA ReadStep ==
    ASSUME Prompt, OwnTypes, AdmitInv, SlotInv, PlaceInv, ReadInv, [Next]_vars
    PROVE  ReadInv'
<1> USE DEF OwnTypes
<1>1. ASSUME NEW f \in Fds, sent'[f] = 0 \/ f \in Unread'
      PROVE  inbox'[f] # "drained"
  <2>1. CASE \E w \in Threads : ReadFull(w)
    <3>1. PICK w \in Threads : ReadFull(w)
      BY <2>1
    <3>2. f # event[w] /\ (sent[f] = 0 \/ f \in Unread)
      BY <1>1, <3>1, ReadMoves, FullMoves
    <3> QED BY <3>1, <3>2, FullMoves DEF ReadInv
  <2>2. CASE ~ \E w \in Threads : ReadFull(w)
    <3>1. inbox'[f] = "drained" <=> inbox[f] = "drained"
      BY <2>2, DrainMoves
    <3>2. sent[f] = 0 \/ f \in Unread
      <4>1. CASE QuietNext
        BY <1>1, <4>1, QuietPlaces
      <4>2. CASE AddFlow
        BY <1>1, <4>2, AddMoves
      <4>3. CASE PushStep /\ ppc = "store"
        BY <1>1, <4>3, StoreMoves
      <4>4. ASSUME NEW g \in Fds, Admit(g)
            PROVE  sent[f] = 0 \/ f \in Unread
        BY <1>1, <4>4, AdmitMoves
      <4>5. ASSUME NEW w \in Threads, FailConn(w) \/ FailSize(w)
            PROVE  sent[f] = 0 \/ f \in Unread
        BY <1>1, <4>5, ReadMoves
      <4>6. ASSUME NEW w \in Threads, DecStore(w)
            PROVE  sent[f] = 0 \/ f \in Unread
        BY <1>1, <4>6, DecMoves
      <4> QED BY <2>2, <4>1, <4>2, <4>3, <4>4, <4>5, <4>6, NextSplit
    <3> QED BY <3>1, <3>2 DEF ReadInv
  <2> QED BY <2>1, <2>2
<1> QED BY <1>1, StampedStep DEF ReadInv

\* A worker about to stamp stays so until it does.
LEMMA StampKept ==
    ASSUME OwnTypes, [Next]_vars, NEW w \in Threads, task[w] = "stamp", ~Stamp(w), ~StampAborts(w)
    PROVE  task'[w] = "stamp"
<1> USE DEF OwnTypes
<1>1. CASE EpollStep \/ Shell \/ UNCHANGED vars
  BY <1>1 DEF EpollStep, Loop, Wait, DispatchEnd, IncLoad, AddFlow, PushStep, Shell, vars, HandleErr,
              Admit, Defer, HandleIn
<1>2. ASSUME NEW v \in Threads, WorkerStep(v)
      PROVE  task'[w] = "stamp"
  BY <1>2 DEF WorkerStep, Pop, ReadFull, ReadEof, ReadErr, FailConn, FailSize, CountError, Stamp,
              StampAborts, CloseFlow, DecLoad, DecStore, FreeSlot, At, Go
<1>3. ASSUME NEW f \in Fds, NetworkStep(f)
      PROVE  task'[w] = "stamp"
  BY <1>3 DEF NetworkStep, Connect, Respond, Refuse, Reset, ServerCloses, Happens
<1> QED BY <1>1, <1>2, <1>3 DEF Next

\* The failed flows are counted without overflow.
LEMMA FailedFinite ==
    /\ IsFiniteSet(Failed) /\ Cardinality(Failed) \in Nat
    /\ Cardinality(Failed) + 1 < Word /\ Word \in Nat
<1>1. Failed \subseteq Fds
  BY DEF Failed
<1>2. IsFiniteSet(Failed) /\ Cardinality(Failed) <= Cardinality(Fds)
  BY <1>1, ClientAssumption, FS_Subset
<1>3. Cardinality(Fds) \in Nat /\ Cardinality(Failed) \in Nat
  BY <1>2, ClientAssumption, FS_CardinalityType
<1> QED BY <1>2, <1>3, ClientAssumption

\* A failed read counts one more error and removes the flow's entry.
LEMMA ErrorMoves ==
    ASSUME Prompt, OwnTypes, SlotInv, PlaceInv, LedgerInv, NEW w \in Threads,
           FailConn(w) \/ FailSize(w)
    PROVE  /\ errs'["conn"] + errs'["size"] = errs["conn"] + errs["size"] + 1
           /\ entry' = [entry EXCEPT ![event[w]] = "empty"]
           /\ UNCHANGED <<inbox, left>>
           /\ \A v \in Threads : task[v] = "stamp" => task'[v] = "stamp"
<1> USE FailedFinite DEF OwnTypes
<1> DEFINE k == IF FailConn(w) THEN "conn" ELSE "size"
<1>1. wpc[w] = "serving" /\ task[w] \in {"connErr", "sizeErr"}
  BY DEF FailConn, FailSize, At
<1>2. wev[w] = event[w]
  BY <1>1 DEF PlaceInv
<1>3. CountError(w, k) /\ UNCHANGED <<inbox, left>>
  BY DEF FailConn, FailSize, CloseFd, netVars
<1>4. errs["conn"] \in Nat /\ errs["size"] \in Nat /\ errs["conn"] + errs["size"] + 1 < Word
  BY DEF LedgerInv
<1>5. Inc(errs["conn"]) = errs["conn"] + 1 /\ Inc(errs["size"]) = errs["size"] + 1
  BY <1>4 DEF Inc
<1>6. k \in {"conn", "size"}
  OBVIOUS
<1>7. errs' = [errs EXCEPT ![k] = Inc(errs[k])]
  BY <1>3 DEF CountError, Prompt
<1>8. errs'["conn"] + errs'["size"] = errs["conn"] + errs["size"] + 1
  <2> HIDE DEF k
  <2>1. CASE k = "conn"
    BY <1>4, <1>5, <1>7, <2>1
  <2>2. CASE k = "size"
    BY <1>4, <1>5, <1>7, <2>2
  <2> QED BY <1>6, <2>1, <2>2
<1>9. entry' = [entry EXCEPT ![event[w]] = "empty"] /\ task' = [task EXCEPT ![w] = "load"]
  BY <1>2, <1>3 DEF CountError, Go
<1>10. \A v \in Threads : task[v] = "stamp" => task'[v] = "stamp"
  BY <1>1, <1>9
<1> QED BY <1>3, <1>8, <1>9, <1>10

\* The steps that neither admit, hand on nor end a flow change the table only
\* where a connection was reset or a drained flow is stamped.
LEMMA QuietTable ==
    ASSUME OwnTypes, SlotInv, PlaceInv, ReadInv, QuietNext
    PROVE  /\ UNCHANGED errs
           /\ \A f \in Fds : inbox'[f] = "drained" <=> inbox[f] = "drained"
           /\ \A f \in Fds : \/ entry'[f] = entry[f]
                             \/ entry'[f] = "empty"
                             \/ entry'[f] = "done" /\ entry[f] # "empty" /\ inbox[f] = "drained"
           /\ \A w \in InFlight : task[w] = "stamp" =>
                 task'[w] = "stamp" \/ entry'[event[w]] # "started"
<1> USE DEF OwnTypes
<1>1. \A f \in Fds : inbox'[f] = "drained" <=> inbox[f] = "drained"
  <2>1. QuietNext => [Next]_vars
    BY DEF QuietNext, Next, EpollStep, WorkerStep
  <2>2. ASSUME NEW w \in Threads, ReadFull(w)
        PROVE  FALSE
    <3>1. w \in InFlight /\ task[w] = "read" /\ event[w] \in Unread /\ Unread' = Unread \ {event[w]}
      BY <2>2, ReadMoves DEF ReadFull, At
    <3> QED BY <3>1, QuietPlaces
  <2> QED BY <2>1, <2>2, DrainMoves
<1>2. CASE \/ Loop \/ Wait \/ DispatchEnd \/ IncLoad \/ Shell \/ UNCHANGED vars
           \/ PushStep /\ ppc # "store"
           \/ \E f \in Fds : Defer(f) \/ HandleIn(f) \/ NetworkStep(f)
  <2>1. UNCHANGED <<errs, entry, task>>
    BY <1>2 DEF Loop, Wait, DispatchEnd, IncLoad, Shell, PushStep, vars, tableVars, Defer, HandleIn,
                NetworkStep, Connect, Respond, Refuse, Reset, ServerCloses, Happens
  <2> QED BY <1>1, <2>1
<1>3. ASSUME NEW f \in Fds, HandleErr(f)
      PROVE  UNCHANGED <<errs, task>> /\ entry' = [entry EXCEPT ![f] = "empty"]
  BY <1>3 DEF HandleErr
<1>4. ASSUME NEW w \in Threads, Stamp(w)
      PROVE  /\ UNCHANGED errs /\ w \in InFlight /\ event[w] \in Fds
             /\ inbox[event[w]] = "drained" /\ entry[event[w]] # "empty"
             /\ entry' = [entry EXCEPT ![event[w]] = "done"]
             /\ \A v \in Threads : v # w => task'[v] = task[v]
  <2>1. wpc[w] = "serving" /\ task[w] = "stamp"
    BY <1>4 DEF Stamp, At
  <2>2. w \in InFlight /\ event[w] \in Fds /\ wev[w] = event[w]
    BY <2>1, ServedAdmitted
  <2> QED BY <1>4, <2>1, <2>2 DEF Stamp, Go, ReadInv
<1>5. ASSUME NEW w \in Threads, StampAborts(w)
      PROVE  /\ UNCHANGED <<errs, entry>> /\ entry[event[w]] = "empty"
             /\ \A v \in Threads : v # w => task'[v] = task[v]
  <2>1. wpc[w] = "serving"
    BY <1>5 DEF StampAborts, At
  <2>2. wev[w] = event[w]
    BY <2>1 DEF PlaceInv
  <2> QED BY <1>5, <2>2 DEF StampAborts, Go, tableVars
<1>6. ASSUME NEW w \in Threads,
             Pop(w) \/ ReadEof(w) \/ ReadErr(w) \/ CloseFlow(w) \/ DecLoad(w) \/ FreeSlot(w)
      PROVE  /\ UNCHANGED <<errs, entry>>
             /\ \A v \in Threads : task[v] = "stamp" => task'[v] = "stamp"
  BY <1>6 DEF Pop, ReadEof, ReadErr, CloseFlow, DecLoad, FreeSlot, At, Go, tableVars
<1>7. \A v \in InFlight : v \in Threads
  BY DEF InFlight
<1>8. CASE \E f \in Fds : HandleErr(f)
  BY <1>1, <1>3, <1>7, <1>8
<1>9. CASE \E w \in Threads : Stamp(w)
  BY <1>1, <1>4, <1>7, <1>9
<1>10. CASE \E w \in Threads : StampAborts(w)
  BY <1>1, <1>5, <1>7, <1>10
<1>11. CASE \E w \in Threads : \/ Pop(w) \/ ReadEof(w) \/ ReadErr(w) \/ CloseFlow(w) \/ DecLoad(w)
                               \/ FreeSlot(w)
  BY <1>1, <1>6, <1>7, <1>11
<1> QED BY <1>2, <1>8, <1>9, <1>10, <1>11 DEF QuietNext

\* The report is printed when nothing is left, and then nothing happens.
LEMMA ReportMoves ==
    ASSUME [Next]_vars
    PROVE  /\ epc = "reported" => UNCHANGED vars
           /\ epc' = "reported" => epc = "reported" \/ (Loop /\ left = 0)
<1>1. epc = "reported" => UNCHANGED vars
  BY DEF Next, EpollStep, WorkerStep, NetworkStep, Running, Loop, Wait, DispatchEnd, IncLoad, AddFlow,
         PushStep, Shell, HandleErr, Admit, Defer, HandleIn, Dispatch, Pop, ReadFull, ReadEof, ReadErr,
         FailConn, FailSize, Stamp, StampAborts, CloseFlow, DecLoad, DecStore, FreeSlot, At, Connect,
         Respond, Refuse, Reset, ServerCloses
<1>2. CASE Loop
  BY <1>1, <1>2 DEF Loop
<1>3. CASE Wait \/ DispatchEnd \/ IncLoad \/ AddFlow
  BY <1>1, <1>3 DEF Wait, DispatchEnd, IncLoad, AddFlow
<1>4. CASE \/ PushStep \/ Shell \/ UNCHANGED vars
           \/ \E f \in Fds : HandleErr(f) \/ Admit(f) \/ Defer(f) \/ HandleIn(f)
  BY <1>1, <1>4 DEF PushStep, Shell, vars, epollVars, HandleErr, Admit, Defer, HandleIn
<1>5. ASSUME NEW w \in Threads, WorkerStep(w)
      PROVE  UNCHANGED epc
  BY <1>5 DEF WorkerStep, Pop, ReadFull, ReadEof, ReadErr, FailConn, FailSize, Stamp, StampAborts,
              CloseFlow, DecLoad, DecStore, FreeSlot, epollVars
<1>6. ASSUME NEW f \in Fds, NetworkStep(f)
      PROVE  UNCHANGED epc
  BY <1>6 DEF NetworkStep, Connect, Respond, Refuse, Reset, ServerCloses, Happens, epollVars
<1> QED BY <1>1, <1>2, <1>3, <1>4, <1>5, <1>6 DEF Next, EpollStep

\* Every flow that is counted out is in the table as completed or counted as
\* an error.
LEMMA LedgerStep ==
    ASSUME Prompt, OwnTypes, AdmitInv, SlotInv, PlaceInv, ReadInv, LedgerInv, [Next]_vars
    PROVE  LedgerInv'
<1> USE DEF OwnTypes
<1> DEFINE Open(f) == f \in Unread \/ \E w \in InFlight : event[w] = f /\ task[w] = "stamp"
<1>1. epc' = "reported" => left' = 0
  <2>1. (epc = "reported" /\ UNCHANGED vars) \/ (Loop /\ left = 0) \/ epc' # "reported"
    BY ReportMoves
  <2> QED BY <2>1 DEF LedgerInv, Loop, vars, tableVars
<1>2. ASSUME UNCHANGED <<Failed, errs, inbox, entry>>,
             \A f \in Fds : Open(f) => Open(f)'
      PROVE  LedgerInv'
  BY <1>1, <1>2 DEF LedgerInv
<1>3. CASE QuietNext
  <2>1. /\ UNCHANGED <<InFlight, Unread, event, sent>>
        /\ UNCHANGED errs
        /\ \A f \in Fds : inbox'[f] = "drained" <=> inbox[f] = "drained"
        /\ \A f \in Fds : \/ entry'[f] = entry[f]
                          \/ entry'[f] = "empty"
                          \/ entry'[f] = "done" /\ entry[f] # "empty" /\ inbox[f] = "drained"
        /\ \A w \in InFlight : task[w] = "stamp" =>
              task'[w] = "stamp" \/ entry'[event[w]] # "started"
    BY <1>3, QuietPlaces, QuietTable
  <2>2. UNCHANGED Failed
    BY <2>1 DEF Failed
  <2>3. \A f \in Failed : entry'[f] = "empty"
    BY <2>1 DEF LedgerInv, Failed
  <2>4. \A f \in Fds : entry'[f] = "started" => Open(f)'
    BY <2>1 DEF LedgerInv
  <2>5. \A f \in Fds : entry'[f] = "done" => inbox'[f] = "drained"
    BY <2>1 DEF LedgerInv
  <2> QED BY <1>1, <2>1, <2>2, <2>3, <2>4, <2>5 DEF LedgerInv
<1>4. CASE AddFlow
  <2>1. /\ UNCHANGED <<InFlight, Unread, event, task, sent, errs, inbox>>
        /\ entry' = [entry EXCEPT ![cur] = "started"] /\ cur \in Fds /\ pev' = cur
    BY <1>4, AddMoves DEF AddFlow, netVars
  <2>2. cur \in Unread
    BY <2>1, ClientAssumption DEF Unread
  <2>3. UNCHANGED Failed /\ cur \notin Failed /\ inbox[cur] # "drained"
    BY <2>1, <2>2 DEF Failed, ReadInv
  <2> QED BY <1>1, <2>1, <2>2, <2>3 DEF LedgerInv, Failed
<1>5. CASE PushStep /\ ppc = "store"
  <2>1. UNCHANGED <<errs, inbox, entry>>
    BY <1>5 DEF PushStep, tableVars, netVars
  <2>2. UNCHANGED Failed
    BY <1>5, <2>1, StoreMoves DEF Failed
  <2>3. \A w \in InFlight : w \in InFlight' /\ task'[w] = task[w] /\ event'[w] = event[w]
    BY <1>5, StoreMoves DEF InFlight
  <2> QED BY <1>2, <1>5, <2>1, <2>2, <2>3, StoreMoves
<1>6. ASSUME NEW f \in Fds, Admit(f)
      PROVE  LedgerInv'
  <2>1. UNCHANGED <<errs, inbox, entry>>
    BY <1>6 DEF Admit, Modify, tableVars
  <2>2. \A g \in Fds : sent'[g] # 0 <=> sent[g] # 0 \/ g = f
    BY <1>6, AdmitMoves
  <2>3. UNCHANGED Failed
    BY <1>6, <2>1, <2>2, AdmitMoves DEF Failed
  <2> QED BY <1>2, <1>6, <2>1, <2>3, AdmitMoves
<1>7. ASSUME NEW w \in Threads, ReadFull(w)
      PROVE  LedgerInv'
  <2>1. UNCHANGED <<errs, entry>>
    BY <1>7 DEF ReadFull, tableVars
  <2>2. /\ UNCHANGED <<InFlight, event, sent>> /\ w \in InFlight
        /\ event[w] \in Unread /\ Unread' = Unread \ {event[w]}
        /\ \A f \in Fds : inbox'[f] = "drained" <=> inbox[f] = "drained" \/ f = event[w]
        /\ task'[w] = "stamp" /\ \A v \in Threads \ {w} : task'[v] = task[v]
    BY <1>7, ReadMoves, FullMoves
  <2>3. UNCHANGED Failed
    BY <2>2 DEF Failed
  <2>4. \A v \in InFlight : task[v] = "stamp" => task'[v] = "stamp"
    BY <2>2 DEF InFlight
  <2>5. ASSUME NEW f \in Fds, entry'[f] = "started"
        PROVE  Open(f)'
    <3>1. Open(f)
      BY <2>1, <2>5 DEF LedgerInv
    <3> QED BY <2>2, <2>4, <3>1
  <2> QED BY <1>1, <2>1, <2>2, <2>3, <2>5 DEF LedgerInv
<1>8. ASSUME NEW w \in Threads, FailConn(w) \/ FailSize(w)
      PROVE  LedgerInv'
  <2>1. /\ errs'["conn"] + errs'["size"] = errs["conn"] + errs["size"] + 1
        /\ entry' = [entry EXCEPT ![event[w]] = "empty"] /\ UNCHANGED inbox
        /\ \A v \in InFlight : task[v] = "stamp" => task'[v] = "stamp"
    BY <1>8, ErrorMoves DEF InFlight
  <2>2. /\ UNCHANGED <<InFlight, event, sent>> /\ event[w] \in Fds
        /\ event[w] \in Unread /\ Unread' = Unread \ {event[w]}
    BY <1>8, ReadMoves
  <2>3. sent[event[w]] # 0 /\ inbox[event[w]] # "drained"
    <3>1. wpc[w] = "serving" /\ task[w] # "release"
      BY <1>8 DEF FailConn, FailSize, At
    <3> QED BY <2>2, <3>1, ServedAdmitted DEF ReadInv
  <2>4. Failed' = Failed \cup {event[w]} /\ event[w] \notin Failed
    BY <2>1, <2>2, <2>3 DEF Failed
  <2>5. Cardinality(Failed') = Cardinality(Failed) + 1
    BY <2>4, FailedFinite, FS_AddElement
  <2>6. \A f \in Failed' : entry'[f] = "empty"
    BY <2>1, <2>2, <2>4 DEF LedgerInv, Failed
  <2>7. ASSUME NEW f \in Fds, entry'[f] = "started"
        PROVE  Open(f)'
    <3>1. f # event[w] /\ Open(f)
      BY <2>1, <2>2, <2>7 DEF LedgerInv
    <3> QED BY <2>1, <2>2, <3>1
  <2>8. \A f \in Fds : entry'[f] = "done" => inbox'[f] = "drained"
    BY <2>1, <2>2 DEF LedgerInv
  <2> QED BY <1>1, <2>1, <2>5, <2>6, <2>7, <2>8 DEF LedgerInv
<1>9. ASSUME NEW w \in Threads, DecStore(w)
      PROVE  LedgerInv'
  <2>1. UNCHANGED <<errs, inbox, entry>> /\ task[w] = "store" /\ task' = [task EXCEPT ![w] = "release"]
    BY <1>9 DEF DecStore, At, Go, netVars
  <2>2. UNCHANGED <<Unread, event, sent>> /\ InFlight' = InFlight \ {w}
    BY <1>9, DecMoves
  <2>3. UNCHANGED Failed
    BY <2>1, <2>2 DEF Failed
  <2>4. \A v \in InFlight : task[v] = "stamp" => v \in InFlight' /\ task'[v] = "stamp"
    BY <2>1, <2>2 DEF InFlight
  <2> QED BY <1>2, <2>1, <2>2, <2>3, <2>4
<1> QED BY <1>3, <1>4, <1>5, <1>6, <1>7, <1>8, <1>9, NextSplit

-----------------------------------------------------------------------------
(* What holds in every state when signals are prompt and no updates overlap. *)

LEMMA FlowStep ==
    ASSUME Prompt, FlowInv, [Next]_vars
    PROVE  FlowInv'
<1>1. OwnTypes /\ AdmitInv /\ SlotInv
  BY SlotFacts, TypesSplit DEF FlowInv, OnceInv
<1>2. OnceInv' /\ PoolInv'
  BY OnceStep, PoolStep DEF FlowInv
<1>3. PlaceInv' /\ SocketInv' /\ TallyInv'
  BY <1>1, PlaceStep, SocketStep, TallyStep DEF FlowInv
<1>4. ReadInv' /\ LedgerInv'
  BY <1>1, ReadStep, LedgerStep DEF FlowInv
<1> QED BY <1>2, <1>3, <1>4 DEF FlowInv

LEMMA NothingAdmitted ==
    ASSUME Init
    PROVE  InFlight = {} /\ Admitted = {} /\ Unread = {}
<1>1. \A w \in Threads : flag[w] = "IDLE"
  BY ClientAssumption DEF Init, P!Init, P!Slots, P!Threads, Threads
<1>2. InFlight = {} /\ pev = NoFd /\ cur = NoFd
  BY <1>1 DEF Init, P!Init, InFlight
<1> QED BY <1>2 DEF Admitted, Reading, Unread

LEMMA FlowInit ==
    ASSUME Init
    PROVE  FlowInv
<1> USE DEF Init
<1>1. OnceInv /\ PP!Init
  BY OnceInit
<1>2. PoolInv
  BY <1>1, PoolAssumptions, PP!PoolStarts DEF PoolInv
<1>3. InFlight = {} /\ pev = NoFd /\ cur = NoFd /\ ppc = "out"
  BY NothingAdmitted DEF P!Init
<1>4. Admitted = {} /\ Unread = {}
  BY NothingAdmitted
<1>5. \A w \in Threads : wpc[w] # "serving" /\ task[w] = "read"
  BY DEF P!Init, P!Threads, Threads
<1>6. PlaceInv
  BY <1>3, <1>4, <1>5 DEF PlaceInv
<1>7. PICK created \in SUBSET Fds :
        /\ sock = [f \in Fds |-> IF f \in created THEN "connecting" ELSE "absent"]
        /\ interest = [f \in Fds |-> IF f \in created THEN "OUT" ELSE "none"]
        /\ left = Cardinality(created)
  OBVIOUS
<1>8. SocketInv
  BY <1>5, <1>7 DEF SocketInv
<1>9. TallyInv
  <2>1. Waiting = created
    BY <1>7 DEF Waiting, Created
  <2>2. Cardinality(InFlight) = 0 /\ Cardinality(created) \in Nat
    BY <1>3, <2>1, FS_EmptySet, CountedFinite
  <2> QED BY <1>3, <1>7, <2>1, <2>2, ClientAssumption DEF TallyInv
<1>10. ReadInv
  BY <1>4, <1>5 DEF ReadInv
<1>11. LedgerInv
  <2>1. Failed = {}
    BY DEF Failed
  <2> QED BY <2>1, FS_EmptySet DEF LedgerInv
<1> QED BY <1>1, <1>2, <1>6, <1>8, <1>9, <1>10, <1>11 DEF FlowInv

LEMMA FlowKept ==
    ASSUME Prompt
    PROVE  Spec => []FlowInv
<1>1. Init => FlowInv
  BY FlowInit
<1>2. FlowInv /\ [Next]_vars => FlowInv'
  BY FlowStep
<1> QED BY <1>1, <1>2, PTL DEF Spec

\* No more flows are admitted than the counters say.
LEMMA AdmittedCount ==
    ASSUME PlaceInv, TallyInv
    PROVE  /\ IsFiniteSet(Admitted) /\ Cardinality(Admitted) \in Nat /\ active \in Nat
           /\ Cardinality(Admitted) <= active + (IF cur # NoFd THEN 1 ELSE 0)
           /\ active + (IF cur # NoFd THEN 1 ELSE 0) <= Concurrent
<1> DEFINE B == [w \in InFlight |-> event[w]]
           T == {event[w] : w \in InFlight}
           Thread(e) == IF e # NoFd THEN 1 ELSE 0
<1>1. IsFiniteSet(T) /\ Cardinality(T) <= Cardinality(InFlight) /\ Cardinality(T) \in Nat
  <2>1. B \in Surjection(InFlight, T)
    BY DEF Surjection
  <2> QED BY <2>1, CountedFinite, FS_Surjection, FS_CardinalityType
<1>2. ASSUME NEW S, IsFiniteSet(S), NEW e
      PROVE  /\ IsFiniteSet(S \cup {e}) /\ Cardinality(S \cup {e}) \in Nat
             /\ Cardinality(S \cup {e}) <= Cardinality(S) + 1
  <2>1. /\ IsFiniteSet(S \cup {e})
        /\ Cardinality(S \cup {e}) = IF e \in S THEN Cardinality(S) ELSE Cardinality(S) + 1
    BY <1>2, FS_AddElement
  <2>2. Cardinality(S) \in Nat
    BY <1>2, FS_CardinalityType
  <2> QED BY <2>1, <2>2
<1> DEFINE T1 == IF pev # NoFd THEN T \cup {pev} ELSE T
           T2 == IF cur # NoFd THEN T1 \cup {cur} ELSE T1
<1>3. IsFiniteSet(T1) /\ Cardinality(T1) \in Nat /\ Cardinality(T1) <= Cardinality(T) + Thread(pev)
  BY <1>1, <1>2
<1>4. IsFiniteSet(T2) /\ Cardinality(T2) \in Nat /\ Cardinality(T2) <= Cardinality(T1) + Thread(cur)
  <2> HIDE DEF T1
  <2>1. /\ IsFiniteSet(T1 \cup {cur}) /\ Cardinality(T1 \cup {cur}) \in Nat
        /\ Cardinality(T1 \cup {cur}) <= Cardinality(T1) + 1
    BY <1>2, <1>3
  <2>2. CASE cur # NoFd
    BY <2>1, <2>2
  <2>3. CASE cur = NoFd
    BY <1>3, <2>3
  <2> QED BY <2>2, <2>3
<1>5. Admitted \subseteq T2
  BY DEF Admitted
<1>6. /\ IsFiniteSet(Admitted) /\ Cardinality(Admitted) \in Nat
      /\ Cardinality(Admitted) <= Cardinality(T2)
  <2> HIDE DEF T2
  <2>1. IsFiniteSet(Admitted) /\ Cardinality(Admitted) <= Cardinality(T2)
    BY <1>4, <1>5, FS_Subset
  <2> QED BY <2>1, FS_CardinalityType
<1>7. active = Cardinality(InFlight) + Thread(pev) /\ active + Thread(cur) <= Concurrent
  BY DEF TallyInv, PlaceInv
<1>8. Thread(pev) \in 0 .. 1 /\ Thread(cur) \in 0 .. 1 /\ Cardinality(InFlight) \in Nat
  BY CountedFinite
<1> HIDE DEF T, T1, T2
<1>9. Cardinality(T2) <= active + Thread(cur)
  <2> HIDE DEF Thread
  <2> QED BY <1>1, <1>3, <1>4, <1>7, <1>8
<1>10. Cardinality(Admitted) <= active + Thread(cur) /\ active \in Nat
  <2> HIDE DEF Thread
  <2> QED BY <1>4, <1>6, <1>7, <1>8, <1>9
<1> QED BY <1>6, <1>7, <1>10

\* What CountersExact asks follows.
LEMMA CountersFollow ==
    ASSUME FlowInv
    PROVE  CountersExact
<1>1. OwnTypes /\ PlaceInv /\ TallyInv /\ SocketInv
  BY TypesSplit DEF FlowInv, OnceInv
<1>2. Transmitting \subseteq Admitted
  BY <1>1 DEF Transmitting, SocketInv, Dead, OwnTypes
<1>3. Cardinality(Transmitting) <= Cardinality(Admitted) /\ Cardinality(Transmitting) \in Nat
  BY <1>1, <1>2, AdmittedCount, FS_Subset, FS_CardinalityType
<1>4. Cardinality(Transmitting) <= Concurrent
  BY <1>1, <1>3, AdmittedCount, ClientAssumption
<1> QED BY <1>1, <1>4 DEF CountersExact, TallyInv, Waiting

\* When nothing is left, no flow waits and none is admitted.
LEMMA NothingLeft ==
    ASSUME OwnTypes, PlaceInv, TallyInv, left = 0, epc \notin {"load", "add"}
    PROVE  Waiting = {} /\ InFlight = {} /\ pev = NoFd /\ cur = NoFd /\ Admitted = {} /\ Unread = {}
<1>1. Cardinality(Waiting) = 0 /\ Cardinality(InFlight) = 0 /\ pev = NoFd
  BY CountedFinite DEF TallyInv
<1>2. Waiting = {} /\ InFlight = {}
  BY <1>1, CountedFinite, FS_EmptySet
<1>3. cur = NoFd
  BY DEF PlaceInv
<1>4. Admitted = {} /\ Unread = {}
  BY <1>1, <1>2, <1>3 DEF Admitted, Unread, Reading
<1> QED BY <1>1, <1>2, <1>3, <1>4

\* So does what ReportAccounts asks: when nothing is left, a flow that sent its
\* request is either drained or failed.
LEMMA ReportFollows ==
    ASSUME FlowInv
    PROVE  ReportAccounts
<1> SUFFICES ASSUME epc = "reported" PROVE ReportAccounts!2
  BY DEF ReportAccounts
<1>1. OwnTypes /\ AdmitInv /\ PlaceInv /\ SocketInv /\ TallyInv /\ ReadInv /\ LedgerInv
  BY TypesSplit DEF FlowInv, OnceInv
<1>2. Waiting = {} /\ Unread = {} /\ InFlight = {}
  BY <1>1, NothingLeft DEF LedgerInv
<1>3. \A f \in Fds : entry[f] # "started"
  BY <1>1, <1>2 DEF LedgerInv
<1> DEFINE Done == {f \in Fds : entry[f] = "done"}
<1>4. Created \ Erased = Done \cup Failed
  <2>1. ASSUME NEW f \in Fds, f \in Created, f \notin Erased
        PROVE  f \in Done \cup Failed
    <3>1. sent[f] # 0
      BY <1>2, <2>1 DEF Waiting
    <3>2. CASE inbox[f] = "drained"
      BY <1>1, <1>3, <2>1, <3>2 DEF Erased, OwnTypes
    <3>3. CASE inbox[f] # "drained"
      BY <1>2, <3>1, <3>3 DEF Failed
    <3> QED BY <3>2, <3>3
  <2>2. ASSUME NEW f \in Done
        PROVE  f \in Created \ Erased
    <3>1. inbox[f] = "drained"
      BY <1>1, <2>2 DEF LedgerInv
    <3>2. sent[f] # 0
      BY <1>1, <2>2, <3>1 DEF ReadInv
    <3> QED BY <1>1, <2>2, <3>2 DEF Created, Erased, SocketInv
  <2>3. ASSUME NEW f \in Failed
        PROVE  f \in Created \ Erased
    BY <1>1, <2>3 DEF Failed, Created, Erased, SocketInv
  <2> QED BY <2>1, <2>2, <2>3 DEF Created
<1>5. Done \cap Failed = {}
  BY <1>1 DEF LedgerInv
<1>6. IsFiniteSet(Done) /\ IsFiniteSet(Failed) /\ Cardinality(Done) \in Nat /\ Cardinality(Failed) \in Nat
  <2>1. Done \subseteq Fds
    OBVIOUS
  <2> QED BY <2>1, FailedFinite, ClientAssumption, FS_Subset, FS_CardinalityType
<1>7. Cardinality(Done \cup Failed) = Cardinality(Done) + Cardinality(Failed)
  <2> HIDE DEF Done
  <2>1. Cardinality(Done \cap Failed) = 0
    BY <1>5, FS_EmptySet
  <2>2. Cardinality(Done \cup Failed)
            = Cardinality(Done) + Cardinality(Failed) - Cardinality(Done \cap Failed)
    BY <1>6, FS_Union
  <2> QED BY <1>6, <2>1, <2>2
<1>8. errs["conn"] + errs["size"] = Cardinality(Failed) /\ errs["conn"] \in Nat /\ errs["size"] \in Nat
  BY <1>1 DEF LedgerInv, OwnTypes
<1>9. Cardinality(Done) + errs["conn"] + errs["size"] = Cardinality(Created \ Erased)
  <2> HIDE DEF Done
  <2> QED BY <1>4, <1>6, <1>7, <1>8
<1> QED BY <1>3, <1>9

-----------------------------------------------------------------------------
(* The client implements FlowGenerator.                                    *)

\* A flow's stage follows from whether it is admitted, waits or neither.
LEMMA StageOf ==
    ASSUME OwnTypes, SlotInv, PlaceInv, SocketInv, NEW f \in Fds
    PROVE  /\ Stage(f) \in {"absent", "waiting", "active", "ended"}
           /\ Stage(f) = "active" <=> f \in Admitted
           /\ Stage(f) = "waiting" <=> f \in Waiting
           /\ Stage(f) = "absent" <=> sock[f] = "absent"
<1>1. f \in Admitted => sent[f] = 1 /\ sock[f] # "absent"
  BY DEF PlaceInv, SocketInv
<1>2. f \in Created <=> sock[f] # "absent"
  BY DEF Created
<1>3. f \in Waiting <=> sock[f] # "absent" /\ sent[f] = 0
  BY DEF Waiting, Created
<1> QED BY <1>1, <1>2, <1>3 DEF Stage

LEMMA AdmittedFds ==
    ASSUME OwnTypes, SlotInv
    PROVE  Admitted \subseteq Fds
BY DEF Admitted, InFlight, SlotInv, P!TypeOK, OwnTypes

\* The flows that FlowGenerator sees at a stage.
LEMMA InStages ==
    ASSUME OwnTypes, SlotInv, PlaceInv, SocketInv
    PROVE  G!In("active") = Admitted /\ G!In("waiting") = Waiting
<1>1. Admitted \subseteq Fds /\ Waiting \subseteq Fds
  BY AdmittedFds DEF Waiting, Created
<1> QED BY <1>1, StageOf DEF G!In

\* The stages change where a flow is admitted or counted out.
LEMMA StageKept ==
    ASSUME NEW f \in Fds,
           sock'[f] = "absent" <=> sock[f] = "absent",
           f \in Admitted' <=> f \in Admitted, sent'[f] = sent[f]
    PROVE  Stage(f)' = Stage(f)
BY DEF Stage, Created

\* Every step of the client is a step of FlowGenerator or changes no stage.
LEMMA GeneratorStep ==
    ASSUME Prompt, FlowInv, FlowInv', [Next]_vars
    PROVE  [G!Next]_(G!genVars)
<1>1. OwnTypes /\ AdmitInv /\ SlotInv /\ PlaceInv /\ SocketInv /\ TallyInv
  BY SlotFacts, TypesSplit DEF FlowInv, OnceInv
<1>2. \A f \in Fds : sock'[f] = "absent" <=> sock[f] = "absent"
  BY <1>1, SocketMoves
<1>3. CASE Loop /\ left = 0
  <2>1. Waiting = {} /\ Admitted = {}
    BY <1>1, <1>3, NothingLeft DEF Loop
  <2>2. G!In("active") = {} /\ G!In("waiting") = {}
    BY <1>1, <2>1, InStages
  <2>3. \A f \in Fds : Stage(f)' = Stage(f)
    <3>1. QuietNext
      BY <1>3 DEF QuietNext
    <3> QED BY <1>1, <1>2, <3>1, QuietPlaces, StageKept
  <2>4. epc = "loop" /\ epc' = "reported"
    BY <1>3 DEF Loop
  <2> QED BY <2>2, <2>3, <2>4 DEF G!Next, G!Report
<1>4. ASSUME ~(Loop /\ left = 0)
      PROVE  epc' = "reported" <=> epc = "reported"
  BY <1>4, ReportMoves DEF vars, epollVars
<1>5. ASSUME UNCHANGED <<Admitted, sent>>, ~(Loop /\ left = 0)
      PROVE  UNCHANGED G!genVars
  BY <1>2, <1>4, <1>5, StageKept DEF G!genVars
<1>6. ASSUME ~(Loop /\ left = 0),
             QuietNext \/ AddFlow \/ (PushStep /\ ppc = "store")
             \/ \E w \in Threads : ReadFull(w) \/ FailConn(w) \/ FailSize(w)
      PROVE  UNCHANGED G!genVars
  BY <1>1, <1>5, <1>6, QuietPlaces, AddMoves, StoreMoves, ReadMoves
<1>7. ASSUME NEW f \in Fds, Admit(f)
      PROVE  G!Start(f)
  <2>1. Admitted' = Admitted \cup {f} /\ sent' = [sent EXCEPT ![f] = 1] /\ sent[f] = 0
        /\ cur = NoFd /\ epc = "dispatch" /\ epc' = "load"
    BY <1>1, <1>7, AdmitMoves
  <2>2. sock[f] # "absent" /\ active < Concurrent
    BY <1>1, <1>7 DEF Admit, Dispatch, SocketInv
  <2>3. Stage(f) = "waiting"
    BY <1>1, <2>1, <2>2, StageOf DEF Waiting, Created
  <2>4. Cardinality(G!In("active")) < Concurrent
    <3>1. Cardinality(Admitted) <= active /\ Cardinality(Admitted) \in Nat /\ active \in Nat
      BY <1>1, <2>1, AdmittedCount
    <3> QED BY <1>1, <2>2, <3>1, InStages, ClientAssumption
  <2>5. Stage(f)' = "active"
    BY <1>2, <2>1, <2>2 DEF Stage
  <2>6. \A g \in Fds \ {f} : Stage(g)' = Stage(g)
    BY <1>1, <1>2, <2>1, StageKept DEF OwnTypes
  <2>7. [g \in Fds |-> Stage(g)]' = [[g \in Fds |-> Stage(g)] EXCEPT ![f] = "active"]
    BY <2>5, <2>6
  <2>8. [g \in Fds |-> Stage(g)][f] = "waiting"
    BY <2>3
  <2>9. epc # "reported" /\ (epc = "reported")' = (epc = "reported")
    BY <2>1
  <2>10. G!Cardinality(G!In("active")) = Cardinality(G!In("active"))
    BY DEF Cardinality, G!Cardinality
  <2> QED BY <2>4, <2>7, <2>8, <2>9, <2>10 DEF G!Start
<1>8. ASSUME NEW w \in Threads, DecStore(w)
      PROVE  event[w] \in Fds /\ G!Finish(event[w])
  <2>1. /\ UNCHANGED <<sent, epc>> /\ event[w] \in Fds
        /\ event[w] \in Admitted /\ Admitted' = Admitted \ {event[w]}
    BY <1>1, <1>8, DecMoves
  <2>2. epc # "reported"
    BY <1>8 DEF DecStore, At, Running
  <2>3. Stage(event[w]) = "active"
    BY <1>1, <2>1, StageOf
  <2>4. sent[event[w]] = 1 /\ sock[event[w]] # "absent"
    BY <1>1, <2>1 DEF PlaceInv, SocketInv
  <2>5. Stage(event[w])' = "ended"
    <3>1. event[w] \notin Admitted' /\ sent'[event[w]] = 1 /\ sock'[event[w]] # "absent"
      BY <1>2, <2>1, <2>4
    <3>2. UNCHANGED event
      BY <1>1, <1>8, DecMoves
    <3> QED BY <2>1, <3>1, <3>2 DEF Stage
  <2>6. \A g \in Fds \ {event[w]} : Stage(g)' = Stage(g)
    BY <1>2, <2>1, StageKept
  <2>7. [g \in Fds |-> Stage(g)]' = [[g \in Fds |-> Stage(g)] EXCEPT ![event[w]] = "ended"]
    BY <1>1, <1>8, <2>1, <2>5, <2>6, DecMoves
  <2> QED BY <2>1, <2>2, <2>3, <2>7 DEF G!Finish
<1>9. CASE ~(Loop /\ left = 0)
  BY <1>6, <1>7, <1>8, <1>9, NextSplit DEF G!Next
<1> QED BY <1>3, <1>9

LEMMA GeneratorInit ==
    ASSUME Init
    PROVE  G!Init
<1>1. PICK created \in SUBSET Fds :
        /\ sock = [f \in Fds |-> IF f \in created THEN "connecting" ELSE "absent"]
        /\ sent = [f \in Fds |-> 0]
  BY DEF Init
<1>2. \A f \in Fds : Stage(f) \in {"absent", "waiting"}
  BY <1>1, NothingAdmitted DEF Stage, Created
<1>3. (epc = "reported") = FALSE
  BY DEF Init
<1> QED BY <1>2, <1>3 DEF G!Init

-----------------------------------------------------------------------------
(* The other load.                                                         *)

\* The other load is asked for when enough flows are over to begin with.
LateInv == memaslap # "off" => ~MostLeft

LEMMA LateStep ==
    ASSUME Prompt, FlowInv, LateInv, [Next]_vars
    PROVE  LateInv'
<1>1. OwnTypes /\ AdmitInv /\ SlotInv /\ PlaceInv /\ TallyInv
  BY SlotFacts, TypesSplit DEF FlowInv, OnceInv
<1>2. left \in Nat /\ Cardinality(Fds) \in Nat /\ Word \in Nat /\ left < Word
  BY <1>1, ClientAssumption, FS_CardinalityType DEF OwnTypes
<1>3. CASE Loop
  BY <1>3 DEF Loop, LateInv, MostLeft, tableVars
<1>4. CASE Shell
  BY <1>4 DEF Shell, LateInv, MostLeft, tableVars
<1>5. ASSUME NEW w \in Threads, DecStore(w)
      PROVE  UNCHANGED memaslap /\ left' \in Nat /\ left' <= left
  <2>1. UNCHANGED memaslap /\ left' = Dec(left)
    BY <1>5 DEF DecStore, epollVars
  <2>2. Cardinality(InFlight) # 0
    <3>1. w \in InFlight
      BY <1>1, <1>5, DecMoves
    <3> QED BY <3>1, CountedFinite, FS_EmptySet
  <2>3. left > 0
    BY <1>1, <1>2, <2>2, CountedFinite DEF TallyInv
  <2>4. left' = left - 1
    BY <1>2, <2>1, <2>3 DEF Dec
  <2> QED BY <1>2, <2>1, <2>3, <2>4
<1>6. CASE \E w \in Threads : DecStore(w)
  BY <1>2, <1>5, <1>6 DEF LateInv, MostLeft
<1>7. CASE \/ Wait \/ DispatchEnd \/ IncLoad \/ AddFlow \/ PushStep \/ UNCHANGED vars
           \/ \E f \in Fds : HandleErr(f) \/ Admit(f) \/ Defer(f) \/ HandleIn(f) \/ NetworkStep(f)
  <2>1. UNCHANGED <<memaslap, left>>
    BY <1>7 DEF Wait, DispatchEnd, IncLoad, AddFlow, PushStep, vars, HandleErr, Admit, Defer, HandleIn,
                NetworkStep, Connect, Respond, Refuse, Reset, ServerCloses, Happens, epollVars, tableVars
  <2> QED BY <2>1 DEF LateInv, MostLeft
<1>8. ASSUME NEW w \in Threads,
             \/ Pop(w) \/ ReadFull(w) \/ ReadEof(w) \/ ReadErr(w) \/ FailConn(w) \/ FailSize(w)
             \/ Stamp(w) \/ StampAborts(w) \/ CloseFlow(w) \/ DecLoad(w) \/ FreeSlot(w)
      PROVE  UNCHANGED <<memaslap, left>>
  BY <1>8 DEF Pop, ReadFull, ReadEof, ReadErr, FailConn, FailSize, Stamp, StampAborts, CloseFlow,
              DecLoad, FreeSlot, epollVars, tableVars
<1>9. ASSUME UNCHANGED <<memaslap, left>>
      PROVE  LateInv'
  BY <1>9 DEF LateInv, MostLeft
<1> QED BY <1>3, <1>4, <1>6, <1>7, <1>8, <1>9 DEF Next, EpollStep, WorkerStep

\* The flows that are not over are counted by left_flows.
LEMMA OverCount ==
    ASSUME Prompt, FlowInv, ~MostLeft
    PROVE  10 * Cardinality(Over) > 2 * Cardinality(Fds)
<1>1. OwnTypes /\ SlotInv /\ PlaceInv /\ SocketInv /\ TallyInv
  BY SlotFacts, TypesSplit DEF FlowInv, OnceInv
<1>2. Fds = Over \cup (Waiting \cup Admitted)
  <2>1. Admitted \subseteq Fds
    BY <1>1, AdmittedFds
  <2> QED BY <1>1, <2>1, StageOf DEF Over, Waiting, Created
<1>3. IsFiniteSet(Over) /\ Cardinality(Over) \in Nat /\ Cardinality(Fds) \in Nat
  <2>1. Over \subseteq Fds
    BY DEF Over
  <2>2. IsFiniteSet(Over)
    BY <2>1, ClientAssumption, FS_Subset
  <2> QED BY <2>2, ClientAssumption, FS_CardinalityType
<1>4. IsFiniteSet(Admitted) /\ Cardinality(Admitted) \in Nat /\ active \in Nat
      /\ Cardinality(Admitted) <= active + (IF cur # NoFd THEN 1 ELSE 0)
  BY <1>1, AdmittedCount
<1>5. ASSUME NEW S, NEW T, IsFiniteSet(S), IsFiniteSet(T)
      PROVE  /\ IsFiniteSet(S \cup T)
             /\ Cardinality(S \cup T) \in Nat
             /\ Cardinality(S \cup T) <= Cardinality(S) + Cardinality(T)
  <2>1. /\ IsFiniteSet(S \cup T)
        /\ Cardinality(S \cup T) = Cardinality(S) + Cardinality(T) - Cardinality(S \cap T)
    BY <1>5, FS_Union
  <2>2. IsFiniteSet(S \cap T)
    BY <1>5, FS_Intersection
  <2>3. Cardinality(S) \in Nat /\ Cardinality(T) \in Nat /\ Cardinality(S \cap T) \in Nat
    BY <1>5, <2>2, FS_CardinalityType
  <2>4. Cardinality(S \cup T) \in Nat
    BY <2>1, FS_CardinalityType
  <2> QED BY <2>1, <2>3, <2>4
<1>6. /\ IsFiniteSet(Waiting \cup Admitted) /\ Cardinality(Waiting \cup Admitted) \in Nat
      /\ Cardinality(Waiting \cup Admitted) <= Cardinality(Waiting) + Cardinality(Admitted)
  BY <1>4, <1>5, CountedFinite
<1>7. Cardinality(Fds) <= Cardinality(Over) + Cardinality(Waiting \cup Admitted)
  BY <1>2, <1>3, <1>5, <1>6
<1>8. Cardinality(Waiting) + Cardinality(Admitted) <= left /\ left \in Nat
  <2>1. left = Cardinality(Waiting) + active + (IF cur # NoFd THEN 1 ELSE 0)
    BY <1>1 DEF TallyInv, PlaceInv
  <2> QED BY <1>4, <2>1, CountedFinite
<1>9. 10 * left < 8 * Cardinality(Fds)
  BY <1>3, <1>8 DEF MostLeft
<1>10. Cardinality(Fds) <= Cardinality(Over) + left
  BY <1>3, <1>4, <1>6, <1>7, <1>8, CountedFinite
<1> QED BY <1>3, <1>8, <1>9, <1>10

-----------------------------------------------------------------------------
(* The client's promises, with prompt signals and updates that do not overlap. *)

\* client.c:20, 63, statistics.c:60: active_flows and left_flows count the flows
\* over both threads' paths and all failures, and no more than concurrent_flows
\* flows transmit at once.
THEOREM CountersRight ==
    ASSUME Prompt
    PROVE  Spec => []CountersExact
<1>1. Spec => []FlowInv
  BY FlowKept
<1>2. FlowInv => CountersExact
  BY CountersFollow
<1> QED BY <1>1, <1>2, PTL

\* print_statistics accounts for every flow exactly once, but for the completed
\* flows whose entry a reset has erased.
THEOREM ReportComplete ==
    ASSUME Prompt
    PROVE  Spec => []ReportAccounts
<1>1. Spec => []FlowInv
  BY FlowKept
<1>2. FlowInv => ReportAccounts
  BY ReportFollows
<1> QED BY <1>1, <1>2, PTL

\* The client starts, ends and reports flows as FlowGenerator says, whatever the
\* network does: what is proved of FlowGenerator holds of the client.
THEOREM GeneratorImplemented ==
    ASSUME Prompt
    PROVE  Spec => ImplementsGenerator
<1>1. Spec => []FlowInv
  BY FlowKept
<1>2. Init => G!Init
  BY GeneratorInit
<1>3. FlowInv /\ FlowInv' /\ [Next]_vars => [G!Next]_(G!genVars)
  BY GeneratorStep
<1> QED BY <1>1, <1>2, <1>3, PTL DEF Spec, ImplementsGenerator, G!Spec

\* client.c:52: the safety half of OtherLoadLate.  The other load is asked for
\* only when more than a fifth of the flows are over.
THEOREM OtherLoadWaits ==
    ASSUME Prompt
    PROVE  Spec => [](memaslap # "off" => 10 * Cardinality(Over) > 2 * Cardinality(Fds))
<1> DEFINE Enough == memaslap # "off" => 10 * Cardinality(Over) > 2 * Cardinality(Fds)
<1>1. Spec => []FlowInv
  BY FlowKept
<1>2. Init => LateInv
  BY DEF Init, LateInv
<1>3. FlowInv /\ LateInv /\ [Next]_vars => LateInv'
  BY LateStep
<1>4. FlowInv /\ LateInv => Enough
  BY OverCount DEF LateInv
<1> QED BY <1>1, <1>2, <1>3, <1>4, PTL DEF Spec
=============================================================================
