---------------------------- MODULE ServerProofs ----------------------------
(***************************************************************************)
(* What Server keeps for every number of connections, descriptors and      *)
(* threads.  The slots are ThreadPoll's, whose theorems are cited.  The    *)
(* types hold under every schedule; the promises to the clients hold when  *)
(* signals and closes are prompt and no client leaves while it waits for   *)
(* its response, and rest on following a request from its fd through the   *)
(* event of an epoll_wait, the push and a slot to the close.               *)
(***************************************************************************)
EXTENDS System, FiniteSetTheorems, TLAPS

PP == INSTANCE ThreadPollProofs WITH Events <- Fds \X Sizes, NoEvent <- <<0, NoConn>>,
                                     Spurious <- {}

-----------------------------------------------------------------------------
(* The slots are ThreadPoll's.                                             *)

\* The assumptions of ThreadPoll, which its theorems need.
LEMMA PoolAssumptions ==
    /\ NumThreads \in Nat \ {0} /\ MaxThreads \in Nat /\ NumThreads < MaxThreads
    /\ <<0, NoConn>> \notin Fds \X Sizes
    /\ LateSignal \subseteq PP!Threads /\ {} \subseteq PP!Threads
<1>1. 0 \notin Fds
    BY ServerAssumption DEF Fds
<1> QED BY <1>1, ServerAssumption DEF PP!Threads

LEMMA SameThreads == PP!Threads = Threads /\ Threads \subseteq PP!Slots /\ PP!Slots = P!Slots
BY ServerAssumption DEF PP!Threads, Threads, P!Threads, PP!Slots, P!Slots

\* The types of what the server adds to the slots.
OwnTypes ==
    /\ epc \in {"wait", "dispatch", "accept", "modify"}
    /\ batch \subseteq (Fds \cup {Listener}) \X {"ERR", "IN", "OUT"}
    /\ cur \in Fds \cup {Listener}
    /\ task \in [Threads -> {"write", "errclose", "delete", "close", "release", "killed"}]
    /\ flowsSize \in [Fds -> Sizes] /\ owner \in [Fds -> Sizes]
    /\ interest \in [Fds -> {"none", "IN", "OUT"}]
    /\ ready \subseteq Fds \cup {Listener}
    /\ srv \in [Conns -> {"none", "backlog", "open", "closed"}]
    /\ cli \in [Conns -> {"new", "connected", "requested", "closed", "reset"}]
    /\ request \subseteq Conns
    /\ got \in [Conns -> 0 .. 2] /\ misled \subseteq Conns

LEMMA TypesSplit == TypeOK <=> PP!TypeOK /\ OwnTypes
BY DEF TypeOK, OwnTypes, P!TypeOK, PP!TypeOK, P!Slots, PP!Slots, P!Threads, PP!Threads, Threads

\* A step of the server is a step of ThreadPoll or leaves the slots alone.
LEMMA PoolSteps ==
    ASSUME OwnTypes, [Next]_vars
    PROVE  [PP!Next]_(PP!pollVars)
<1> USE DEF PP!pollVars, pollVars
<1>1. ASSUME NEW fd \in Fds, HandleOut(fd)
      PROVE  PP!Next
    <2>1. <<fd, flowsSize[fd]>> \in Fds \X Sizes /\ P!PushCall(<<fd, flowsSize[fd]>>)
        BY <1>1 DEF HandleOut, OwnTypes
    <2> QED BY <2>1 DEF PP!Next, PP!PushCall, P!PushCall
<1>2. CASE PushStep
    <2>1. P!Push
        BY <1>2 DEF PushStep
    <2>2. PP!Push
        BY <2>1 DEF P!Push, PP!Push, P!ScanHit, PP!ScanHit, P!ScanMiss, PP!ScanMiss,
                    P!ScanFail, PP!ScanFail, P!Store, PP!Store, P!Signal, PP!Signal,
                    P!AfterSignal, PP!AfterSignal, P!Threads, PP!Threads
    <2> QED BY <2>2 DEF PP!Next
<1>3. ASSUME NEW w \in Threads, Pop(w) \/ FreeSlot(w)
      PROVE  PP!Next
    <2>1. PP!Work(w)
        BY <1>3 DEF Pop, FreeSlot, PP!Work, P!PopTake, PP!PopTake, P!PopWait, PP!PopWait,
                    P!PopWoken, PP!PopWoken, P!Release, PP!Release, P!Take, PP!Take,
                    P!Running, PP!Running
    <2> QED BY <2>1, SameThreads DEF PP!Next
<1>4. CASE \/ Wait \/ DispatchEnd \/ HandleListener \/ AcceptEnd \/ ModifyIn
           \/ \E fd \in Fds : \/ HandleErr(fd) \/ HandleRequest(fd) \/ HandleNoRequest(fd)
                              \/ \E c \in Conns : Accept(c, fd)
    BY <1>4 DEF Wait, DispatchEnd, HandleListener, AcceptEnd, ModifyIn, HandleErr,
                HandleRequest, HandleNoRequest, Accept
<1>5. ASSUME NEW w \in Threads,
             \/ WriteAll(w) \/ WriteFails(w) \/ WriteKills(w) \/ ErrClose(w)
             \/ DeleteEvent(w) \/ CloseFd(w)
      PROVE  UNCHANGED PP!pollVars
    BY <1>5 DEF WriteAll, WriteFails, WriteKills, ErrClose, DeleteEvent, CloseFd
<1>6. ASSUME NEW c \in Conns, ClientStep(c)
      PROVE  UNCHANGED PP!pollVars
    BY <1>6 DEF ClientStep, Connect, Request, Finish, Quit, Happens
<1>7. CASE UNCHANGED vars
    BY <1>7 DEF vars
<1> QED BY <1>1, <1>2, <1>3, <1>4, <1>5, <1>6, <1>7 DEF Next, EpollStep, WorkerStep

\* What ThreadPoll promises of the slots, under every schedule.
SlotsInv == PP!HandOffInv /\ PP!EventInv

LEMMA SlotsInit == Init => SlotsInv /\ PP!PromptInv
<1>1. Init => PP!Init
    BY DEF Init, P!Init, PP!Init, P!Slots, PP!Slots, P!Threads, PP!Threads
<1> QED BY <1>1, PoolAssumptions, PP!PoolStarts DEF SlotsInv

LEMMA SlotsStep ==
    ASSUME SlotsInv, OwnTypes, [Next]_vars
    PROVE  SlotsInv' /\ (PP!PromptInv => PP!PromptInv')
<1>1. [PP!Next]_(PP!pollVars)
    BY PoolSteps
<1> QED BY <1>1, PoolAssumptions, PP!HandOffStep, PP!EventStep, PP!PromptStep DEF SlotsInv

-----------------------------------------------------------------------------
(* Types, under every schedule and every client.                           *)

\* Closing an fd keeps the types of the kernel's tables.
LEMMA CloseTypes ==
    ASSUME OwnTypes, NEW fd, Close(fd)
    PROVE  /\ interest' \in [Fds -> {"none", "IN", "OUT"}]
           /\ ready' \subseteq Fds \cup {Listener}
           /\ owner' \in [Fds -> Sizes]
           /\ srv' \in [Conns -> {"none", "backlog", "open", "closed"}]
BY DEF OwnTypes, Close, Delete, Sizes

\* A worker that serves holds an event that was pushed.
LEMMA ServesEvent ==
    ASSUME SlotsInv, NEW w \in Threads, wpc[w] = "serving"
    PROVE  /\ wev[w] \in Fds \X Sizes
           /\ WorkerFd(w) \in Fds /\ wev[w][2] \in Sizes
<1>1. wev[w] \in (Fds \X Sizes) \cup {<<0, NoConn>>} /\ wev[w] # <<0, NoConn>>
    BY SameThreads DEF SlotsInv, PP!HandOffInv, PP!TypeOK, PP!EventInv
<1> QED BY <1>1 DEF WorkerFd

LEMMA OwnTypesStep ==
    ASSUME SlotsInv, OwnTypes, [Next]_vars
    PROVE  OwnTypes'
<1> USE DEF OwnTypes
<1>1. CASE Wait
    <2>1. batch' \subseteq (Fds \cup {Listener}) \X {"ERR", "IN", "OUT"} /\ ready' = {}
        <3>1. \A fd : Kind(fd) \in {"none", "ERR", "IN", "OUT"}
            BY DEF Kind
        <3> QED BY <1>1, <3>1 DEF Wait
    <2> QED BY <1>1, <2>1 DEF Wait, clientVars, answerVars
<1>2. CASE DispatchEnd \/ HandleListener \/ AcceptEnd
    BY <1>2 DEF DispatchEnd, HandleListener, Dispatch, AcceptEnd, kernelVars, clientVars,
                answerVars
<1>3. CASE PushStep
    BY <1>3 DEF PushStep, epollVars, kernelVars, clientVars, answerVars
<1>4. CASE ModifyIn
    BY <1>4 DEF ModifyIn, Modify, Arm, clientVars, answerVars
<1>5. ASSUME NEW fd \in Fds, HandleErr(fd) \/ HandleOut(fd)
      PROVE  OwnTypes'
    BY <1>5 DEF HandleErr, HandleOut, Dispatch, Delete, kernelVars, clientVars, answerVars
<1>6. ASSUME NEW fd \in Fds, HandleRequest(fd)
      PROVE  OwnTypes'
    <2>1. owner[fd] \in Sizes /\ flowsSize' \in [Fds -> Sizes]
        BY <1>6 DEF HandleRequest
    <2>2. interest' \in [Fds -> {"none", "IN", "OUT"}] /\ ready' \subseteq Fds \cup {Listener}
        BY <1>6 DEF HandleRequest, Modify, Arm
    <2> QED BY <1>6, <2>1, <2>2 DEF HandleRequest, Dispatch, answerVars
<1>7. ASSUME NEW fd \in Fds, HandleNoRequest(fd)
      PROVE  OwnTypes'
    <2>1. Close(fd)
        BY <1>7 DEF HandleNoRequest
    <2> QED BY <1>7, <2>1, CloseTypes DEF HandleNoRequest, Dispatch, clientVars, answerVars
<1>8. ASSUME NEW fd \in Fds, NEW c \in Conns, Accept(c, fd)
      PROVE  OwnTypes'
    <2>1. ready' \subseteq Fds \cup {Listener} /\ owner' \in [Fds -> Sizes]
        BY <1>8 DEF Accept, Arm, Sizes
    <2> QED BY <1>8, <2>1 DEF Accept, epollVars, clientVars, answerVars
<1>9. ASSUME NEW w \in Threads, Pop(w) \/ FreeSlot(w)
      PROVE  OwnTypes'
    BY <1>9 DEF Pop, FreeSlot, Go, epollVars, kernelVars, clientVars, answerVars
<1>10. ASSUME NEW w \in Threads, WriteAll(w)
       PROVE  OwnTypes'
    <2>1. Peer(w) \in Conns
        BY <1>10, ServesEvent DEF WriteAll, At, Peer, Sizes
    <2>2. got[Peer(w)] \in 0 .. 2
        BY <2>1
    <2>3. (IF got[Peer(w)] < 2 THEN got[Peer(w)] + 1 ELSE 2) \in 0 .. 2
        BY <2>2
    <2>4. got' \in [Conns -> 0 .. 2] /\ misled' \subseteq Conns
        BY <1>10, <2>1, <2>3 DEF WriteAll
    <2> QED BY <1>10, <2>4 DEF WriteAll, Go, epollVars, kernelVars, clientVars
<1>11. ASSUME NEW w \in Threads, WriteFails(w) \/ WriteKills(w)
       PROVE  OwnTypes'
    BY <1>11 DEF WriteFails, WriteKills, Go, epollVars, kernelVars, clientVars, answerVars
<1>12. ASSUME NEW w \in Threads, ErrClose(w) \/ CloseFd(w)
       PROVE  OwnTypes'
    <2>1. Close(WorkerFd(w))
        BY <1>12 DEF ErrClose, CloseFd
    <2> QED BY <1>12, <2>1, CloseTypes DEF ErrClose, CloseFd, Go, epollVars, clientVars, answerVars
<1>13. ASSUME NEW w \in Threads, DeleteEvent(w)
       PROVE  OwnTypes'
    BY <1>13 DEF DeleteEvent, Delete, Go, epollVars, clientVars, answerVars
<1>14. ASSUME NEW c \in Conns, ClientStep(c)
       PROVE  OwnTypes'
    <2>1. ready' \subseteq Fds \cup {Listener}
        BY <1>14 DEF ClientStep, Connect, Request, Finish, Quit, Happens
    <2>2. /\ cli' \in [Conns -> {"new", "connected", "requested", "closed", "reset"}]
          /\ srv' \in [Conns -> {"none", "backlog", "open", "closed"}]
          /\ request' \subseteq Conns
        BY <1>14 DEF ClientStep, Connect, Request, Finish, Quit, Happens
    <2>3. UNCHANGED <<epollVars, task, flowsSize, owner, interest, answerVars>>
        BY <1>14 DEF ClientStep, Connect, Request, Finish, Quit, Happens
    <2> QED BY <2>1, <2>2, <2>3 DEF epollVars, answerVars
<1>15. CASE UNCHANGED vars
    BY <1>15 DEF vars, epollVars, kernelVars, clientVars, answerVars
<1> QED
    BY <1>1, <1>2, <1>3, <1>4, <1>5, <1>6, <1>7, <1>8, <1>9, <1>10, <1>11, <1>12, <1>13,
       <1>14, <1>15 DEF Next, EpollStep, WorkerStep

TypesInv == SlotsInv /\ OwnTypes

LEMMA TypesInit == Init => TypesInv
<1>1. Init => OwnTypes
    BY DEF Init, OwnTypes, Sizes
<1> QED BY <1>1, SlotsInit DEF TypesInv

LEMMA TypesInvariant == Spec => []TypesInv
<1>1. TypesInv /\ [Next]_vars => TypesInv'
    BY SlotsStep, OwnTypesStep DEF TypesInv
<1> QED BY <1>1, TypesInit, PTL DEF Spec

\* The server keeps its types, under every schedule and with all clients.
THEOREM ServerTypes == Spec => []TypeOK
<1>1. TypesInv => TypeOK
    BY TypesSplit DEF TypesInv, SlotsInv, PP!HandOffInv
<1> QED BY <1>1, TypesInvariant, PTL

-----------------------------------------------------------------------------
(* A request on its way to the close of its connection.                     *)

\* The restrictions of the runs: the signal follows the unlock at once, the
\* close follows the write at once, and no client leaves while it waits.
Orderly == LateSignal = {} /\ PromptClose = TRUE /\ "abandon" \notin Faults

\* What ThreadPoll's invariants say of the slots when signals are prompt.
SlotInv ==
    /\ ppc \in {"out", "scan", "store", "exited"}
    /\ flag \in [P!Slots -> {"IDLE", "BUSY", "INVALID"}]
    /\ event \in [P!Slots -> (Fds \X Sizes) \cup {<<0, NoConn>>}]
    /\ wpc \in [Threads -> {"pop", "asleep", "woken", "serving"}]
    /\ wev \in [Threads -> (Fds \X Sizes) \cup {<<0, NoConn>>}]
    /\ ppc \in {"scan", "store"} => pev \in Fds \X Sizes
    /\ ppc = "store" => slot \in Threads /\ flag[slot] = "IDLE"
    /\ \A w \in Threads :
          /\ flag[w] = "BUSY" => event[w] \in Fds \X Sizes
          /\ wpc[w] = "serving" => flag[w] = "BUSY"

\* Connection c, which has fd, waits for the response to a request that was read.
Waits(fd, c) ==
    /\ owner[fd] = c /\ c \in Conns /\ c \notin request
    /\ got[c] = 0 /\ cli[c] \in {"requested", "reset"}

\* The client has its response or has gone.
Gone(c) == got[c] > 0 \/ cli[c] \in {"closed", "reset"}

\* The event is with the epoll thread in event_push, or in a slot whose worker
\* has not done with its fd.
Pushing == ppc \in {"scan", "store"}
Holding(w) == flag[w] = "BUSY" /\ task[w] # "release"

\* An open connection has one fd, and only an open one has events.
FdInv ==
    /\ \A fd \in Fds : interest[fd] # "none" => owner[fd] # NoConn
    /\ \A fd \in Fds : owner[fd] # NoConn => srv[owner[fd]] = "open"
    /\ \A f, g \in Fds : owner[f] = owner[g] /\ owner[f] # NoConn => f = g

\* The two ends of a connection, its request and its response.
ConnInv ==
    /\ misled = {}
    /\ \A c \in Conns :
        /\ cli[c] = "new" => srv[c] = "none"
        /\ c \in request => got[c] = 0 /\ cli[c] \in {"requested", "reset"}
        /\ got[c] <= 1 /\ (got[c] = 1 => cli[c] \in {"requested", "closed", "reset"})
        /\ srv[c] = "closed" => Gone(c)

\* The events that are still to be handled: those to answer and to read are not
\* stale, and flows_size then holds the connection that asked.
BatchInv ==
    /\ \A e, f \in batch : e[1] = f[1] => e = f
    /\ batch # {} => epc # "wait"
    /\ \A fd \in Fds :
        /\ <<fd, "OUT">> \in batch => Waits(fd, flowsSize[fd])
        /\ interest[fd] = "OUT" => fd = cur \/ Waits(fd, flowsSize[fd])
        /\ <<fd, "IN">> \in batch =>
              owner[fd] \in request \/ (owner[fd] \in Conns /\ cli[owner[fd]] = "closed")

\* An fd whose request was read is with one thread.
PlaceInv ==
    /\ cur # Listener <=> epc = "modify"
    /\ epc # "modify" => ppc = "out"
    /\ Pushing => pev[1] = cur
    /\ \A w \in Threads : IF wpc[w] = "serving" THEN wev[w] = event[w] ELSE task[w] = "write"
    /\ \A w \in Threads : Holding(w) /\ Pushing => event[w][1] # pev[1]
    /\ \A v, w \in Threads : Holding(v) /\ Holding(w) /\ event[v][1] = event[w][1] => v = w

\* The epoll thread has no further business with fd.
Handed(fd) ==
    /\ <<fd, "IN">> \notin batch /\ <<fd, "OUT">> \notin batch
    /\ interest[fd] = "OUT" => fd = cur

\* The connection of an event is the one that asked until it has its response,
\* and it has the response, or is broken, when its fd is closed.
CarryInv ==
    /\ Pushing => Waits(pev[1], pev[2]) /\ Handed(pev[1])
    /\ \A w \in Threads : Holding(w) =>
        LET fd == event[w][1]
            c == event[w][2]
        IN  /\ Handed(fd)
            /\ task[w] = "write" => Waits(fd, c)
            /\ task[w] \in {"errclose", "delete", "close"} =>
                  owner[fd] = NoConn \/ (owner[fd] \in Conns /\ Gone(owner[fd]))

PipeInv == FdInv /\ ConnInv /\ BatchInv /\ PlaceInv /\ CarryInv

ServeInv == TypesInv /\ PP!PromptInv /\ PipeInv

LEMMA SlotFacts ==
    ASSUME Orderly, SlotsInv, PP!PromptInv
    PROVE  SlotInv
<1> USE SameThreads DEF Orderly, SlotsInv, PP!HandOffInv, PP!TypeOK, PP!FlagOK, PP!ChosenOK
<1>1. ppc # "signal"
    <2>1. ppc = "signal" => slot \in Threads /\ ~PP!Pending(slot)
        BY DEF PP!PromptInv
    <2> QED BY <2>1 DEF PP!Pending
<1>2. ppc = "store" => slot \in Threads /\ flag[slot] = "IDLE"
    BY DEF PP!StoreFindsIdle
<1>3. ASSUME NEW w \in Threads
      PROVE  /\ flag[w] = "BUSY" => event[w] \in Fds \X Sizes
             /\ wpc[w] = "serving" => flag[w] = "BUSY"
    <2>1. w \in PP!Threads /\ w \in PP!Slots
        OBVIOUS
    <2> QED BY <2>1 DEF PP!EventInv, PP!PromptInv
<1>4. /\ flag \in [P!Slots -> {"IDLE", "BUSY", "INVALID"}]
      /\ event \in [P!Slots -> (Fds \X Sizes) \cup {<<0, NoConn>>}]
      /\ wpc \in [Threads -> {"pop", "asleep", "woken", "serving"}]
      /\ wev \in [Threads -> (Fds \X Sizes) \cup {<<0, NoConn>>}]
    OBVIOUS
<1>5. ppc \in {"scan", "store"} => pev \in Fds \X Sizes
    BY DEF PP!EventInv
<1>6. ppc \in {"out", "scan", "store", "exited"}
    BY <1>1
<1> QED BY <1>2, <1>3, <1>4, <1>5, <1>6 DEF SlotInv

\* What a push does to the slots: it goes on, or stores the event in an idle one.
LEMMA PushKinds ==
    ASSUME Orderly, SlotInv, P!Push
    PROVE  \/ Pushing /\ ppc' \in {"scan", "store", "exited"}
              /\ UNCHANGED <<flag, event, wpc, wev, pev>>
           \/ /\ Pushing /\ ppc' = "out" /\ slot \in Threads /\ flag[slot] = "IDLE"
              /\ flag' = [flag EXCEPT ![slot] = "BUSY"]
              /\ event' = [event EXCEPT ![slot] = pev]
              /\ wev' = wev
              /\ \A w \in Threads : wpc'[w] = "serving" <=> wpc[w] = "serving"
<1>1. CASE P!ScanHit \/ P!ScanMiss \/ P!ScanFail
    BY <1>1 DEF P!ScanHit, P!ScanMiss, P!ScanFail, Pushing
<1>2. CASE P!Store
    BY <1>2, SameThreads DEF P!Store, P!AfterSignal, P!Threads, Threads, Pushing, SlotInv, Orderly
<1>3. CASE P!Signal
    BY <1>3 DEF P!Signal, SlotInv
<1> QED BY <1>1, <1>2, <1>3 DEF P!Push

-----------------------------------------------------------------------------
(* Steps of the epoll thread and of the clients.  With prompt closes no     *)
(* worker is then between its write and its close.                          *)

\* What the epoll thread and the clients may do, apart from the push.
CalmStep ==
    /\ Running /\ Calm
    /\ \/ Wait \/ DispatchEnd \/ HandleListener \/ AcceptEnd \/ ModifyIn
       \/ \E fd \in Fds : \/ HandleErr(fd) \/ HandleRequest(fd) \/ HandleNoRequest(fd)
                          \/ \E c \in Conns : Accept(c, fd)
       \/ \E c \in Conns : Connect(c) \/ Request(c) \/ Finish(c) \/ Quit(c)

\* All of them leave the slots and the workers alone.
LEMMA CalmFrame ==
    ASSUME CalmStep
    PROVE  /\ UNCHANGED <<flag, event, ppc, slot, pev, wpc, wev, taken, task, got, misled>>
           /\ \A w \in Threads : task[w] # "killed"
BY DEF CalmStep, Running, Wait, DispatchEnd, HandleListener, Dispatch, AcceptEnd, ModifyIn,
       HandleErr, HandleRequest, HandleNoRequest, Accept, Connect, Request, Finish, Quit,
       Happens, pollVars, answerVars

\* Nor does one of them disturb a connection that waits for its response.
LEMMA WaitsKept ==
    ASSUME Orderly, OwnTypes, FdInv, ConnInv, BatchInv, CalmStep,
           NEW fd \in Fds, NEW c, Waits(fd, c)
    PROVE  Waits(fd, c)'
<1> USE DEF Waits
<1>0. got' = got
    BY CalmFrame
<1>1. CASE Wait \/ DispatchEnd \/ HandleListener \/ AcceptEnd \/ ModifyIn
    BY <1>0, <1>1 DEF Wait, DispatchEnd, HandleListener, AcceptEnd, ModifyIn, kernelVars,
                      clientVars
<1>2. ASSUME NEW g \in Fds, HandleErr(g)
      PROVE  Waits(fd, c)'
    BY <1>0, <1>2 DEF HandleErr, clientVars
<1>3. ASSUME NEW g \in Fds, HandleRequest(g)
      PROVE  Waits(fd, c)'
    BY <1>0, <1>3 DEF HandleRequest
<1>4. ASSUME NEW g \in Fds, HandleNoRequest(g)
      PROVE  Waits(fd, c)'
    <2>1. <<g, "IN">> \in batch /\ owner[g] \notin request
        BY <1>4 DEF HandleNoRequest, Dispatch
    <2>2. cli[owner[g]] = "closed"
        BY <2>1 DEF BatchInv
    <2>3. g # fd
        BY <2>2
    <2>4. owner'[fd] = owner[fd] /\ UNCHANGED <<cli, request>>
        BY <1>4, <2>3 DEF HandleNoRequest, Close, OwnTypes, clientVars
    <2> QED BY <1>0, <2>4
<1>5. ASSUME NEW g \in Fds, NEW d \in Conns, Accept(d, g)
      PROVE  Waits(fd, c)'
    <2>1. owner[g] = NoConn /\ owner' = [owner EXCEPT ![g] = d] /\ UNCHANGED <<cli, request>>
        BY <1>5 DEF Accept, clientVars
    <2>2. g # fd
        BY <2>1, ServerAssumption
    <2> QED BY <1>0, <2>1, <2>2 DEF OwnTypes
<1>6. ASSUME NEW d \in Conns, Connect(d) \/ Request(d) \/ Finish(d) \/ Quit(d)
      PROVE  Waits(fd, c)'
    <2>1. owner' = owner
        BY <1>6 DEF Connect, Request, Finish, Quit, Happens
    <2>2. CASE d # c
        BY <1>0, <1>6, <2>1, <2>2 DEF Connect, Request, Finish, Quit, OwnTypes
    <2>3. CASE d = c
        <3>1. srv[c] = "open" /\ c \in Conns /\ cli[c] \in {"requested", "reset"} /\ got[c] = 0
            BY ServerAssumption DEF FdInv
        <3>2. ~Connect(c) /\ ~Request(c) /\ ~Finish(c)
            BY <3>1 DEF Connect, Request, Finish
        <3>3. Quit(c)
            BY <1>6, <2>3, <3>2
        <3>4. PICK how \in Faults :
                /\ cli[c] \in QuitsFrom(how)
                /\ cli' = [cli EXCEPT ![c] = IF how = "reset" THEN "reset" ELSE "closed"]
            BY <3>3 DEF Quit
        <3>5. how = "reset"
            BY <3>1, <3>4, ServerAssumption DEF QuitsFrom, Orderly
        <3>6. cli'[c] = "reset" /\ request' = request
            BY <3>1, <3>3, <3>4, <3>5 DEF Quit, OwnTypes
        <3> QED BY <1>0, <2>1, <3>6
    <2> QED BY <2>2, <2>3
<1> QED BY <1>1, <1>2, <1>3, <1>4, <1>5, <1>6 DEF CalmStep

\* Nor has one of them anything to do with an fd that is handed over.
LEMMA HandedKept ==
    ASSUME Orderly, OwnTypes, FdInv, PlaceInv, CalmStep,
           NEW fd \in Fds, NEW c, Waits(fd, c), Handed(fd)
    PROVE  Handed(fd)'
<1> USE DEF Waits, Handed
<1>0. fd # Listener
    BY ServerAssumption DEF Fds, Listener
<1>1. CASE Wait
    <2>1. cur = Listener /\ UNCHANGED <<interest, cur>>
        BY <1>1 DEF Wait, PlaceInv
    <2>2. Kind(fd) # "IN" /\ Kind(fd) # "OUT"
        BY <1>0, <2>1 DEF Kind, OwnTypes
    <2>3. <<fd, "IN">> \notin batch' /\ <<fd, "OUT">> \notin batch'
        BY <1>0, <1>1, <2>2 DEF Wait
    <2> QED BY <2>1, <2>3
<1>2. CASE DispatchEnd \/ HandleListener \/ AcceptEnd
    BY <1>2 DEF DispatchEnd, HandleListener, Dispatch, AcceptEnd, kernelVars
<1>3. CASE ModifyIn
    <2>1. cur \in Fds /\ batch' = batch
        BY <1>3 DEF ModifyIn
    <2>2. interest'[fd] # "OUT"
        BY <1>3 DEF ModifyIn, Modify, OwnTypes
    <2> QED BY <2>1, <2>2
<1>4. ASSUME NEW g \in Fds, HandleErr(g)
      PROVE  Handed(fd)'
    BY <1>4 DEF HandleErr, Dispatch, Delete, OwnTypes
<1>5. ASSUME NEW g \in Fds, HandleRequest(g)
      PROVE  Handed(fd)'
    <2>1. g # fd
        BY <1>5 DEF HandleRequest
    <2> QED BY <1>5, <2>1 DEF HandleRequest, Dispatch, Modify, OwnTypes
<1>6. ASSUME NEW g \in Fds, HandleNoRequest(g)
      PROVE  Handed(fd)'
    BY <1>6 DEF HandleNoRequest, Dispatch, Close, Delete, OwnTypes
<1>7. ASSUME NEW g \in Fds, NEW d \in Conns, Accept(d, g)
      PROVE  Handed(fd)'
    BY <1>7 DEF Accept, OwnTypes, epollVars
<1>8. ASSUME NEW d \in Conns, Connect(d) \/ Request(d) \/ Finish(d) \/ Quit(d)
      PROVE  Handed(fd)'
    BY <1>8 DEF Connect, Request, Finish, Quit, Happens, epollVars
<1> QED BY <1>1, <1>2, <1>3, <1>4, <1>5, <1>6, <1>7, <1>8 DEF CalmStep

\* So the events on their way keep their connections.
LEMMA CalmCarry ==
    ASSUME Orderly, OwnTypes, SlotInv, FdInv, ConnInv, BatchInv, PlaceInv, CarryInv, CalmStep
    PROVE  CarryInv'
<1>1. ASSUME Pushing
      PROVE  Waits(pev[1], pev[2])' /\ Handed(pev[1])'
    <2>1. pev[1] \in Fds /\ pev[2] \in Sizes /\ Waits(pev[1], pev[2]) /\ Handed(pev[1]) /\ pev' = pev
        BY <1>1, CalmFrame DEF SlotInv, Pushing, CarryInv
    <2>2. PICK f \in Fds, c \in Sizes : f = pev[1] /\ c = pev[2]
        BY <2>1
    <2>3. Waits(f, c) /\ Handed(f)
        BY <2>1, <2>2
    <2>4. Waits(f, c)' /\ Handed(f)'
        BY <2>3, WaitsKept, HandedKept
    <2> QED BY <2>1, <2>2, <2>4 DEF Waits, Handed
<1>2. ASSUME NEW w \in Threads, Holding(w)
      PROVE  Waits(event[w][1], event[w][2])' /\ Handed(event[w][1])' /\ task'[w] = "write"
    <2>1. event[w][1] \in Fds /\ event[w][2] \in Sizes
        BY <1>2 DEF SlotInv, Holding
    <2>2. task[w] = "write" /\ UNCHANGED <<task, event>>
        BY <1>2, CalmFrame DEF CalmStep, Calm, Orderly, Holding, OwnTypes
    <2>3. Waits(event[w][1], event[w][2]) /\ Handed(event[w][1])
        BY <1>2, <2>2 DEF CarryInv
    <2>4. PICK f \in Fds, c \in Sizes : f = event[w][1] /\ c = event[w][2]
        BY <2>1
    <2>5. Waits(f, c) /\ Handed(f)
        BY <2>3, <2>4
    <2>6. Waits(f, c)' /\ Handed(f)'
        BY <2>5, WaitsKept, HandedKept
    <2>7. event'[w][1] = f /\ event'[w][2] = c
        BY <2>2, <2>4
    <2> QED BY <2>2, <2>6, <2>7 DEF Waits, Handed
<1>3. (Pushing' <=> Pushing) /\ \A w \in Threads : Holding(w)' <=> Holding(w)
    BY CalmFrame DEF Pushing, Holding
<1> QED BY <1>1, <1>2, <1>3 DEF CarryInv

\* A close ends the connection that has the fd and no other one.
LEMMA CloseOne ==
    ASSUME OwnTypes, NEW fd \in Fds, Close(fd)
    PROVE  /\ \A g \in Fds : owner'[g] = IF g = fd THEN NoConn ELSE owner[g]
           /\ \A g \in Fds : interest'[g] = IF g = fd THEN "none" ELSE interest[g]
           /\ \A c \in Conns : srv'[c] = IF c = owner[fd] THEN "closed" ELSE srv[c]
BY DEF Close, Delete, OwnTypes

LEMMA CloseFds ==
    ASSUME OwnTypes, FdInv, NEW fd \in Fds, Close(fd)
    PROVE  FdInv'
<1>1. \A g \in Fds : owner[g] # NoConn => owner[g] \in Conns
    BY DEF OwnTypes, Sizes
<1> QED BY <1>1, CloseOne DEF FdInv

LEMMA CloseConns ==
    ASSUME OwnTypes, FdInv, ConnInv, NEW fd \in Fds, Close(fd),
           UNCHANGED <<cli, request, got, misled>>,
           owner[fd] = NoConn \/ Gone(owner[fd])
    PROVE  ConnInv'
<1>1. \A c \in Conns : srv'[c] = IF c = owner[fd] THEN "closed" ELSE srv[c]
    BY CloseOne
<1>2. \A c \in Conns : c = owner[fd] => c # NoConn /\ srv[c] = "open"
    BY ServerAssumption DEF FdInv
<1>3. \A c \in Conns : Gone(c)' <=> Gone(c)
    BY DEF Gone
<1> QED BY <1>1, <1>2, <1>3 DEF ConnInv

LEMMA CalmFds ==
    ASSUME OwnTypes, FdInv, ConnInv, CalmStep
    PROVE  FdInv'
<1>1. CASE Wait \/ DispatchEnd \/ HandleListener \/ AcceptEnd
    BY <1>1 DEF FdInv, Wait, DispatchEnd, HandleListener, AcceptEnd, kernelVars
<1>2. CASE ModifyIn
    BY <1>2 DEF FdInv, ModifyIn, Modify, OwnTypes
<1>3. ASSUME NEW fd \in Fds, HandleErr(fd)
      PROVE  FdInv'
    BY <1>3 DEF FdInv, HandleErr, Delete, OwnTypes
<1>4. ASSUME NEW fd \in Fds, HandleRequest(fd)
      PROVE  FdInv'
    BY <1>4 DEF FdInv, HandleRequest, Modify, OwnTypes
<1>5. ASSUME NEW fd \in Fds, HandleNoRequest(fd)
      PROVE  FdInv'
    <2>1. Close(fd)
        BY <1>5 DEF HandleNoRequest
    <2> QED BY <2>1, CloseFds
<1>6. ASSUME NEW fd \in Fds, NEW c \in Conns, Accept(c, fd)
      PROVE  FdInv'
    <2>1. /\ srv[c] = "backlog" /\ owner' = [owner EXCEPT ![fd] = c]
          /\ srv' = [srv EXCEPT ![c] = "open"]
          /\ interest' = [interest EXCEPT ![fd] = "IN"]
        BY <1>6 DEF Accept
    <2>2. \A g \in Fds : owner[g] # c
        BY <2>1, ServerAssumption DEF FdInv
    <2>3. \A g \in Fds : owner'[g] = IF g = fd THEN c ELSE owner[g]
        BY <2>1 DEF OwnTypes
    <2>4. \A g \in Fds : owner'[g] # NoConn => srv'[owner'[g]] = "open"
        BY <2>1, <2>2, <2>3 DEF FdInv, OwnTypes, Sizes
    <2>5. \A g \in Fds : interest'[g] # "none" => owner'[g] # NoConn
        BY <2>1, <2>3, ServerAssumption DEF FdInv, OwnTypes
    <2>6. \A f, g \in Fds : owner'[f] = owner'[g] /\ owner'[f] # NoConn => f = g
        BY <2>2, <2>3 DEF FdInv
    <2> QED BY <2>4, <2>5, <2>6 DEF FdInv
<1>7. ASSUME NEW c \in Conns, Connect(c)
      PROVE  FdInv'
    <2>1. UNCHANGED <<owner, interest>> /\ srv' = [srv EXCEPT ![c] = "backlog"] /\ srv[c] = "none"
        BY <1>7 DEF Connect, ConnInv
    <2>2. \A fd \in Fds : owner[fd] # NoConn => owner[fd] # c /\ owner[fd] \in Conns
        BY <2>1 DEF FdInv, OwnTypes, Sizes
    <2> QED BY <2>1, <2>2 DEF FdInv, OwnTypes
<1>8. ASSUME NEW c \in Conns, Request(c) \/ Finish(c) \/ Quit(c)
      PROVE  FdInv'
    BY <1>8 DEF FdInv, Request, Finish, Quit, Happens
<1> QED BY <1>1, <1>2, <1>3, <1>4, <1>5, <1>6, <1>7, <1>8 DEF CalmStep

LEMMA CalmConns ==
    ASSUME Orderly, OwnTypes, FdInv, ConnInv, BatchInv, CalmStep
    PROVE  ConnInv'
<1>0. got' = got /\ misled' = misled
    BY CalmFrame
<1>1. CASE \/ Wait \/ DispatchEnd \/ HandleListener \/ AcceptEnd \/ ModifyIn
           \/ \E fd \in Fds : HandleErr(fd)
    <2>1. UNCHANGED <<srv, cli, request>>
        BY <1>1 DEF Wait, DispatchEnd, HandleListener, AcceptEnd, ModifyIn, HandleErr,
                    kernelVars, clientVars
    <2> QED BY <1>0, <2>1 DEF ConnInv, Gone
<1>2. ASSUME NEW fd \in Fds, HandleRequest(fd)
      PROVE  ConnInv'
    <2>1. request' \subseteq request /\ UNCHANGED <<srv, cli>>
        BY <1>2 DEF HandleRequest
    <2> QED BY <1>0, <2>1 DEF ConnInv, Gone
<1>3. ASSUME NEW fd \in Fds, HandleNoRequest(fd)
      PROVE  ConnInv'
    <2>1. /\ Close(fd) /\ UNCHANGED <<cli, request>>
          /\ <<fd, "IN">> \in batch /\ owner[fd] \notin request
        BY <1>3 DEF HandleNoRequest, Dispatch, clientVars
    <2>2. Gone(owner[fd])
        BY <2>1 DEF BatchInv, Gone
    <2> QED BY <1>0, <2>1, <2>2, CloseConns
<1>4. ASSUME NEW fd \in Fds, NEW c \in Conns, Accept(c, fd)
      PROVE  ConnInv'
    <2>1. /\ srv[c] = "backlog" /\ srv' = [srv EXCEPT ![c] = "open"]
          /\ UNCHANGED <<cli, request>>
        BY <1>4 DEF Accept, clientVars
    <2> QED BY <1>0, <2>1 DEF ConnInv, Gone, OwnTypes
<1>5. ASSUME NEW c \in Conns, Connect(c)
      PROVE  ConnInv'
    <2>1. /\ cli[c] = "new" /\ cli' = [cli EXCEPT ![c] = "connected"]
          /\ srv' = [srv EXCEPT ![c] = "backlog"] /\ request' = request
        BY <1>5 DEF Connect
    <2> QED BY <1>0, <2>1 DEF ConnInv, Gone, OwnTypes
<1>6. ASSUME NEW c \in Conns, Request(c)
      PROVE  ConnInv'
    <2>1. /\ cli[c] = "connected" /\ cli' = [cli EXCEPT ![c] = "requested"]
          /\ srv' = srv /\ request' = request \cup {c} /\ got[c] \in 0 .. 2
        BY <1>6 DEF Request, Happens, OwnTypes
    <2>2. got[c] = 0
        BY <2>1 DEF ConnInv
    <2> QED BY <1>0, <2>1, <2>2 DEF ConnInv, Gone, OwnTypes
<1>7. ASSUME NEW c \in Conns, Finish(c)
      PROVE  ConnInv'
    <2>1. /\ cli[c] \in {"connected", "requested"} /\ got[c] \in 0 .. 2
          /\ got[c] > 0 \/ srv[c] = "closed"
          /\ cli' = [cli EXCEPT ![c] = "closed"] /\ UNCHANGED <<srv, request>>
        BY <1>7 DEF Finish, Happens, OwnTypes
    <2>2. c \notin request
        BY <2>1 DEF ConnInv, Gone
    <2> QED BY <1>0, <2>1, <2>2 DEF ConnInv, Gone, OwnTypes
<1>8. ASSUME NEW c \in Conns, Quit(c)
      PROVE  ConnInv'
    <2>1. PICK how \in Faults :
            /\ cli[c] \in QuitsFrom(how)
            /\ cli' = [cli EXCEPT ![c] = IF how = "reset" THEN "reset" ELSE "closed"]
        BY <1>8 DEF Quit
    <2>2. UNCHANGED <<srv, request>>
        BY <1>8 DEF Quit, Happens
    <2>3. CASE how = "reset"
        <3>1. cli[c] \in {"connected", "requested"} /\ cli' = [cli EXCEPT ![c] = "reset"]
            BY <2>1, <2>3 DEF QuitsFrom
        <3> QED BY <1>0, <2>2, <3>1 DEF ConnInv, Gone, OwnTypes
    <2>4. CASE how = "idle"
        <3>1. cli[c] = "connected" /\ cli' = [cli EXCEPT ![c] = "closed"]
            BY <2>1, <2>4 DEF QuitsFrom
        <3> QED BY <1>0, <2>2, <3>1 DEF ConnInv, Gone, OwnTypes
    <2> QED BY <2>3, <2>4, ServerAssumption DEF Orderly
<1> QED BY <1>1, <1>2, <1>3, <1>4, <1>5, <1>6, <1>7, <1>8 DEF CalmStep

LEMMA CalmPlaces ==
    ASSUME OwnTypes, PlaceInv, CalmStep
    PROVE  PlaceInv'
<1>1. /\ UNCHANGED <<flag, event, ppc, pev, wpc, wev, task>>
      /\ (Pushing' <=> Pushing) /\ \A w \in Threads : Holding(w)' <=> Holding(w)
    BY CalmFrame DEF Pushing, Holding
<1>2. /\ cur' # Listener <=> epc' = "modify"
      /\ epc' # "modify" => ppc = "out"
      /\ Pushing => pev[1] = cur'
    <2>1. CASE ModifyIn
        BY <2>1 DEF ModifyIn, Pushing
    <2>2. CASE Wait \/ DispatchEnd \/ HandleListener \/ AcceptEnd
        BY <2>2 DEF Wait, DispatchEnd, HandleListener, Dispatch, AcceptEnd, PlaceInv
    <2>3. CASE \/ \E fd \in Fds : HandleErr(fd) \/ HandleRequest(fd) \/ HandleNoRequest(fd)
                                  \/ \E c \in Conns : Accept(c, fd)
               \/ \E c \in Conns : Connect(c) \/ Request(c) \/ Finish(c) \/ Quit(c)
        <3>1. UNCHANGED <<epc, cur>>
            BY <2>3 DEF HandleErr, HandleRequest, HandleNoRequest, Accept, Connect, Request,
                        Finish, Quit, Happens, epollVars
        <3> QED BY <3>1 DEF PlaceInv
    <2> QED BY <2>1, <2>2, <2>3 DEF CalmStep
<1> QED BY <1>1, <1>2 DEF PlaceInv

\* An event to read is not stale: its connection has a request or was closed.
ToRead(fd) == owner[fd] \in request \/ (owner[fd] \in Conns /\ cli[owner[fd]] = "closed")

LEMMA ToReadKept ==
    ASSUME OwnTypes, FdInv, BatchInv, CalmStep,
           NEW fd \in Fds, <<fd, "IN">> \in batch, <<fd, "IN">> \in batch'
    PROVE  ToRead(fd)'
<1>0. ToRead(fd) /\ owner[fd] \in Conns /\ owner[fd] # NoConn
    BY ServerAssumption DEF BatchInv, ToRead, OwnTypes
<1>1. CASE \/ Wait \/ DispatchEnd \/ HandleListener \/ AcceptEnd \/ ModifyIn
           \/ \E g \in Fds : HandleErr(g)
    <2>1. UNCHANGED <<owner, cli, request>>
        BY <1>1 DEF Wait, DispatchEnd, HandleListener, AcceptEnd, ModifyIn, HandleErr,
                    kernelVars, clientVars
    <2> QED BY <1>0, <2>1 DEF ToRead
<1>2. ASSUME NEW g \in Fds, HandleRequest(g)
      PROVE  ToRead(fd)'
    <2>1. /\ <<g, "IN">> \in batch /\ <<g, "IN">> \notin batch' /\ owner[g] \in request
          /\ request' = request \ {owner[g]} /\ UNCHANGED <<owner, cli>>
        BY <1>2 DEF HandleRequest, Dispatch
    <2>2. g # fd
        BY <2>1
    <2>3. owner[g] # owner[fd]
        BY <1>0, <2>2 DEF FdInv
    <2> QED BY <1>0, <2>1, <2>3 DEF ToRead
<1>3. ASSUME NEW g \in Fds, HandleNoRequest(g)
      PROVE  ToRead(fd)'
    <2>1. Close(g) /\ <<g, "IN">> \notin batch' /\ UNCHANGED <<cli, request>>
        BY <1>3 DEF HandleNoRequest, Dispatch, clientVars
    <2>2. owner'[fd] = owner[fd]
        BY <2>1, CloseOne
    <2> QED BY <1>0, <2>1, <2>2 DEF ToRead
<1>4. ASSUME NEW g \in Fds, NEW c \in Conns, Accept(c, g)
      PROVE  ToRead(fd)'
    <2>1. owner[g] = NoConn /\ owner' = [owner EXCEPT ![g] = c] /\ UNCHANGED <<cli, request>>
        BY <1>4 DEF Accept, clientVars
    <2>2. owner'[fd] = owner[fd]
        BY <1>0, <2>1 DEF OwnTypes
    <2> QED BY <1>0, <2>1, <2>2 DEF ToRead
<1>5. ASSUME NEW c \in Conns, Connect(c) \/ Request(c) \/ Finish(c) \/ Quit(c)
      PROVE  ToRead(fd)'
    <2>1. owner' = owner /\ request \subseteq request'
        BY <1>5 DEF Connect, Request, Finish, Quit, Happens
    <2>2. cli[owner[fd]] = "closed" => cli'[owner[fd]] = "closed"
        <3>1. CASE c = owner[fd]
            <4>1. cli[c] \in {"new", "connected", "requested"}
                BY <1>5, ServerAssumption DEF Connect, Request, Finish, Quit, QuitsFrom
            <4> QED BY <3>1, <4>1
        <3>2. CASE c # owner[fd]
            BY <1>0, <1>5, <3>2 DEF Connect, Request, Finish, Quit, OwnTypes
        <3> QED BY <3>1, <3>2
    <2> QED BY <1>0, <2>1, <2>2 DEF ToRead
<1> QED BY <1>1, <1>2, <1>3, <1>4, <1>5 DEF CalmStep

LEMMA CalmBatch ==
    ASSUME Orderly, OwnTypes, FdInv, ConnInv, BatchInv, PlaceInv, CalmStep
    PROVE  BatchInv'
<1>0. \A fd \in Fds : fd # Listener
    BY DEF Fds, Listener
<1>1. CASE Wait
    <2>1. /\ epc' = "dispatch" /\ cur = Listener
          /\ batch' = {<<fd, Kind(fd)>> : fd \in {g \in ready \ {Listener} : Kind(g) # "none"}}
                      \cup {<<fd, "IN">> : fd \in ready \cap {Listener}}
          /\ UNCHANGED <<owner, interest, cli, request, got, flowsSize, cur>>
        BY <1>1, CalmFrame DEF Wait, PlaceInv, clientVars
    <2>2. \A e, f \in batch' : e[1] = f[1] => e = f
        BY <2>1
    <2>3. \A fd \in Fds : /\ <<fd, "OUT">> \in batch' => Kind(fd) = "OUT"
                          /\ <<fd, "IN">> \in batch' => Kind(fd) = "IN"
        BY <1>0, <2>1
    <2>4. \A fd \in Fds : Kind(fd) = "OUT" => interest[fd] = "OUT"
        BY DEF Kind, OwnTypes
    <2>5. \A fd \in Fds : Kind(fd) = "IN" => ToRead(fd)
        BY DEF Kind, ToRead, FdInv, OwnTypes, Sizes
    <2>6. \A fd \in Fds : interest[fd] = "OUT" => Waits(fd, flowsSize[fd])
        BY <1>0, <2>1 DEF BatchInv
    <2> QED BY <2>1, <2>2, <2>3, <2>4, <2>5, <2>6 DEF BatchInv, Waits, ToRead
<1>2. ASSUME NEW g \in Fds, HandleRequest(g)
      PROVE  BatchInv'
    <2>1. /\ epc = "dispatch" /\ <<g, "IN">> \in batch /\ batch' = batch \ {<<g, "IN">>}
          /\ UNCHANGED <<epc, cur, owner, cli, got>>
          /\ owner[g] \in request /\ request' = request \ {owner[g]}
          /\ flowsSize' = [flowsSize EXCEPT ![g] = owner[g]]
          /\ \A fd \in Fds : interest'[fd] = "OUT" => fd = g \/ interest[fd] = "OUT"
        BY <1>2, CalmFrame DEF HandleRequest, Dispatch, Modify, OwnTypes
    <2>2. \A e \in batch' : e[1] # g
        BY <2>1 DEF BatchInv
    <2>3. Waits(g, flowsSize[g])'
        BY <2>1 DEF ConnInv, Waits, OwnTypes
    <2>4. ASSUME NEW fd \in Fds, fd # g
          PROVE  /\ <<fd, "OUT">> \in batch' => Waits(fd, flowsSize[fd])'
                 /\ interest'[fd] = "OUT" => fd = cur' \/ Waits(fd, flowsSize[fd])'
        <3>1. flowsSize'[fd] = flowsSize[fd]
            BY <2>1, <2>4 DEF OwnTypes
        <3>2. PICK c \in Sizes : c = flowsSize[fd]
            BY DEF OwnTypes
        <3>3. Waits(fd, c) => Waits(fd, c)'
            BY WaitsKept
        <3>4. Waits(fd, flowsSize[fd]) => Waits(fd, flowsSize[fd])'
            BY <3>1, <3>2, <3>3 DEF Waits
        <3> QED BY <2>1, <2>4, <3>4 DEF BatchInv
    <2>5. \A fd \in Fds : <<fd, "IN">> \in batch' => ToRead(fd)'
        BY <2>1, ToReadKept
    <2>6. \A e, f \in batch' : e[1] = f[1] => e = f
        BY <2>1 DEF BatchInv
    <2>7. \A fd \in Fds :
              /\ <<fd, "OUT">> \in batch' => Waits(fd, flowsSize[fd])'
              /\ interest'[fd] = "OUT" => fd = cur' \/ Waits(fd, flowsSize[fd])'
        BY <2>2, <2>3, <2>4
    <2> QED BY <2>1, <2>5, <2>6, <2>7 DEF BatchInv, ToRead
<1>3. ASSUME batch' \subseteq batch, batch' = {} \/ epc' # "wait", flowsSize' = flowsSize,
             \A fd \in Fds : interest'[fd] = "OUT" => interest[fd] = "OUT" /\ (fd = cur => fd = cur')
      PROVE  BatchInv'
    <2>1. ASSUME NEW fd \in Fds
          PROVE  Waits(fd, flowsSize[fd]) => Waits(fd, flowsSize[fd])'
        <3>1. PICK c \in Sizes : c = flowsSize[fd]
            BY DEF OwnTypes
        <3>2. Waits(fd, c) => Waits(fd, c)'
            BY WaitsKept
        <3> QED BY <1>3, <3>1, <3>2 DEF Waits
    <2>2. \A fd \in Fds : <<fd, "IN">> \in batch' => ToRead(fd)'
        BY <1>3, ToReadKept
    <2>3. \A fd \in Fds :
              /\ <<fd, "OUT">> \in batch' => Waits(fd, flowsSize[fd])'
              /\ interest'[fd] = "OUT" => fd = cur' \/ Waits(fd, flowsSize[fd])'
        BY <1>3, <2>1 DEF BatchInv
    <2>4. \A e, f \in batch' : e[1] = f[1] => e = f
        BY <1>3 DEF BatchInv
    <2> QED BY <1>3, <2>2, <2>3, <2>4 DEF BatchInv, ToRead
<1>4. CASE DispatchEnd \/ HandleListener \/ AcceptEnd
    BY <1>3, <1>4 DEF DispatchEnd, HandleListener, Dispatch, AcceptEnd, kernelVars
<1>5. CASE ModifyIn
    <2>1. \A fd \in Fds : interest'[fd] = "OUT" => interest[fd] = "OUT" /\ fd # cur
        BY <1>5 DEF ModifyIn, Modify, OwnTypes
    <2> QED BY <1>3, <1>5, <2>1 DEF ModifyIn
<1>6. ASSUME NEW g \in Fds, HandleErr(g) \/ HandleNoRequest(g)
      PROVE  BatchInv'
    <2>1. Delete(g) /\ batch' \subseteq batch /\ epc = "dispatch" /\ UNCHANGED <<epc, cur, flowsSize>>
        BY <1>6 DEF HandleErr, HandleNoRequest, Dispatch, Close
    <2>2. \A fd \in Fds : interest'[fd] = "OUT" => interest[fd] = "OUT"
        BY <2>1 DEF Delete, OwnTypes
    <2> QED BY <1>3, <2>1, <2>2
<1>7. ASSUME NEW g \in Fds, NEW c \in Conns, Accept(c, g)
      PROVE  BatchInv'
    <2>1. /\ UNCHANGED <<epc, batch, cur, flowsSize>> /\ epc = "accept"
          /\ interest' = [interest EXCEPT ![g] = "IN"]
        BY <1>7 DEF Accept, epollVars
    <2> QED BY <1>3, <2>1 DEF OwnTypes
<1>8. ASSUME NEW c \in Conns, Connect(c) \/ Request(c) \/ Finish(c) \/ Quit(c)
      PROVE  BatchInv'
    <2>1. UNCHANGED <<epc, batch, cur, flowsSize, interest>>
        BY <1>8 DEF Connect, Request, Finish, Quit, Happens, epollVars
    <2> QED BY <1>3, <2>1 DEF BatchInv
<1> QED BY <1>1, <1>2, <1>4, <1>5, <1>6, <1>7, <1>8 DEF CalmStep

-----------------------------------------------------------------------------
(* The push.                                                                *)

\* The fds of the events in the slots are fds.
LEMMA HeldFds ==
    ASSUME SlotInv
    PROVE  /\ \A w \in Threads : Holding(w) => event[w][1] \in Fds /\ event[w][2] \in Sizes
           /\ Pushing => pev[1] \in Fds /\ pev[2] \in Sizes
           /\ \A fd \in Fds : fd # Listener
BY DEF SlotInv, Holding, Pushing, Fds, Listener

\* The event that starts a push is that of a connection that waits, and no
\* slot holds its fd.
LEMMA PushStarts ==
    ASSUME OwnTypes, SlotInv, PipeInv, NEW fd \in Fds, HandleOut(fd)
    PROVE  PipeInv'
<1> USE DEF PipeInv
<1>1. /\ epc = "dispatch" /\ epc' = "modify" /\ cur' = fd
      /\ <<fd, "OUT">> \in batch /\ batch' = batch \ {<<fd, "OUT">>}
      /\ ppc = "out" /\ ppc' = "scan" /\ pev' = <<fd, flowsSize[fd]>>
      /\ UNCHANGED <<flag, event, wpc, wev, task, flowsSize, owner, interest, srv, cli, request,
                     got, misled>>
    BY DEF HandleOut, Dispatch, P!PushCall, kernelVars, clientVars, answerVars
<1>2. cur = Listener /\ ~Pushing /\ Pushing'
    BY <1>1 DEF PlaceInv, Pushing
<1>3. Waits(fd, flowsSize[fd]) /\ \A e \in batch' : e[1] # fd
    BY <1>1 DEF BatchInv
<1>4. \A w \in Threads : (Holding(w)' <=> Holding(w)) /\ (Holding(w) => event[w][1] # fd)
    <2>1. \A w \in Threads : Holding(w)' <=> Holding(w)
        BY <1>1 DEF Holding
    <2>2. \A w \in Threads : Holding(w) => <<event[w][1], "OUT">> \notin batch
        BY DEF CarryInv, Handed
    <2> QED BY <1>1, <2>1, <2>2
<1>5. FdInv' /\ ConnInv'
    BY <1>1 DEF FdInv, ConnInv, Gone
<1>6. BatchInv'
    <2>1. \A g \in Fds : interest[g] = "OUT" => Waits(g, flowsSize[g])
        BY <1>2, HeldFds DEF BatchInv
    <2> QED BY <1>1, <2>1 DEF BatchInv, Waits
<1>7. PlaceInv'
    BY <1>1, <1>2, <1>4, HeldFds DEF PlaceInv
<1>8. CarryInv'
    <2>1. Waits(pev[1], pev[2])'
        BY <1>1, <1>3 DEF Waits
    <2>2. Handed(pev[1])'
        BY <1>1, <1>3 DEF Handed
    <2>3. \A g \in Fds : Handed(g) => Handed(g)'
        BY <1>1, <1>2, HeldFds DEF Handed
    <2>4. \A w \in Threads : Holding(w)' => Handed(event[w][1])'
        <3> SUFFICES ASSUME NEW w \in Threads, Holding(w)'
                     PROVE  Handed(event[w][1])'
            OBVIOUS
        <3>1. Handed(event[w][1]) /\ event[w][1] \in Fds
            BY <1>4, HeldFds DEF CarryInv
        <3> QED BY <1>1, <1>2, <3>1, HeldFds DEF Handed
    <2>5. \A w \in Threads : Holding(w)' =>
              /\ task'[w] = "write" => Waits(event[w][1], event[w][2])'
              /\ task'[w] \in {"errclose", "delete", "close"} =>
                    owner'[event'[w][1]] = NoConn
                      \/ (owner'[event'[w][1]] \in Conns /\ Gone(owner[event[w][1]])')
        BY <1>1, <1>4 DEF CarryInv, Waits, Gone
    <2> QED BY <2>1, <2>2, <2>4, <2>5 DEF CarryInv
<1> QED BY <1>5, <1>6, <1>7, <1>8

\* The push hands the event to an idle slot.
LEMMA PushGoesOn ==
    ASSUME Orderly, OwnTypes, SlotInv, PipeInv, PushStep
    PROVE  PipeInv'
<1> USE DEF PipeInv
<1>1. /\ UNCHANGED <<epc, batch, cur, task, flowsSize, owner, interest, srv, cli, request,
                     got, misled>>
      /\ P!Push
    BY DEF PushStep, epollVars, kernelVars, clientVars, answerVars
<1>2. FdInv' /\ ConnInv' /\ BatchInv'
    BY <1>1 DEF FdInv, ConnInv, Gone, BatchInv, Waits
<1>3. \A fd : (Handed(fd)' <=> Handed(fd)) /\ \A c : Waits(fd, c)' <=> Waits(fd, c)
    BY <1>1 DEF Handed, Waits
<1>4. \A c : Gone(c)' <=> Gone(c)
    BY <1>1 DEF Gone
<1>5. CASE Pushing /\ ppc' \in {"scan", "store", "exited"}
           /\ UNCHANGED <<flag, event, wpc, wev, pev>>
    <2>1. \A w \in Threads : Holding(w)' <=> Holding(w)
        BY <1>1, <1>5 DEF Holding
    <2>2. PlaceInv'
        BY <1>1, <1>5, <2>1 DEF PlaceInv, Pushing
    <2>3. CarryInv'
        <3>1. Waits(pev[1], pev[2])' /\ Handed(pev[1])'
            BY <1>1, <1>5 DEF CarryInv, Waits, Handed
        <3>2. ASSUME NEW w \in Threads, Holding(w)
              PROVE  /\ Handed(event[w][1])'
                     /\ task'[w] = "write" => Waits(event[w][1], event[w][2])'
                     /\ task'[w] \in {"errclose", "delete", "close"} =>
                           owner'[event'[w][1]] = NoConn
                             \/ (owner'[event'[w][1]] \in Conns /\ Gone(owner[event[w][1]])')
            BY <1>1, <1>5, <3>2 DEF CarryInv, Handed, Waits, Gone
        <3> QED BY <2>1, <3>1, <3>2 DEF CarryInv
    <2> QED BY <1>2, <2>2, <2>3
<1>6. CASE /\ Pushing /\ ppc' = "out" /\ slot \in Threads /\ flag[slot] = "IDLE"
           /\ flag' = [flag EXCEPT ![slot] = "BUSY"]
           /\ event' = [event EXCEPT ![slot] = pev]
           /\ wev' = wev
           /\ \A w \in Threads : wpc'[w] = "serving" <=> wpc[w] = "serving"
    <2>0. Threads \subseteq P!Slots
        BY SameThreads
    <2>1. /\ ~Pushing' /\ wpc[slot] # "serving" /\ task[slot] = "write" /\ ~Holding(slot)
          /\ (\A w \in Threads : w = slot => Holding(w)') /\ event'[slot] = pev
        <3>1. slot \in P!Slots /\ flag[slot] # "BUSY" /\ wpc[slot] # "serving"
            BY <1>6, <2>0 DEF SlotInv
        <3>2. task[slot] = "write"
            BY <1>6, <3>1 DEF PlaceInv
        <3>3. flag'[slot] = "BUSY" /\ event'[slot] = pev
            BY <1>6, <3>1 DEF SlotInv
        <3>4. \A w \in Threads : w = slot => flag'[w] = "BUSY" /\ task'[w] = "write"
            BY <1>1, <3>2, <3>3
        <3>5. ~Pushing' /\ ~Holding(slot)
            BY <1>6, <3>1 DEF Pushing, Holding
        <3> QED BY <1>6, <3>1, <3>2, <3>3, <3>4, <3>5 DEF Holding
    <2>2. \A w \in Threads : w # slot =>
              /\ Holding(w)' <=> Holding(w)
              /\ event'[w] = event[w]
        BY <1>1, <1>6, <2>0 DEF SlotInv, Holding
    <2>3. \A w \in Threads : w # slot /\ Holding(w) => event[w][1] # pev[1]
        BY <1>6 DEF PlaceInv
    <2>4. PlaceInv'
        <3>1. \A w \in Threads : IF wpc'[w] = "serving" THEN wev'[w] = event'[w]
                                                       ELSE task'[w] = "write"
            BY <1>1, <1>6, <2>1, <2>2 DEF PlaceInv
        <3>2. \A v, w \in Threads :
                  Holding(v)' /\ Holding(w)' /\ event'[v][1] = event'[w][1] => v = w
            BY <2>1, <2>2, <2>3 DEF PlaceInv
        <3> QED BY <1>1, <1>6, <2>1, <3>1, <3>2 DEF PlaceInv
    <2>5. CarryInv'
        <3>1. ASSUME NEW w \in Threads, w # slot, Holding(w)
              PROVE  /\ Handed(event[w][1])'
                     /\ task'[w] = "write" => Waits(event[w][1], event[w][2])'
                     /\ task'[w] \in {"errclose", "delete", "close"} =>
                           owner'[event'[w][1]] = NoConn
                             \/ (owner'[event'[w][1]] \in Conns /\ Gone(owner[event[w][1]])')
            BY <1>1, <2>2, <3>1 DEF CarryInv, Handed, Waits, Gone
        <3>2. ASSUME NEW w \in Threads, w = slot
              PROVE  /\ Handed(event[w][1])' /\ Waits(event[w][1], event[w][2])'
                     /\ task'[w] = "write"
            <4>1. Waits(pev[1], pev[2]) /\ Handed(pev[1])
                BY <1>6 DEF CarryInv
            <4>2. event'[w] = pev /\ task'[w] = "write"
                BY <1>1, <2>1, <3>2
            <4> QED BY <1>1, <4>1, <4>2 DEF Handed, Waits
        <3> QED BY <1>1, <2>1, <2>2, <3>1, <3>2 DEF CarryInv
    <2> QED BY <1>2, <2>4, <2>5
<1> QED BY <1>1, <1>5, <1>6, PushKinds

-----------------------------------------------------------------------------
(* The workers.                                                             *)

\* A worker that has not closed its fd yet holds it, and what the push promised
\* of the event still holds.
LEMMA WorkerHolds ==
    ASSUME OwnTypes, SlotInv, PlaceInv, CarryInv,
           NEW w \in Threads, NEW step, At(w, step), step # "release"
    PROVE  /\ Holding(w) /\ wpc[w] = "serving" /\ wev[w] = event[w]
           /\ WorkerFd(w) = event[w][1] /\ WorkerFd(w) \in Fds
           /\ Handed(WorkerFd(w))
           /\ step = "write" => Waits(WorkerFd(w), wev[w][2])
           /\ step \in {"errclose", "delete", "close"} =>
                 owner[WorkerFd(w)] = NoConn
                   \/ (owner[WorkerFd(w)] \in Conns /\ Gone(owner[WorkerFd(w)]))
<1>1. wpc[w] = "serving" /\ task[w] = step
    BY DEF At
<1>2. wev[w] = event[w] /\ Holding(w)
    BY <1>1 DEF SlotInv, PlaceInv, Holding
<1>3. WorkerFd(w) = event[w][1] /\ WorkerFd(w) \in Fds
    BY <1>2, HeldFds DEF WorkerFd
<1> QED BY <1>1, <1>2, <1>3 DEF CarryInv

\* Taking an event and giving the slot back touch no connection.
LEMMA WorkerPops ==
    ASSUME OwnTypes, SlotInv, PipeInv, NEW w \in Threads, Pop(w) \/ FreeSlot(w)
    PROVE  PipeInv'
<1> USE DEF PipeInv
<1>0. w \in P!Slots
    BY SameThreads
<1>1. /\ UNCHANGED <<epc, batch, cur, flowsSize, owner, interest, srv, cli, request, got, misled>>
      /\ UNCHANGED <<event, ppc, pev>>
    BY DEF Pop, FreeSlot, P!PopTake, P!PopWait, P!PopWoken, P!Take, P!Release, epollVars,
           kernelVars, clientVars, answerVars
<1>2. FdInv' /\ ConnInv' /\ BatchInv'
    BY <1>1 DEF FdInv, ConnInv, Gone, BatchInv, Waits
<1>3. \A v \in Threads : /\ Holding(v)' => Holding(v)
                         /\ task'[v] = task[v] \/ ~Holding(v)'
    <2>1. CASE Pop(w)
        BY <2>1 DEF Pop, P!PopTake, P!PopWait, P!PopWoken, P!Take, Holding
    <2>2. CASE FreeSlot(w)
        BY <1>0, <2>2 DEF FreeSlot, At, Go, P!Release, Holding, SlotInv
    <2> QED BY <2>1, <2>2
<1>4. \A v \in Threads : IF wpc'[v] = "serving" THEN wev'[v] = event'[v] ELSE task'[v] = "write"
    <2>1. CASE Pop(w)
        BY <2>1 DEF Pop, P!PopTake, P!PopWait, P!PopWoken, P!Take, SlotInv, PlaceInv
    <2>2. CASE FreeSlot(w)
        BY <2>2 DEF FreeSlot, At, Go, P!Release, OwnTypes, SlotInv, PlaceInv
    <2> QED BY <2>1, <2>2
<1>5. PlaceInv'
    BY <1>1, <1>3, <1>4 DEF PlaceInv, Pushing
<1>6. CarryInv'
    <2>1. Pushing' => Waits(pev[1], pev[2])' /\ Handed(pev[1])'
        BY <1>1 DEF CarryInv, Pushing, Waits, Handed
    <2>2. ASSUME NEW v \in Threads, Holding(v)'
          PROVE  /\ Handed(event[v][1])'
                 /\ task'[v] = "write" => Waits(event[v][1], event[v][2])'
                 /\ task'[v] \in {"errclose", "delete", "close"} =>
                       owner'[event'[v][1]] = NoConn
                         \/ (owner'[event'[v][1]] \in Conns /\ Gone(owner[event[v][1]])')
        <3>1. Holding(v) /\ task'[v] = task[v]
            BY <1>3, <2>2
        <3> QED BY <1>1, <3>1 DEF CarryInv, Handed, Waits, Gone
    <2> QED BY <2>1, <2>2 DEF CarryInv
<1> QED BY <1>2, <1>5, <1>6

\* While a worker serves fd it changes nothing that another thread relies on.
LEMMA WorkerFrame ==
    ASSUME OwnTypes, SlotInv, FdInv, BatchInv, PlaceInv, CarryInv,
           NEW w \in Threads, NEW fd \in Fds, NEW step,
           Holding(w), wpc[w] = "serving", event[w][1] = fd,
           UNCHANGED <<flag, event, ppc, pev, wpc, wev, epc, batch, cur, flowsSize, cli, request>>,
           task' = [task EXCEPT ![w] = step], step # "write",
           \A g \in Fds : g # fd => owner'[g] = owner[g] /\ interest'[g] = interest[g],
           interest'[fd] = "OUT" => interest[fd] = "OUT",
           \A c \in Conns : (c # owner[fd] => got'[c] = got[c]) /\ (Gone(c) => Gone(c)'),
           step \in {"errclose", "delete", "close"} =>
               owner'[fd] = NoConn \/ (owner'[fd] \in Conns /\ Gone(owner[fd])')
    PROVE  BatchInv' /\ PlaceInv' /\ CarryInv'
<1>1. \A g \in Fds : Handed(g) => Handed(g)'
    BY DEF Handed
<1>2. ASSUME NEW g \in Fds, g # fd, NEW c \in Sizes, Waits(g, c)
      PROVE  Waits(g, c)'
    <2>1. c # owner[fd]
        BY <1>2, ServerAssumption DEF Waits, FdInv
    <2> QED BY <1>2, <2>1 DEF Waits
<1>3. Handed(fd) /\ fd # Listener
    BY HeldFds DEF CarryInv
<1>4. /\ Pushing' <=> Pushing
      /\ \A v \in Threads : /\ Holding(v)' => Holding(v)
                            /\ v # w => task'[v] = task[v]
                            /\ v = w => task'[v] = step
    BY DEF Pushing, Holding, OwnTypes
<1>5. BatchInv'
    <2>1. ASSUME NEW g \in Fds
          PROVE  /\ <<g, "OUT">> \in batch => Waits(g, flowsSize[g])'
                 /\ interest'[g] = "OUT" => g = cur \/ Waits(g, flowsSize[g])'
                 /\ <<g, "IN">> \in batch => ToRead(g)'
        <3>1. CASE g = fd
            BY <1>3, <3>1 DEF Handed
        <3>2. CASE g # fd
            <4>1. PICK c \in Sizes : c = flowsSize[g]
                BY DEF OwnTypes
            <4>2. Waits(g, c) => Waits(g, c)'
                BY <1>2, <3>2
            <4>3. Waits(g, flowsSize[g]) => Waits(g, flowsSize[g])'
                BY <4>1, <4>2 DEF Waits
            <4> QED BY <3>2, <4>3 DEF BatchInv, ToRead
        <3> QED BY <3>1, <3>2
    <2> QED BY <2>1 DEF BatchInv, ToRead
<1>6. PlaceInv'
    <2>1. \A v \in Threads : IF wpc'[v] = "serving" THEN wev'[v] = event'[v] ELSE task'[v] = "write"
        BY <1>4 DEF PlaceInv
    <2> QED BY <1>4, <2>1 DEF PlaceInv
<1>7. CarryInv'
    <2>1. Pushing => Waits(pev[1], pev[2])' /\ Handed(pev[1])'
        <3> SUFFICES ASSUME Pushing
                     PROVE  Waits(pev[1], pev[2])' /\ Handed(pev[1])'
            OBVIOUS
        <3>1. /\ pev[1] \in Fds /\ pev[2] \in Sizes /\ pev[1] # fd
              /\ Waits(pev[1], pev[2]) /\ Handed(pev[1])
            BY HeldFds DEF PlaceInv, CarryInv
        <3>2. PICK g \in Fds, c \in Sizes : g = pev[1] /\ c = pev[2]
            BY <3>1
        <3>3. Waits(g, c)' /\ Handed(g)'
            BY <1>1, <1>2, <3>1, <3>2
        <3> QED BY <3>2, <3>3 DEF Waits, Handed
    <2>2. ASSUME NEW v \in Threads, Holding(v), v # w
          PROVE  /\ Handed(event[v][1])'
                 /\ task'[v] = "write" => Waits(event[v][1], event[v][2])'
                 /\ task'[v] \in {"errclose", "delete", "close"} =>
                       owner'[event'[v][1]] = NoConn
                         \/ (owner'[event'[v][1]] \in Conns /\ Gone(owner[event[v][1]])')
        <3>1. /\ event[v][1] \in Fds /\ event[v][2] \in Sizes /\ event[v][1] # fd
              /\ Handed(event[v][1]) /\ task'[v] = task[v]
            BY <1>4, <2>2, HeldFds DEF PlaceInv, CarryInv
        <3>2. PICK g \in Fds, c \in Sizes : g = event[v][1] /\ c = event[v][2]
            BY <3>1
        <3>3. /\ Handed(g)' /\ owner'[g] = owner[g] /\ (Waits(g, c) => Waits(g, c)')
              /\ task[v] = "write" => Waits(g, c)
              /\ task[v] \in {"errclose", "delete", "close"} =>
                    owner[g] = NoConn \/ (owner[g] \in Conns /\ Gone(owner[g]))
            BY <1>1, <1>2, <2>2, <3>1, <3>2 DEF CarryInv
        <3>4. PICK d \in Sizes : d = owner[g]
            BY DEF OwnTypes
        <3>5. d \in Conns /\ Gone(d) => Gone(d)'
            OBVIOUS
        <3>6. Gone(d)' => Gone(owner[g])'
            BY <3>3, <3>4 DEF Gone
        <3>7. event'[v] = event[v]
            OBVIOUS
        <3>8. Gone(owner[g])' => Gone(owner[event[v][1]])'
            BY <3>2, <3>7 DEF Gone
        <3>9. /\ Handed(g)' => Handed(event[v][1])'
              /\ Waits(g, c)' => Waits(event[v][1], event[v][2])'
            BY <3>2, <3>7 DEF Handed, Waits
        <3> QED BY <3>1, <3>2, <3>3, <3>4, <3>5, <3>6, <3>7, <3>8, <3>9
    <2>3. ASSUME NEW v \in Threads, Holding(v)', v = w
          PROVE  /\ Handed(event[v][1])' /\ task'[v] = step
                 /\ step \in {"errclose", "delete", "close"} =>
                       owner'[event'[v][1]] = NoConn
                         \/ (owner'[event'[v][1]] \in Conns /\ Gone(owner[event[v][1]])')
        <3>1. event'[v] = event[v] /\ event[v][1] = fd /\ Handed(fd)'
            BY <1>1, <1>3, <2>3
        <3> QED BY <1>4, <2>3, <3>1 DEF Handed, Gone
    <2> QED BY <1>4, <2>1, <2>2, <2>3 DEF CarryInv
<1> QED BY <1>5, <1>6, <1>7

\* What a worker does with its fd keeps the pipe.
LEMMA WorkerServes ==
    ASSUME OwnTypes, SlotInv, PipeInv, NEW w \in Threads,
           \/ WriteAll(w) \/ WriteFails(w) \/ WriteKills(w)
           \/ ErrClose(w) \/ DeleteEvent(w) \/ CloseFd(w)
    PROVE  PipeInv'
<1> USE DEF PipeInv
<1>1. CASE WriteAll(w)
    <2>1. /\ At(w, "write") /\ task' = [task EXCEPT ![w] = "delete"]
          /\ got' = [got EXCEPT ![Peer(w)] = IF @ < 2 THEN @ + 1 ELSE 2]
          /\ misled' = IF wev[w][2] = Peer(w) THEN misled ELSE misled \cup {Peer(w)}
          /\ UNCHANGED <<flag, event, ppc, pev, wpc, wev, epc, batch, cur, flowsSize, owner,
                         interest, srv, cli, request>>
        BY <1>1 DEF WriteAll, Go, pollVars, epollVars, kernelVars, clientVars
    <2>2. PICK fd \in Fds, c \in Sizes : fd = WorkerFd(w) /\ c = wev[w][2]
        BY <2>1, WorkerHolds, HeldFds
    <2>3. /\ Holding(w) /\ wpc[w] = "serving" /\ event[w][1] = fd
          /\ Waits(fd, c) /\ Peer(w) = c /\ c \in Conns
        BY <2>1, <2>2, WorkerHolds DEF Peer, Waits
    <2>4. got' = [got EXCEPT ![c] = 1] /\ misled' = misled
        <3>1. got[c] = 0
            BY <2>3 DEF Waits
        <3>2. got' = [got EXCEPT ![c] = IF got[c] < 2 THEN got[c] + 1 ELSE 2]
            BY <2>1, <2>3
        <3> QED BY <2>1, <2>2, <2>3, <3>1, <3>2
    <2>5. \A d \in Conns : got'[d] = IF d = c THEN 1 ELSE got[d]
        BY <2>3, <2>4 DEF OwnTypes
    <2>6. \A d \in Conns : Gone(d) => Gone(d)'
        BY <2>1, <2>5 DEF Gone
    <2>7. FdInv'
        BY <2>1 DEF FdInv
    <2>8. ConnInv'
        <3>1. c \notin request /\ cli[c] \in {"requested", "reset"}
            BY <2>3 DEF Waits
        <3> QED BY <2>1, <2>3, <2>4, <2>5, <2>6, <3>1 DEF ConnInv
    <2>9. BatchInv' /\ PlaceInv' /\ CarryInv'
        <3>1. owner[fd] = c
            BY <2>3 DEF Waits
        <3>2. owner'[fd] \in Conns /\ Gone(owner[fd])'
            BY <2>1, <2>3, <2>5, <3>1 DEF Gone
        <3> QED BY <2>1, <2>3, <2>5, <2>6, <3>1, <3>2, WorkerFrame
    <2> QED BY <2>7, <2>8, <2>9
<1>2. CASE WriteFails(w) \/ WriteKills(w)
    <2>1. PICK step \in {"errclose", "killed"} :
            /\ At(w, "write") /\ Broken(w) /\ task' = [task EXCEPT ![w] = step]
            /\ UNCHANGED <<flag, event, ppc, pev, wpc, wev, epc, batch, cur, flowsSize, owner,
                           interest, srv, cli, request, got, misled>>
        BY <1>2 DEF WriteFails, WriteKills, Go, pollVars, epollVars, kernelVars, clientVars,
                    answerVars
    <2>2. PICK fd \in Fds, c \in Sizes : fd = WorkerFd(w) /\ c = wev[w][2]
        BY <2>1, WorkerHolds, HeldFds
    <2>3. /\ Holding(w) /\ wpc[w] = "serving" /\ event[w][1] = fd
          /\ owner[fd] = c /\ c \in Conns /\ Peer(w) = c
        BY <2>1, <2>2, WorkerHolds DEF Peer, Waits
    <2>4. Gone(owner[fd])' /\ \A d \in Conns : Gone(d) => Gone(d)'
        BY <2>1, <2>3 DEF Broken, Gone
    <2>5. FdInv' /\ ConnInv'
        BY <2>1 DEF FdInv, ConnInv, Gone
    <2>6. BatchInv' /\ PlaceInv' /\ CarryInv'
        BY <2>1, <2>3, <2>4, WorkerFrame
    <2> QED BY <2>5, <2>6
<1>3. CASE ErrClose(w) \/ CloseFd(w)
    <2>1. PICK from \in {"errclose", "close"}, step \in {"delete", "release"} :
            /\ At(w, from) /\ Close(WorkerFd(w)) /\ task' = [task EXCEPT ![w] = step]
            /\ UNCHANGED <<flag, event, ppc, pev, wpc, wev, epc, batch, cur, flowsSize, cli,
                           request, got, misled>>
        BY <1>3 DEF ErrClose, CloseFd, Go, pollVars, epollVars, clientVars, answerVars
    <2>2. PICK fd \in Fds : fd = WorkerFd(w)
        BY <2>1, WorkerHolds
    <2>3. /\ Holding(w) /\ wpc[w] = "serving" /\ event[w][1] = fd /\ Close(fd)
          /\ owner[fd] = NoConn \/ Gone(owner[fd])
        BY <2>1, <2>2, WorkerHolds
    <2>4. /\ owner'[fd] = NoConn /\ interest'[fd] = "none"
          /\ \A g \in Fds : g # fd => owner'[g] = owner[g] /\ interest'[g] = interest[g]
        BY <2>3, CloseOne
    <2>5. \A d \in Conns : Gone(d) => Gone(d)'
        BY <2>1 DEF Gone
    <2>6. FdInv' /\ ConnInv'
        BY <2>1, <2>3, CloseFds, CloseConns
    <2>7. BatchInv' /\ PlaceInv' /\ CarryInv'
        BY <2>1, <2>3, <2>4, <2>5, WorkerFrame
    <2> QED BY <2>6, <2>7
<1>4. CASE DeleteEvent(w)
    <2>1. /\ At(w, "delete") /\ Delete(WorkerFd(w)) /\ task' = [task EXCEPT ![w] = "close"]
          /\ UNCHANGED <<flag, event, ppc, pev, wpc, wev, epc, batch, cur, flowsSize, owner, srv,
                         cli, request, got, misled>>
        BY <1>4 DEF DeleteEvent, Go, pollVars, epollVars, clientVars, answerVars
    <2>2. PICK fd \in Fds : fd = WorkerFd(w)
        BY <2>1, WorkerHolds
    <2>3. /\ Holding(w) /\ wpc[w] = "serving" /\ event[w][1] = fd
          /\ owner[fd] = NoConn \/ (owner[fd] \in Conns /\ Gone(owner[fd]))
          /\ interest' = [interest EXCEPT ![fd] = "none"]
        BY <2>1, <2>2, WorkerHolds DEF Delete
    <2>4. \A g \in Fds : interest'[g] = IF g = fd THEN "none" ELSE interest[g]
        BY <2>3 DEF OwnTypes
    <2>5. /\ Gone(owner[fd]) => Gone(owner[fd])'
          /\ \A d \in Conns : Gone(d) => Gone(d)'
        BY <2>1 DEF Gone
    <2>6. FdInv' /\ ConnInv'
        BY <2>1, <2>4 DEF FdInv, ConnInv, Gone
    <2>7. BatchInv' /\ PlaceInv' /\ CarryInv'
        <3>1. owner'[fd] = NoConn \/ (owner'[fd] \in Conns /\ Gone(owner[fd])')
            BY <2>1, <2>3, <2>5
        <3>2. /\ \A g \in Fds : g # fd => owner'[g] = owner[g] /\ interest'[g] = interest[g]
              /\ interest'[fd] = "OUT" => interest[fd] = "OUT"
              /\ \A c \in Conns : c # owner[fd] => got'[c] = got[c]
            BY <2>1, <2>4
        <3> QED BY <2>1, <2>3, <2>5, <3>1, <3>2, WorkerFrame
    <2> QED BY <2>6, <2>7
<1> QED BY <1>1, <1>2, <1>3, <1>4

-----------------------------------------------------------------------------
(* The whole server.                                                        *)

LEMMA ServeStarts == Init => PipeInv
<1> SUFFICES ASSUME Init
             PROVE  PipeInv
    OBVIOUS
<1>1. /\ ppc = "out" /\ \A w \in Threads : flag[w] = "IDLE" /\ wpc[w] = "pop" /\ task[w] = "write"
    <2>1. \A w \in Threads : w \in P!Slots /\ w < NumThreads
        BY SameThreads, ServerAssumption DEF Threads, P!Threads
    <2> QED BY <2>1 DEF Init, P!Init, P!Threads, Threads
<1>2. ~Pushing /\ \A w \in Threads : ~Holding(w)
    BY <1>1 DEF Pushing, Holding
<1>3. FdInv /\ ConnInv /\ BatchInv
    BY HeldFds DEF Init, FdInv, ConnInv, BatchInv, Listener, Fds
<1> QED BY <1>1, <1>2, <1>3 DEF Init, PipeInv, PlaceInv, CarryInv

LEMMA ServeStep ==
    ASSUME Orderly, ServeInv, [Next]_vars
    PROVE  ServeInv'
<1>1. TypesInv' /\ PP!PromptInv'
    BY SlotsStep, OwnTypesStep DEF TypesInv, ServeInv
<1>2. OwnTypes /\ SlotInv /\ PipeInv
    BY SlotFacts DEF TypesInv, ServeInv
<1>3. PipeInv'
    <2>1. CASE CalmStep
        BY <1>2, <2>1, CalmFds, CalmConns, CalmBatch, CalmPlaces, CalmCarry DEF PipeInv
    <2>2. CASE PushStep \/ \E fd \in Fds : HandleOut(fd)
        BY <1>2, <2>2, PushStarts, PushGoesOn
    <2>3. ASSUME NEW w \in Threads, WorkerStep(w)
          PROVE  PipeInv'
        BY <1>2, <2>3, WorkerPops, WorkerServes DEF WorkerStep
    <2>4. CASE UNCHANGED vars
        <3>1. UNCHANGED <<flag, event, ppc, pev, wpc, wev, epc, batch, cur, task, flowsSize, owner,
                          interest, srv, cli, request, got, misled>>
            BY <2>4 DEF vars, pollVars, epollVars, kernelVars, clientVars, answerVars
        <3> QED BY <1>2, <3>1 DEF PipeInv, FdInv, ConnInv, BatchInv, PlaceInv, CarryInv, Waits,
                                  Gone, Handed, Holding, Pushing
    <2> QED BY <2>1, <2>2, <2>3, <2>4 DEF Next, EpollStep, ClientStep, CalmStep
<1> QED BY <1>1, <1>3 DEF ServeInv

LEMMA ServeInvariant == ASSUME Orderly PROVE Spec => []ServeInv
<1>1. Init => ServeInv
    BY TypesInit, SlotsInit, ServeStarts DEF ServeInv
<1>2. ServeInv /\ [Next]_vars => ServeInv'
    BY ServeStep
<1> QED BY <1>1, <1>2, PTL DEF Spec

\* A client gets the response it asked for, and gets it once: the fd by which
\* epoll_server, flows_size and the slots name its connection is not given to
\* another one before the worker has written (server.c:39-50, 70-78).
THEOREM RightResponses == ASSUME Orderly PROVE Spec => []RightResponse
<1>1. ServeInv => RightResponse
    BY DEF ServeInv, TypesInv, OwnTypes, PipeInv, ConnInv, RightResponse
<1> QED BY <1>1, ServeInvariant, PTL

\* The two closes of a worker and the one of epoll_server hit only connections
\* whose client has its response or has gone (server.c:42, 73, 77).
THEOREM OwnCloses == ASSUME Orderly PROVE Spec => []ClosesOwnOnly
<1>1. ServeInv => ClosesOwnOnly
    BY DEF ServeInv, PipeInv, ConnInv, ClosesOwnOnly, Gone
<1> QED BY <1>1, ServeInvariant, PTL

-----------------------------------------------------------------------------
(* The server under the clients that FlowGenerator describes.               *)

GP == INSTANCE FlowGeneratorProofs WITH Flows <- Conns, stage <- [c \in Conns |-> StageOf(c)]

\* What the composition knows of itself without the server's invariants.
SysInv == \A c \in Conns : cli[c] # "reset"

LEMMA SysIsServer == SysSpec => Spec
<1>1. SysInit => Init
    BY DEF SysInit
<1>2. [SysNext]_sysVars => [Next]_vars
    BY DEF SysNext, sysVars, ServerMoves, Report, ClientMoves, Next
<1> QED BY <1>1, <1>2, PTL DEF SysSpec, Spec

\* A step that leaves the clients' ends alone changes no stage.
LEMMA StagesKept ==
    ASSUME cli' = cli
    PROVE  [c \in Conns |-> StageOf(c)]' = [c \in Conns |-> StageOf(c)]
BY DEF StageOf

\* The connections move through the stages as FlowGenerator allows.
LEMMA SysGenerates ==
    ASSUME OwnTypes, [SysNext]_sysVars
    PROVE  [GP!Next]_(GP!genVars)
<1>1. CASE ServerMoves
    <2>1. cli' = cli /\ reported' = reported
        BY <1>1 DEF ServerMoves, EpollStep, WorkerStep, Wait, DispatchEnd, HandleListener, AcceptEnd,
                    PushStep, ModifyIn, HandleErr, HandleRequest, HandleNoRequest, HandleOut, Accept,
                    Pop, WriteAll, WriteFails, WriteKills, ErrClose, DeleteEvent, CloseFd, FreeSlot,
                    clientVars
    <2> QED BY <2>1, StagesKept DEF GP!genVars
<1>2. CASE Report
    BY <1>2 DEF Report, G!Report, GP!Report, GP!Next, G!In, GP!In
<1>3. ASSUME NEW c \in Conns, ClientMoves(c)
      PROVE  [GP!Next]_(GP!genVars)
    <2>1. CASE cli[c] = "new" /\ UNCHANGED reported
        <3>1. cli' = [cli EXCEPT ![c] = "connected"]
            BY <1>3, <2>1, ServerAssumption DEF ClientMoves, ClientStep, Connect, Request, Finish,
                                                Quit, QuitsFrom
        <3>2. \A d \in Conns : StageOf(d)' = StageOf(d)
            BY <2>1, <3>1 DEF StageOf, OwnTypes
        <3> QED BY <2>1, <3>2 DEF GP!genVars
    <2>2. CASE G!Next
        BY <2>2 DEF G!Next, GP!Next, G!Report, GP!Report, G!Start, GP!Start, G!Finish, GP!Finish,
                    G!In, GP!In, G!Cardinality, GP!Cardinality
    <2> QED BY <1>3, <2>1, <2>2 DEF ClientMoves
<1>4. CASE UNCHANGED sysVars
    BY <1>4, StagesKept DEF sysVars, vars, clientVars, GP!genVars
<1> QED BY <1>1, <1>2, <1>3, <1>4 DEF SysNext

LEMMA SysStarts == SysInit => GP!Init /\ SysInv
<1> SUFFICES ASSUME SysInit
             PROVE  GP!Init /\ SysInv
    OBVIOUS
<1>1. \A c \in Conns : cli[c] = "new" /\ StageOf(c) = "waiting"
    BY DEF SysInit, Init, StageOf
<1> QED BY <1>1 DEF SysInit, GP!Init, SysInv

\* Nobody resets a connection if nobody may.
LEMMA SysInvStep ==
    ASSUME "reset" \notin Faults, OwnTypes, SysInv, [Next]_vars
    PROVE  SysInv'
<1>1. CASE EpollStep \/ (\E w \in Threads : WorkerStep(w)) \/ UNCHANGED vars
    <2>1. cli' = cli
        BY <1>1 DEF EpollStep, WorkerStep, Wait, DispatchEnd, HandleListener, AcceptEnd,
                    PushStep, ModifyIn, HandleErr, HandleRequest, HandleNoRequest, HandleOut, Accept,
                    Pop, WriteAll, WriteFails, WriteKills, ErrClose, DeleteEvent, CloseFd, FreeSlot,
                    clientVars, vars
    <2> QED BY <2>1 DEF SysInv
<1>2. ASSUME NEW c \in Conns, ClientStep(c)
      PROVE  SysInv'
    <2>1. PICK s \in {"connected", "requested", "closed"} : cli' = [cli EXCEPT ![c] = s]
        BY <1>2 DEF ClientStep, Connect, Request, Finish, Quit
    <2> QED BY <2>1 DEF SysInv, OwnTypes
<1> QED BY <1>1, <1>2 DEF Next

\* A set that maps one to one into a finite set is not larger.
LEMMA OneToOneBounds ==
    ASSUME NEW S, NEW T, IsFiniteSet(S), IsFiniteSet(T), NEW f \in [S -> T],
           \A x, y \in S : f[x] = f[y] => x = y
    PROVE  Cardinality(S) <= Cardinality(T)
<1>1. ~(Cardinality(T) < Cardinality(S))
    <2> SUFFICES ASSUME Cardinality(T) < Cardinality(S)
                 PROVE  FALSE
        OBVIOUS
    <2> QED BY FS_PigeonHole
<1>2. Cardinality(S) \in Nat /\ Cardinality(T) \in Nat
    BY FS_CardinalityType
<1> QED BY <1>1, <1>2

\* Workers that write do so for different connections, whose flows are active.
LEMMA WritersBounded ==
    ASSUME IsFiniteSet(Conns), Concurrent \in Nat, OwnTypes, SlotInv, PipeInv, SysInv,
           GP!AtMostConcurrent
    PROVE  LoadBounded
<1> DEFINE W == {w \in Threads : At(w, "write")}
           A == {c \in Conns : cli[c] = "requested"}
<1>1. Cardinality(A) <= Concurrent
    <2>1. GP!In("active") = A
        BY DEF GP!In, StageOf, OwnTypes
    <2>2. GP!Cardinality(A) = Cardinality(A)
        BY DEF GP!Cardinality, Cardinality
    <2> QED BY <2>1, <2>2 DEF GP!AtMostConcurrent
<1>2. IsFiniteSet(A) /\ IsFiniteSet(W)
    <2>1. IsFiniteSet(Threads)
        BY ServerAssumption, FS_Interval DEF Threads, P!Threads
    <2> QED BY <2>1, FS_Subset
<1>3. \A w \in W : Waits(WorkerFd(w), wev[w][2]) /\ Peer(w) \in A
    <2> SUFFICES ASSUME NEW w \in W
                 PROVE  Waits(WorkerFd(w), wev[w][2]) /\ Peer(w) \in A
        OBVIOUS
    <2>1. Waits(WorkerFd(w), wev[w][2])
        BY WorkerHolds DEF PipeInv
    <2> QED BY <2>1 DEF Waits, Peer, SysInv
<1>4. \A v, w \in W : Peer(v) = Peer(w) => v = w
    <2> SUFFICES ASSUME NEW v \in W, NEW w \in W, Peer(v) = Peer(w)
                 PROVE  v = w
        OBVIOUS
    <2>1. /\ Holding(v) /\ WorkerFd(v) = event[v][1] /\ WorkerFd(v) \in Fds
          /\ Holding(w) /\ WorkerFd(w) = event[w][1] /\ WorkerFd(w) \in Fds
        BY WorkerHolds DEF PipeInv
    <2>2. Peer(v) # NoConn
        BY <1>3, ServerAssumption
    <2>3. WorkerFd(v) = WorkerFd(w)
        BY <2>1, <2>2 DEF PipeInv, FdInv, Peer
    <2> QED BY <2>1, <2>3 DEF PipeInv, PlaceInv
<1>5. Cardinality(W) <= Cardinality(A)
    <2> DEFINE peer == [w \in W |-> Peer(w)]
    <2>1. peer \in [W -> A]
        BY <1>3
    <2>2. \A v, w \in W : peer[v] = peer[w] => v = w
        BY <1>4
    <2> HIDE DEF W, A, peer
    <2> QED BY <1>2, <2>1, <2>2, OneToOneBounds
<1>6. Cardinality(W) \in Nat /\ Cardinality(A) \in Nat
    BY <1>2, FS_CardinalityType
<1> QED BY <1>1, <1>5, <1>6 DEF LoadBounded

\* README.md:2: the client's limit holds in the server too: no more workers write
\* a response than the client has concurrent flows, if no client resets.
THEOREM LoadsBounded ==
    ASSUME Orderly, "reset" \notin Faults, IsFiniteSet(Conns), Concurrent \in Nat
    PROVE  SysSpec => []LoadBounded
<1>1. SysSpec => []ServeInv
    BY SysIsServer, ServeInvariant
<1>2. ServeInv => OwnTypes /\ SlotInv /\ PipeInv
    BY SlotFacts DEF ServeInv, TypesInv
<1>3. SysSpec => [](GP!AtMostConcurrent)
    <2>1. GP!Limits
        BY DEF GP!Limits, GP!IsFiniteSet, IsFiniteSet
    <2>2. GP!Spec => [](GP!AtMostConcurrent)
        BY <2>1, GP!ConcurrencyLimited
    <2>3. ServeInv /\ [SysNext]_sysVars => [GP!Next]_(GP!genVars)
        BY <1>2, SysGenerates
    <2>4. SysInit => GP!Init
        BY SysStarts
    <2> QED BY <1>1, <2>2, <2>3, <2>4, PTL DEF SysSpec, GP!Spec
<1>4. SysSpec => []SysInv
    <2>1. SysInit => SysInv
        BY SysStarts
    <2>2. ServeInv /\ SysInv /\ [Next]_vars => SysInv'
        BY <1>2, SysInvStep
    <2> QED BY <1>1, <2>1, <2>2, SysIsServer, PTL DEF SysSpec, Spec
<1>5. ServeInv /\ SysInv /\ GP!AtMostConcurrent => LoadBounded
    BY <1>2, WritersBounded
<1> QED BY <1>1, <1>3, <1>4, <1>5, PTL
=============================================================================
