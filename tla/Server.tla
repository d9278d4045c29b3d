------------------------------- MODULE Server -------------------------------
(***************************************************************************)
(* The traffic generator's server (server/server.c with accept and read    *)
(* helpers of common/epoll.c and common/network.c): one epoll thread that  *)
(* accepts connections, reads requests and pushes (fd, size) events, and   *)
(* workers that write the responses and close the connections.             *)
(*                                                                         *)
(* Both threads name a connection by its fd, and the kernel gives a closed *)
(* fd to the next accepted connection.  The model keeps the fd table, the  *)
(* events of an epoll_wait that are not handled yet, and every worker's    *)
(* copy of an fd, so that each of them can be stale.  The size a request   *)
(* asks for is represented by the connection that asked.                   *)
(***************************************************************************)
EXTENDS Naturals, FiniteSets

CONSTANTS Conns,       \* connections the clients open
          NoConn,
          NumFds,      \* descriptors the process may have open for them
          NumThreads, MaxThreads, LateSignal,  \* see ThreadPoll
          PromptClose, \* does a worker's close follow its write at once?
          Faults       \* clients may "idle", "abandon" or "reset", see below

ASSUME ServerAssumption ==
    /\ NoConn \notin Conns
    /\ NumFds \in Nat \ {0}
    /\ NumThreads \in Nat \ {0} /\ MaxThreads \in Nat /\ NumThreads < MaxThreads
    /\ LateSignal \subseteq 0 .. NumThreads - 1
    /\ PromptClose \in BOOLEAN
    /\ Faults \subseteq {"idle", "abandon", "reset"}

Fds == 1 .. NumFds
Listener == 0  \* the listening socket sfd
Sizes == Conns \cup {NoConn}

VARIABLES flag, event, ppc, slot, pev, wpc, wev, taken,  \* responce_polls
          epc,       \* where the epoll thread is in epoll_server
          batch,     \* the events of this epoll_wait still to handle
          cur,       \* the fd whose event it has pushed
          task,      \* where every worker is in serving its event
          flowsSize, \* flows_size: for every fd, whose request it holds
          owner,     \* the kernel's fd table
          interest,  \* the event every fd is registered for in efd
          ready,     \* fds on efd's edge-triggered ready list
          srv,       \* the server's end of every connection
          cli,       \* the client's end of every connection
          request,   \* connections with an unread request
          got,       \* responses written to every connection, up to 2
          misled     \* connections that got a response to another request

pollVars == <<flag, event, ppc, slot, pev, wpc, wev, taken>>
epollVars == <<epc, batch, cur>>
kernelVars == <<owner, interest, ready, srv>>
clientVars == <<cli, request>>
answerVars == <<got, misled>>
vars == <<pollVars, epollVars, task, flowsSize, kernelVars, clientVars, answerVars>>

P == INSTANCE ThreadPoll WITH Events <- Fds \X Sizes, NoEvent <- <<0, NoConn>>,
                              Spurious <- {}
Threads == P!Threads

TypeOK ==
    /\ P!TypeOK
    /\ epc \in {"wait", "dispatch", "accept", "modify"}
    /\ batch \subseteq (Fds \cup {Listener}) \X {"ERR", "IN", "OUT"}
    /\ cur \in Fds \cup {Listener}
    /\ task \in [Threads -> {"write", "errclose", "delete", "close", "release", "killed"}]
    /\ flowsSize \in [Fds -> Sizes] /\ owner \in [Fds -> Sizes]
    /\ interest \in [Fds -> {"none", "IN", "OUT"}]
    /\ ready \subseteq Fds \cup {Listener}
    /\ srv \in [Conns -> {"none", "backlog", "open", "closed"}]
    /\ cli \in [Conns -> {"new", "connected", "requested", "closed", "reset"}]
    /\ request \subseteq Conns
    /\ got \in [Conns -> 0 .. 2] /\ misled \subseteq Conns

\* The state in which epoll_server enters its loop.
Init ==
    /\ P!Init
    /\ epc = "wait" /\ batch = {} /\ cur = Listener
    /\ task = [w \in Threads |-> "write"]
    /\ flowsSize = [fd \in Fds |-> NoConn] /\ owner = [fd \in Fds |-> NoConn]
    /\ interest = [fd \in Fds |-> "none"] /\ ready = {}
    /\ srv = [c \in Conns |-> "none"] /\ cli = [c \in Conns |-> "new"]
    /\ request = {} /\ got = [c \in Conns |-> 0] /\ misled = {}

Running == ppc # "exited" /\ \A w \in Threads : task[w] # "killed"

\* With PromptClose the schedules are restricted to those in which nobody
\* moves between a worker's write and its last close.
Calm == PromptClose => \A w \in Threads : task[w] \notin {"errclose", "delete", "close"}

-----------------------------------------------------------------------------
(* The kernel's fd table and epoll.                                        *)

\* What epoll_wait reports for fd, in the order epoll_server tests it.
Kind(fd) ==
    CASE interest[fd] = "none" -> "none"
      [] interest[fd] # "none" /\ cli[owner[fd]] = "reset" -> "ERR"
      [] interest[fd] = "IN" /\ cli[owner[fd]] # "reset" ->
            IF owner[fd] \in request \/ cli[owner[fd]] = "closed" THEN "IN" ELSE "none"
      [] OTHER -> "OUT"

Arm(fd) == IF Kind(fd)' = "none" THEN ready \ {fd} ELSE ready \cup {fd}

\* modify_epoll_event: it fails for an fd that is not registered.
Modify(fd, ev) ==
    /\ interest' = [interest EXCEPT ![fd] = IF @ = "none" THEN "none" ELSE ev]
    /\ ready' = Arm(fd)

Delete(fd) ==
    /\ interest' = [interest EXCEPT ![fd] = "none"]
    /\ ready' = ready \ {fd}

\* close: the connection that has the fd now ends, the fd becomes free.
Close(fd) ==
    /\ Delete(fd)
    /\ owner' = [owner EXCEPT ![fd] = NoConn]
    /\ srv' = [c \in Conns |-> IF c = owner[fd] THEN "closed" ELSE srv[c]]

-----------------------------------------------------------------------------
(* The epoll thread.                                                       *)

Wait ==
    /\ epc = "wait" /\ ready # {}
    /\ epc' = "dispatch"
    /\ batch' = {<<fd, Kind(fd)>> : fd \in {g \in ready \ {Listener} : Kind(g) # "none"}}
                \cup {<<fd, "IN">> : fd \in ready \cap {Listener}}
    /\ ready' = {}
    /\ UNCHANGED <<pollVars, cur, task, flowsSize, owner, interest, srv,
                   clientVars, answerVars>>

Dispatch(fd, kind) ==
    /\ epc = "dispatch" /\ <<fd, kind>> \in batch
    /\ batch' = batch \ {<<fd, kind>>}

DispatchEnd ==
    /\ epc = "dispatch" /\ batch = {}
    /\ epc' = "wait"
    /\ UNCHANGED <<pollVars, batch, cur, task, flowsSize, kernelVars,
                   clientVars, answerVars>>

HandleErrCloses(fd) ==  \* faulty variant: the fd is closed as well
    /\ Dispatch(fd, "ERR")
    /\ Close(fd)
    /\ UNCHANGED <<pollVars, epc, cur, task, flowsSize, clientVars, answerVars>>

\* EPOLLERR or EPOLLHUP: the event is deleted, the fd stays open.
HandleErr(fd) ==
    /\ Dispatch(fd, "ERR")
    /\ Delete(fd)
    /\ UNCHANGED <<pollVars, epc, cur, task, flowsSize, owner, srv,
                   clientVars, answerVars>>

HandleListener ==
    /\ Dispatch(Listener, "IN")
    /\ epc' = "accept"
    /\ UNCHANGED <<pollVars, cur, task, flowsSize, kernelVars, clientVars, answerVars>>

AcceptKeepsNoEvent(c, fd) ==  \* faulty variant: add_epoll_event is forgotten
    /\ epc = "accept" /\ srv[c] = "backlog"
    /\ owner[fd] = NoConn /\ \A g \in 1 .. fd - 1 : owner[g] # NoConn
    /\ owner' = [owner EXCEPT ![fd] = c]
    /\ srv' = [srv EXCEPT ![c] = "open"]
    /\ UNCHANGED <<pollVars, epollVars, task, flowsSize, interest, ready,
                   clientVars, answerVars>>

\* accept gives the lowest free fd, which is registered for EPOLLIN.
Accept(c, fd) ==
    /\ epc = "accept" /\ srv[c] = "backlog"
    /\ owner[fd] = NoConn /\ \A g \in 1 .. fd - 1 : owner[g] # NoConn
    /\ owner' = [owner EXCEPT ![fd] = c]
    /\ srv' = [srv EXCEPT ![c] = "open"]
    /\ interest' = [interest EXCEPT ![fd] = "IN"]
    /\ UNCHANGED <<pollVars, epollVars, task, flowsSize, clientVars, answerVars>>
    /\ ready' = Arm(fd)

\* Nothing left to accept (EAGAIN), or no fd left (EMFILE).
AcceptEnd ==
    /\ epc = "accept"
    /\ \/ \A c \in Conns : srv[c] # "backlog"
       \/ \A fd \in Fds : owner[fd] # NoConn
    /\ epc' = "dispatch"
    /\ UNCHANGED <<pollVars, batch, cur, task, flowsSize, kernelVars,
                   clientVars, answerVars>>

HandleRequestKeepsSize(fd) ==  \* faulty variant: flows_size is not updated
    /\ Dispatch(fd, "IN") /\ owner[fd] \in request
    /\ request' = request \ {owner[fd]}
    /\ UNCHANGED <<pollVars, epc, cur, task, flowsSize, owner, srv, cli, answerVars>>
    /\ Modify(fd, "OUT")

\* read_request returns the size the request asks for.
HandleRequest(fd) ==
    /\ Dispatch(fd, "IN") /\ owner[fd] \in request
    /\ request' = request \ {owner[fd]}
    /\ flowsSize' = [flowsSize EXCEPT ![fd] = owner[fd]]
    /\ UNCHANGED <<pollVars, epc, cur, task, owner, srv, cli, answerVars>>
    /\ Modify(fd, "OUT")

\* read_request returns 0 for the end of the stream and for EAGAIN alike, and
\* -1 for an error: the fd is closed, and the modification after it fails.
HandleNoRequest(fd) ==
    /\ Dispatch(fd, "IN") /\ fd # Listener /\ owner[fd] \notin request
    /\ Close(fd)
    /\ UNCHANGED <<pollVars, epc, cur, task, flowsSize, clientVars, answerVars>>

HandleOut(fd) ==
    /\ Dispatch(fd, "OUT")
    /\ P!PushCall(<<fd, flowsSize[fd]>>)
    /\ epc' = "modify" /\ cur' = fd
    /\ UNCHANGED <<task, flowsSize, kernelVars, clientVars, answerVars>>

PushStep ==
    /\ P!Push
    /\ UNCHANGED <<epollVars, task, flowsSize, kernelVars, clientVars, answerVars>>

\* event_push has returned: EPOLLIN is registered again.
ModifyIn ==
    /\ epc = "modify" /\ ppc = "out"
    /\ epc' = "dispatch" /\ cur' = Listener
    /\ UNCHANGED <<pollVars, batch, task, flowsSize, owner, srv, clientVars, answerVars>>
    /\ \E fd \in Fds : fd = cur /\ Modify(fd, "IN")

EpollStep ==
    /\ Running /\ Calm
    /\ \/ Wait \/ DispatchEnd \/ HandleListener \/ AcceptEnd \/ PushStep \/ ModifyIn
       \/ \E fd \in Fds : \/ HandleErr(fd) \/ HandleRequest(fd)
                          \/ HandleNoRequest(fd) \/ HandleOut(fd)
                          \/ \E c \in Conns : Accept(c, fd)

-----------------------------------------------------------------------------
(* The workers.                                                            *)

Pop(w) ==
    /\ P!PopTake(w) \/ P!PopWait(w) \/ P!PopWoken(w)
    /\ UNCHANGED <<epollVars, task, flowsSize, kernelVars, clientVars, answerVars>>

At(w, step) == wpc[w] = "serving" /\ task[w] = step
Go(w, step) == task' = [task EXCEPT ![w] = step]
WorkerFd(w) == wev[w][1]
Peer(w) == owner[WorkerFd(w)]
Broken(w) == \A c \in Conns : c = Peer(w) => cli[c] \in {"closed", "reset"}

\* write_responce sends the whole response; to a client that has closed, it
\* may still fit in the socket's buffer.
WriteAll(w) ==
    /\ At(w, "write") /\ Peer(w) # NoConn /\ cli[Peer(w)] # "reset"
    /\ got' = [got EXCEPT ![Peer(w)] = IF @ < 2 THEN @ + 1 ELSE 2]
    /\ misled' = IF wev[w][2] = Peer(w) THEN misled ELSE misled \cup {Peer(w)}
    /\ Go(w, "delete")
    /\ UNCHANGED <<pollVars, epollVars, flowsSize, kernelVars, clientVars>>

\* write fails: the connection is broken, or the fd is free.
WriteFails(w) ==
    /\ At(w, "write") /\ Broken(w)
    /\ Go(w, "errclose")
    /\ UNCHANGED <<pollVars, epollVars, flowsSize, kernelVars, clientVars, answerVars>>

\* write raises SIGPIPE, which the server does not handle.
WriteKills(w) ==
    /\ At(w, "write") /\ Broken(w) /\ Peer(w) # NoConn
    /\ Go(w, "killed")
    /\ UNCHANGED <<pollVars, epollVars, flowsSize, kernelVars, clientVars, answerVars>>

\* The close of the inconsistent response; the common path closes again.
ErrClose(w) ==
    /\ At(w, "errclose")
    /\ Close(WorkerFd(w))
    /\ Go(w, "delete")
    /\ UNCHANGED <<pollVars, epollVars, flowsSize, clientVars, answerVars>>

DeleteEvent(w) ==
    /\ At(w, "delete")
    /\ Delete(WorkerFd(w))
    /\ Go(w, "close")
    /\ UNCHANGED <<pollVars, epollVars, flowsSize, owner, srv, clientVars, answerVars>>

CloseFd(w) ==
    /\ At(w, "close")
    /\ Close(WorkerFd(w))
    /\ Go(w, "release")
    /\ UNCHANGED <<pollVars, epollVars, flowsSize, clientVars, answerVars>>

FreeSlot(w) ==
    /\ At(w, "release")
    /\ P!Release(w)
    /\ Go(w, "write")
    /\ UNCHANGED <<epollVars, flowsSize, kernelVars, clientVars, answerVars>>

WorkerStep(w) ==
    /\ Running
    /\ \/ Pop(w) \/ WriteAll(w) \/ WriteFails(w) \/ WriteKills(w) \/ ErrClose(w)
       \/ DeleteEvent(w) \/ CloseFd(w) \/ FreeSlot(w)

-----------------------------------------------------------------------------
(* The clients' ends of the connections.                                   *)

\* Something happened to c that wakes efd if c's fd is registered.
Happens(c) ==
    /\ UNCHANGED <<pollVars, epollVars, task, flowsSize, owner, interest, srv, answerVars>>
    /\ ready' = ready \cup {fd \in Fds : owner[fd] = c /\ Kind(fd)' # "none"}

Connect(c) ==
    /\ cli[c] = "new"
    /\ cli' = [cli EXCEPT ![c] = "connected"]
    /\ srv' = [srv EXCEPT ![c] = "backlog"]
    /\ ready' = ready \cup {Listener}
    /\ UNCHANGED <<pollVars, epollVars, task, flowsSize, owner, interest,
                   request, answerVars>>

Request(c) ==
    /\ cli[c] = "connected" /\ srv[c] # "closed"
    /\ cli' = [cli EXCEPT ![c] = "requested"]
    /\ request' = request \cup {c}
    /\ Happens(c)

\* The client's normal end: it has the response, or has seen the server close.
Finish(c) ==
    /\ \/ cli[c] = "requested" /\ (got[c] > 0 \/ srv[c] = "closed")
       \/ cli[c] = "connected" /\ srv[c] = "closed"
    /\ cli' = [cli EXCEPT ![c] = "closed"]
    /\ UNCHANGED request /\ Happens(c)

\* When a client process may end early: before its request ("idle"), while it
\* waits for the response ("abandon"), or with a reset at any time.
QuitsFrom(how) ==
    CASE how = "idle"    -> {"connected"}
      [] how = "abandon" -> {"requested"}
      [] how = "reset"   -> {"connected", "requested"}

Quit(c) ==
    /\ \E how \in Faults :
        /\ cli[c] \in QuitsFrom(how) /\ (how = "reset" => srv[c] = "open")
        /\ cli' = [cli EXCEPT ![c] = IF how = "reset" THEN "reset" ELSE "closed"]
    /\ UNCHANGED request /\ Happens(c)

ClientStep(c) == Running /\ Calm /\ (Connect(c) \/ Request(c) \/ Finish(c) \/ Quit(c))

-----------------------------------------------------------------------------
Next ==
    \/ EpollStep
    \/ \E w \in Threads : WorkerStep(w)
    \/ \E c \in Conns : ClientStep(c)

Spec == Init /\ [][Next]_vars

\* The server's threads are runnable; clients owe nothing.
FairSpec == Spec /\ WF_vars(EpollStep) /\ \A w \in Threads : WF_vars(WorkerStep(w))

-----------------------------------------------------------------------------
(* Properties.                                                             *)

\* README.md:2: a client gets the response it asked for, once, although the
\* size travels through flows_size, an event and a worker under a reused fd.
RightResponse ==
    /\ misled = {}
    /\ \A c \in Conns : got[c] <= 1 /\ (got[c] = 1 => cli[c] # "connected")

\* The server ends only connections whose client has its response or has
\* gone: no thread closes an fd that meanwhile belongs to somebody else.
ClosesOwnOnly ==
    \A c \in Conns :
        srv[c] = "closed" => got[c] > 0 \/ cli[c] \in {"closed", "reset"}

\* What the two promises below exclude: the process has exited (all threads
\* were busy), or a client has reset its connection.  An error event that is
\* stale when it is handled then deletes the event of another connection.
Disturbed == ~Running \/ \E c \in Conns : cli[c] = "reset"

\* The request of a client that waits for its response is answered, and an
\* accepted connection whose client has gone gives its fd back: no
\* edge-triggered event gets lost on the way.
ServedAndReleased ==
    \A c \in Conns :
        /\ cli[c] = "requested" ~> got[c] > 0 \/ Disturbed
        /\ srv[c] = "open" /\ cli[c] = "closed" ~> srv[c] = "closed" \/ Disturbed
=============================================================================
