------------------------------- MODULE Client -------------------------------
(***************************************************************************)
(* The traffic generator's client (client/client.c with the flow table of  *)
(* client/statistics.c): one epoll thread that admits connections while    *)
(* fewer than concurrent_flows are active, sends each admitted one its     *)
(* request and hands it to a worker through the slots of ThreadPoll; and   *)
(* the workers, which read the whole response, stamp the completion time,  *)
(* close the connection and count the flow out.  Built with MEMCACHED, the *)
(* client starts a script with another load when most flows are done.      *)
(*                                                                         *)
(* active_flows is incremented by the epoll thread without the mutex that  *)
(* the workers hold to decrement it.  With Race each of these updates is   *)
(* the load and the store it compiles to; without, it is restricted to     *)
(* schedules where no update falls between another one's load and store.   *)
(*                                                                         *)
(* The connections, the kernel's epoll bookkeeping and the server are seen *)
(* through the calls the client makes: a response is complete, missing or  *)
(* cut short, and its size does not matter otherwise.                      *)
(***************************************************************************)
EXTENDS Naturals, FiniteSets

CONSTANTS Fds,         \* the sockets create_N_epoll_events tries to open
          NoFd,        \* the fd 0 of an unused slot
          Concurrent,  \* concurrent_flows (-c)
          NumThreads,  \* threads (-t)
          MaxThreads,  \* MAX_THREADS
          Word,        \* unsigned int counts modulo Word (2^32 in the build)
          LateSignal,  \* see ThreadPoll
          Race,        \* do updates of shared counters overlap?
          Memcached,   \* is MEMCACHED defined (client.h:21)?
          Network      \* what the network may do: "refuse", "reset", "eof"

\* read_args exits when threads < concurrent_flows, and main asserts that the
\* threads are fewer than MAX_THREADS.
ASSUME ClientAssumption ==
    /\ NumThreads \in Nat /\ Concurrent \in 1 .. NumThreads
    /\ MaxThreads \in Nat /\ NumThreads < MaxThreads
    /\ LateSignal \subseteq 0 .. NumThreads - 1
    /\ IsFiniteSet(Fds)
    /\ Word \in Nat /\ Word > Cardinality(Fds) + 1 /\ Word > Concurrent
    /\ NoFd \notin Fds
    /\ Race \in BOOLEAN /\ Memcached \in BOOLEAN
    /\ Network \subseteq {"refuse", "reset", "eof"}

VARIABLES flag, event, ppc, slot, pev, wpc, wev, taken,  \* request_polls
          epc,       \* where the epoll thread is in epoll_client
          batch,     \* the events of this epoll_wait still to handle
          cur,       \* the fd the epoll thread is admitting
          etmp,      \* the active_flows it has loaded
          memaslap,  \* the other load: "off", "due" (memaslap is set) or "started"
          task,      \* where every worker is in serving its event
          wtmp,      \* the counter the worker has loaded
          active,    \* active_flows
          left,      \* left_flows
          entry,     \* time_table.flows_time: no fd, fd set, fct set
          errs,      \* time_table.error: connection_error and size_error
          sock,      \* state of every socket
          inbox,     \* what reading the socket will give
          sent,      \* write_request calls for the socket, saturating at 2
          interest,  \* the event each socket is registered for in efd
          ready      \* sockets on efd's edge-triggered ready list

pollVars == <<flag, event, ppc, slot, pev, wpc, wev, taken>>
tableVars == <<active, left, entry, errs>>
netVars == <<sock, inbox, sent, interest, ready>>
epollVars == <<epc, batch, cur, etmp, memaslap>>
vars == <<pollVars, epollVars, task, wtmp, tableVars, netVars>>

P == INSTANCE ThreadPoll WITH Events <- Fds, NoEvent <- NoFd,
                              Spurious <- {}
Threads == P!Threads

TypeOK ==
    /\ P!TypeOK
    /\ epc \in {"loop", "wait", "dispatch", "load", "add", "reported"}
    /\ batch \subseteq Fds \X {"ERR", "OUT", "IN"}
    /\ cur \in Fds \cup {NoFd} /\ etmp \in 0 .. Word - 1
    /\ memaslap \in {"off", "due", "started"}
    /\ task \in [Threads -> {"read", "connErr", "sizeErr", "stamp", "close",
                             "load", "store", "release", "aborted"}]
    /\ wtmp \in [Threads -> 0 .. Word - 1]
    /\ active \in 0 .. Word - 1 /\ left \in 0 .. Word - 1
    /\ entry \in [Fds -> {"empty", "started", "done"}]
    /\ errs \in [{"conn", "size"} -> 0 .. Word - 1]
    /\ sock \in [Fds -> {"absent", "connecting", "open", "error", "closed"}]
    /\ inbox \in [Fds -> {"none", "full", "eof", "drained"}]
    /\ sent \in [Fds -> 0 .. 2]
    /\ interest \in [Fds -> {"none", "OUT", "IN"}]
    /\ ready \subseteq Fds

\* The state in which epoll_client enters its loop: create_N_epoll_events has
\* opened and registered some of the sockets and counted them.
Init ==
    /\ P!Init
    /\ epc = "loop" /\ batch = {} /\ cur = NoFd /\ etmp = 0 /\ memaslap = "off"
    /\ task = [w \in Threads |-> "read"] /\ wtmp = [w \in Threads |-> 0]
    /\ \E created \in SUBSET Fds :
        /\ sock = [f \in Fds |-> IF f \in created THEN "connecting" ELSE "absent"]
        /\ interest = [f \in Fds |-> IF f \in created THEN "OUT" ELSE "none"]
        /\ left = Cardinality(created)
    /\ active = 0
    /\ entry = [f \in Fds |-> "empty"] /\ errs = [k \in {"conn", "size"} |-> 0]
    /\ inbox = [f \in Fds |-> "none"] /\ sent = [f \in Fds |-> 0] /\ ready = {}

Aborted == \E w \in Threads : task[w] = "aborted"
Running == epc # "reported" /\ ppc # "exited" /\ ~Aborted

Inc(n) == (n + 1) % Word
Dec(n) == (n + Word - 1) % Word

-----------------------------------------------------------------------------
(* epoll, as far as the client can tell.                                   *)

\* What epoll_wait reports for f, in the order epoll_client tests the flags.
Kind(f) ==
    CASE interest[f] = "none" -> "none"
      [] interest[f] # "none" /\ sock[f] = "error" -> "ERR"
      [] interest[f] = "OUT" /\ sock[f] = "open" -> "OUT"
      [] interest[f] = "IN" /\ sock[f] = "open" /\ inbox[f] \in {"full", "eof"} -> "IN"
      [] OTHER -> "none"

\* epoll_ctl(EPOLL_CTL_MOD): registers the event and re-arms the edge.
Modify(f, ev) ==
    /\ interest' = [interest EXCEPT ![f] = IF sock[f] = "closed" THEN "none" ELSE ev]
    /\ UNCHANGED <<sock, inbox>>
    /\ ready' = IF Kind(f)' = "none" THEN ready \ {f} ELSE ready \cup {f}

\* delete_epoll_event and close; on an fd closed before both only fail.
CloseFd(f) ==
    /\ sock' = [sock EXCEPT ![f] = "closed"]
    /\ interest' = [interest EXCEPT ![f] = "none"]
    /\ ready' = ready \ {f}
    /\ UNCHANGED <<inbox, sent>>

-----------------------------------------------------------------------------
(* The epoll thread.                                                       *)

MostLeftCountsActive == 10 * active >= 8 * Cardinality(Fds)  \* faulty variant: the wrong counter

\* left_flows < flows_num * 0.8, where flows_num counts the flows asked for.
MostLeft == 10 * left >= 8 * Cardinality(Fds)

\* while (left_flows > 0) ... else print_statistics; exit(EXIT_SUCCESS).
Loop ==
    /\ Running /\ epc = "loop"
    /\ \/ /\ left > 0 /\ epc' = "wait"
          /\ memaslap' = IF Memcached /\ memaslap = "off" /\ ~MostLeft THEN "due" ELSE memaslap
       \/ left = 0 /\ epc' = "reported" /\ UNCHANGED memaslap
    /\ UNCHANGED <<pollVars, batch, cur, etmp, task, wtmp, tableVars, netVars>>

Wait ==
    /\ Running /\ epc = "wait"
    /\ epc' = "dispatch"
    /\ batch' = {<<f, Kind(f)>> : f \in {g \in ready : Kind(g) # "none"}}
    /\ ready' = {}
    /\ UNCHANGED <<pollVars, cur, etmp, memaslap, task, wtmp, tableVars,
                   sock, inbox, sent, interest>>

\* The next event of the batch, when event_push has returned.
Dispatch(f, kind) ==
    /\ Running /\ epc = "dispatch" /\ ppc = "out"
    /\ <<f, kind>> \in batch
    /\ batch' = batch \ {<<f, kind>>}

DispatchEnd ==
    /\ Running /\ epc = "dispatch" /\ ppc = "out" /\ batch = {}
    /\ epc' = "loop"
    /\ UNCHANGED <<pollVars, batch, cur, etmp, memaslap, task, wtmp, tableVars, netVars>>

\* EPOLLERR or EPOLLHUP: del_flow.  The counters are left as they are.
HandleErr(f) ==
    /\ Dispatch(f, "ERR")
    /\ CloseFd(f)
    /\ entry' = [entry EXCEPT ![f] = "empty"]
    /\ UNCHANGED <<pollVars, epc, cur, etmp, memaslap, task, wtmp, active, left, errs>>

AdmitStaysWritable(f) ==  \* faulty variant: the event is left at EPOLLOUT
    /\ Dispatch(f, "OUT") /\ active < Concurrent
    /\ cur' = f /\ epc' = "load"
    /\ sent' = [sent EXCEPT ![f] = IF @ < 2 THEN @ + 1 ELSE 2]
    /\ Modify(f, "OUT")
    /\ UNCHANGED <<pollVars, etmp, memaslap, task, wtmp, tableVars>>

\* A writable socket and room for one more flow: write_request, whose result
\* is overwritten unread, then the event changes to EPOLLIN.
Admit(f) ==
    /\ Dispatch(f, "OUT") /\ active < Concurrent
    /\ cur' = f /\ epc' = "load"
    /\ sent' = [sent EXCEPT ![f] = IF @ < 2 THEN @ + 1 ELSE 2]
    /\ Modify(f, "IN")
    /\ UNCHANGED <<pollVars, etmp, memaslap, task, wtmp, tableVars>>

DeferForgotten(f) ==  \* faulty variant: the edge is not armed again
    /\ Dispatch(f, "OUT") /\ active >= Concurrent
    /\ UNCHANGED <<pollVars, epc, cur, etmp, memaslap, task, wtmp, tableVars, netVars>>

\* No room: EPOLLOUT is armed again, so the socket comes back at once.
Defer(f) ==
    /\ Dispatch(f, "OUT") /\ active >= Concurrent
    /\ Modify(f, "OUT")
    /\ UNCHANGED <<pollVars, epc, cur, etmp, memaslap, task, wtmp, tableVars, sent>>

HandleIn(f) ==
    /\ Dispatch(f, "IN")
    /\ UNCHANGED <<pollVars, epc, cur, etmp, memaslap, task, wtmp, tableVars, netVars>>

IncLoad ==
    /\ Running /\ epc = "load"
    /\ epc' = "add" /\ etmp' = IF Race THEN active ELSE 0
    /\ UNCHANGED <<pollVars, batch, cur, memaslap, task, wtmp, tableVars, netVars>>

AddFlowUncounted ==  \* faulty variant: active_flows is not incremented
    /\ Running /\ epc = "add" /\ entry[cur] = "empty"
    /\ entry' = [entry EXCEPT ![cur] = "started"]
    /\ P!PushCall(cur)
    /\ epc' = "dispatch" /\ cur' = NoFd /\ etmp' = 0
    /\ UNCHANGED <<batch, memaslap, task, wtmp, active, left, errs, netVars>>

\* active_flows += 1, add_flow_time_entry and the call of event_push.
AddFlow ==
    /\ Running /\ epc = "add" /\ entry[cur] = "empty"
    /\ active' = Inc(IF Race THEN etmp ELSE active)
    /\ entry' = [entry EXCEPT ![cur] = "started"]
    /\ P!PushCall(cur)
    /\ epc' = "dispatch" /\ cur' = NoFd /\ etmp' = 0
    /\ UNCHANGED <<batch, memaslap, task, wtmp, left, errs, netVars>>

PushStep ==
    /\ Running /\ P!Push
    /\ UNCHANGED <<epollVars, task, wtmp, tableVars, netVars>>

EpollStep ==
    \/ Loop \/ Wait \/ DispatchEnd \/ IncLoad \/ AddFlow \/ PushStep
    \/ \E f \in Fds : HandleErr(f) \/ Admit(f) \/ Defer(f) \/ HandleIn(f)

-----------------------------------------------------------------------------
(* The workers.                                                            *)

\* event_pop: with an event taken, read_responce starts.
Pop(w) ==
    /\ Running /\ (P!PopTake(w) \/ P!PopWait(w) \/ P!PopWoken(w))
    /\ UNCHANGED <<epollVars, task, wtmp, tableVars, netVars>>

At(w, step) == Running /\ wpc[w] = "serving" /\ task[w] = step
Go(w, step) == task' = [task EXCEPT ![w] = step]

\* read_responce spins on EAGAIN until it has flow_size bytes ...
ReadFull(w) ==
    /\ At(w, "read") /\ sock[wev[w]] # "closed" /\ inbox[wev[w]] = "full"
    /\ inbox' = [inbox EXCEPT ![wev[w]] = "drained"]
    /\ Go(w, "stamp")
    /\ UNCHANGED <<pollVars, epollVars, wtmp, tableVars, sock, sent, interest, ready>>

\* ... or the stream ends (0) ...
ReadEof(w) ==
    /\ At(w, "read") /\ sock[wev[w]] # "closed" /\ inbox[wev[w]] = "eof"
    /\ Go(w, "sizeErr")
    /\ wtmp' = [wtmp EXCEPT ![w] = IF Race THEN errs["size"] ELSE 0]
    /\ UNCHANGED <<pollVars, epollVars, tableVars, netVars>>

\* ... or read fails (-1): a reset connection, or an fd already closed.
ReadErr(w) ==
    /\ At(w, "read")
    /\ \/ sock[wev[w]] = "closed"
       \/ sock[wev[w]] = "error" /\ inbox[wev[w]] \in {"none", "drained"}
    /\ Go(w, "connErr")
    /\ wtmp' = [wtmp EXCEPT ![w] = IF Race THEN errs["conn"] ELSE 0]
    /\ UNCHANGED <<pollVars, epollVars, tableVars, netVars>>

\* incre_error_flows, without any lock.
CountError(w, k) ==
    /\ errs' = [errs EXCEPT ![k] = Inc(IF Race THEN wtmp[w] ELSE @)]
    /\ wtmp' = [wtmp EXCEPT ![w] = 0]
    /\ entry' = [entry EXCEPT ![wev[w]] = "empty"]
    /\ Go(w, "load")

\* read failed: the flow's table entry goes, its socket stays.
FailConn(w) ==
    /\ At(w, "connErr")
    /\ CountError(w, "conn")
    /\ UNCHANGED <<pollVars, epollVars, active, left, netVars>>

FailSizeUncounted(w) ==  \* faulty variant: incre_error_flows is forgotten
    /\ At(w, "sizeErr")
    /\ entry' = [entry EXCEPT ![wev[w]] = "empty"]
    /\ wtmp' = [wtmp EXCEPT ![w] = 0]
    /\ Go(w, "load")
    /\ CloseFd(wev[w])
    /\ UNCHANGED <<pollVars, epollVars, active, left, errs>>

\* A short response: del_flow closes the socket too.
FailSize(w) ==
    /\ At(w, "sizeErr")
    /\ CountError(w, "size")
    /\ CloseFd(wev[w])
    /\ UNCHANGED <<pollVars, epollVars, active, left>>

\* set_resp_time, whose assertion has found the flow's entry.
Stamp(w) ==
    /\ At(w, "stamp") /\ entry[wev[w]] # "empty"
    /\ entry' = [entry EXCEPT ![wev[w]] = "done"]
    /\ Go(w, "close")
    /\ UNCHANGED <<pollVars, epollVars, wtmp, active, left, errs, netVars>>

\* The assertion of set_resp_time fails: abort().
StampAborts(w) ==
    /\ At(w, "stamp") /\ entry[wev[w]] = "empty"
    /\ Go(w, "aborted")
    /\ UNCHANGED <<pollVars, epollVars, wtmp, tableVars, netVars>>

CloseFlowFreesSlot(w) ==  \* faulty variant: the slot is set idle too early
    /\ At(w, "close")
    /\ CloseFd(wev[w])
    /\ flag' = [flag EXCEPT ![w] = "IDLE"]
    /\ Go(w, "load")
    /\ UNCHANGED <<event, ppc, slot, pev, wpc, wev, taken,
                   epollVars, wtmp, tableVars>>

CloseFlow(w) ==
    /\ At(w, "close")
    /\ CloseFd(wev[w])
    /\ Go(w, "load")
    /\ UNCHANGED <<pollVars, epollVars, wtmp, tableVars>>

\* pthread_mutex_lock(&lock), held by the worker at "store".
DecLoad(w) ==
    /\ At(w, "load") /\ \A v \in Threads : task[v] # "store"
    /\ Go(w, "store")
    /\ wtmp' = [wtmp EXCEPT ![w] = IF Race THEN active ELSE 0]
    /\ UNCHANGED <<pollVars, epollVars, tableVars, netVars>>

DecStore(w) ==
    /\ At(w, "store")
    /\ active' = Dec(IF Race THEN wtmp[w] ELSE active)
    /\ left' = Dec(left)
    /\ wtmp' = [wtmp EXCEPT ![w] = 0]
    /\ Go(w, "release")
    /\ UNCHANGED <<pollVars, epollVars, entry, errs, netVars>>

\* poll->flag = THREAD_IDLE.
FreeSlot(w) ==
    /\ At(w, "release")
    /\ P!Release(w)
    /\ Go(w, "read")
    /\ UNCHANGED <<epollVars, wtmp, tableVars, netVars>>

WorkerStep(w) ==
    \/ Pop(w) \/ ReadFull(w) \/ ReadEof(w) \/ ReadErr(w)
    \/ FailConn(w) \/ FailSize(w) \/ Stamp(w) \/ StampAborts(w)
    \/ CloseFlow(w) \/ DecLoad(w) \/ DecStore(w) \/ FreeSlot(w)

-----------------------------------------------------------------------------
(* The network and the server.                                             *)

\* The kernel puts a socket on the ready list when something happens to it
\* that the registered event, or EPOLLERR, covers.
Happens(f) ==
    /\ UNCHANGED <<pollVars, epollVars, task, wtmp, tableVars, sent, interest>>
    /\ ready' = IF Kind(f)' = "none" THEN ready ELSE ready \cup {f}

Connect(f) ==
    /\ Running /\ sock[f] = "connecting"
    /\ sock' = [sock EXCEPT ![f] = "open"]
    /\ UNCHANGED inbox /\ Happens(f)

Respond(f) ==
    /\ Running /\ sock[f] = "open" /\ sent[f] > 0 /\ inbox[f] = "none"
    /\ inbox' = [inbox EXCEPT ![f] = "full"]
    /\ UNCHANGED sock /\ Happens(f)

Refuse(f) ==
    /\ Running /\ "refuse" \in Network /\ sock[f] = "connecting"
    /\ sock' = [sock EXCEPT ![f] = "error"]
    /\ UNCHANGED inbox /\ Happens(f)

Reset(f) ==
    /\ Running /\ "reset" \in Network /\ sock[f] = "open"
    /\ sock' = [sock EXCEPT ![f] = "error"]
    /\ UNCHANGED inbox /\ Happens(f)

ServerCloses(f) ==
    /\ Running /\ "eof" \in Network /\ sock[f] = "open" /\ inbox[f] = "none"
    /\ inbox' = [inbox EXCEPT ![f] = "eof"]
    /\ UNCHANGED sock /\ Happens(f)

NetworkStep(f) ==
    Connect(f) \/ Respond(f) \/ Refuse(f) \/ Reset(f) \/ ServerCloses(f)

-----------------------------------------------------------------------------
(* The thread of the other load, and the whole client.                     *)

\* The shell thread looks at memaslap once a second and runs the script.
Shell ==
    /\ Running /\ memaslap = "due"
    /\ memaslap' = "started"
    /\ UNCHANGED <<pollVars, epc, batch, cur, etmp, task, wtmp, tableVars, netVars>>

Next ==
    \/ EpollStep
    \/ Shell
    \/ \E w \in Threads : WorkerStep(w)
    \/ \E f \in Fds : NetworkStep(f)

Spec == Init /\ [][Next]_vars

\* Every thread of the client is runnable, connections get established and
\* the server answers; refusals, resets and early ends are never owed.
FairSpec ==
    /\ Spec
    /\ WF_vars(EpollStep) /\ WF_vars(Shell)
    /\ \A w \in Threads : WF_vars(WorkerStep(w))
    /\ \A f \in Fds : WF_vars(Connect(f)) /\ WF_vars(Respond(f))

-----------------------------------------------------------------------------
(* Properties.                                                             *)

Created == {f \in Fds : sock[f] # "absent"}

\* Slots whose event is still to be counted out, and the admitted flows: with
\* prompt signals a busy slot's event is taken exactly once.
InFlight == {w \in Threads : flag[w] = "BUSY" /\ task[w] # "release"}
Admitted == ({event[w] : w \in InFlight} \cup {cur, pev}) \ {NoFd}

Transmitting ==
    {f \in Fds : sent[f] > 0 /\ sock[f] = "open" /\ inbox[f] # "drained"}

\* Under every schedule and every network behaviour a socket gets one request,
\* and the assertion of set_flow_time_flowsize holds: the edge-triggered
\* EPOLLOUT, armed again by every deferral, never admits a flow twice.
RequestOnce ==
    /\ \A f \in Fds : sent[f] <= 1
    /\ epc = "add" => entry[cur] = "empty"

\* With prompt signals and no overlapping updates, active_flows counts the
\* admitted flows that no worker has counted out and left_flows those and the
\* flows without a request, over both threads' paths and all their failures.
\* Then no more than concurrent_flows flows transmit at once (README.md:2).
CountersExact ==
    /\ active = Cardinality(InFlight)
                + (IF pev # NoFd THEN 1 ELSE 0)
    /\ left = Cardinality({f \in Created : sent[f] = 0}) + active
              + (IF epc \in {"load", "add"} THEN 1 ELSE 0)
    /\ Cardinality(Transmitting) <= Concurrent

\* A flow whose response had been read completely when HandleErr found its
\* connection reset: del_flow has removed its entry from the table.
Erased == {f \in Fds : entry[f] = "empty" /\ inbox[f] = "drained"}

\* The report accounts for every flow exactly once, as completed or as an
\* error, and every entry that print_statistics writes has its completion time;
\* a reset that overtakes a completed flow is the only way to lose one.
ReportAccounts ==
    epc = "reported" =>
        /\ \A f \in Fds : entry[f] # "started"
        /\ Cardinality({f \in Fds : entry[f] = "done"}) + errs["conn"] + errs["size"]
               = Cardinality(Created \ Erased)

\* The assertion of set_resp_time (statistics.c:113) never fails.
AssertionHolds == ~Aborted

\* event_push always finds an idle thread: read_args has checked that the
\* threads are no fewer than the concurrent flows (client_configs.c:96).
ThreadsSuffice == ppc # "exited"

\* The client eventually prints its statistics, unless a connection is refused
\* or reset or a push finds no idle thread (ThreadsSuffice): short responses, and
\* flows that wait for room behind others, never keep it from ending.
Reports ==
    <>(epc = "reported" \/ ppc = "exited" \/ \E f \in Fds : sock[f] = "error")

\* What the client promises, as FlowGenerator states it.
Stage(f) ==
    CASE sock[f] = "absent" -> "absent"
      [] f \in Admitted -> "active"
      [] f \in Created \ Admitted /\ sent[f] = 0 -> "waiting"
      [] OTHER -> "ended"

G == INSTANCE FlowGenerator WITH Flows <- Fds, Concurrent <- Concurrent,
        stage <- [f \in Fds |-> Stage(f)], reported <- (epc = "reported")

\* The client implements that promise when its signals are prompt and its
\* updates of shared counters do not overlap, whatever the network does.
ImplementsGenerator == G!Spec

\* Flows that need nothing more of the client.
Over == {f \in Fds : Stage(f) \in {"absent", "ended"}}

\* client.c:52: the other load starts only when more than a fifth of the flows
\* asked for are over, and once it is due it starts, unless the client ends
\* before.
OtherLoadLate ==
    /\ [](memaslap # "off" => 10 * Cardinality(Over) > 2 * Cardinality(Fds))
    /\ memaslap = "due" ~> memaslap = "started" \/ ~Running

\* The client drives the slots exactly as ThreadPoll says they are driven: one
\* push at a time, and a slot set idle only by its worker after it has served.
UsesPool == P!Spec
=============================================================================
