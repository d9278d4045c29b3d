------------------------------- MODULE System -------------------------------
(***************************************************************************)
(* The client and the server together: the server of Server, and a client  *)
(* that drives its ends of the connections as FlowGenerator promises.      *)
(* Client is shown to implement FlowGenerator (Client!ImplementsGenerator),*)
(* which stands for it here; the network loses nothing.                    *)
(***************************************************************************)
EXTENDS Server

CONSTANT Concurrent  \* the client's -c

VARIABLE reported    \* has the client printed its statistics?

sysVars == <<vars, reported>>

\* A flow's stage in the client, by its end of the connection.
StageOf(c) ==
    CASE cli[c] \in {"new", "connected"} -> "waiting"
      [] cli[c] = "requested" -> "active"
      [] cli[c] \in {"closed", "reset"} -> "ended"

G == INSTANCE FlowGenerator WITH Flows <- Conns, stage <- [c \in Conns |-> StageOf(c)]

SysInit == Init /\ reported = FALSE

ServerMoves ==
    /\ \/ EpollStep
       \/ \E w \in Threads : WorkerStep(w)
    /\ UNCHANGED reported

\* A connection is made or lost without the client's part in it, or as the
\* next step of the client.
ClientMoves(c) ==
    /\ ClientStep(c)
    /\ (cli[c] = "new" /\ UNCHANGED reported) \/ G!Next

Report == UNCHANGED vars /\ G!Report

SysNext == ServerMoves \/ Report \/ \E c \in Conns : ClientMoves(c)

SysSpec ==
    /\ SysInit /\ [][SysNext]_sysVars
    /\ WF_sysVars(EpollStep /\ UNCHANGED reported) /\ WF_sysVars(Report)
    /\ \A w \in Threads : WF_sysVars(WorkerStep(w) /\ UNCHANGED reported)
    /\ \A c \in Conns : WF_sysVars(ClientMoves(c))

-----------------------------------------------------------------------------
(* Properties.                                                             *)

\* README.md:2: the client's limit holds in the server too.  There are never
\* more responses being written than the client has concurrent flows, however
\* the requests are spread over events, slots and workers.
LoadBounded == Cardinality({w \in Threads : At(w, "write")}) <= Concurrent

\* thread_poll.c:24: "The flow concurrency outnumbers the threads".  The
\* server says so and exits although it has a thread for every flow: the scan
\* for a free slot may miss the workers that have just written a response.
ExitMessageTrue == ppc = "exited" => Concurrent > NumThreads

\* README.md:2: the run comes to its report, in which every flow has had its own
\* response, unless the server has exited.
RunEnds ==
    <>(~Running \/ (reported /\ misled = {} /\ \A c \in Conns : got[c] = 1))
=============================================================================
