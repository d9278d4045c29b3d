--------------------------- MODULE FlowGenerator ---------------------------
(***************************************************************************)
(* What the client promises, without its threads and sockets: a set of     *)
(* established flows, at most Concurrent of which are active at a time,    *)
(* each active at most once, and a report once all of them have ended.     *)
(* Client implements it (Client!ImplementsGenerator).                      *)
(***************************************************************************)
EXTENDS Naturals, FiniteSets

CONSTANTS Flows, Concurrent

VARIABLES stage,    \* of every flow
          reported  \* have the statistics been printed?

genVars == <<stage, reported>>

In(s) == {f \in Flows : stage[f] = s}

GenTypeOK ==
    /\ stage \in [Flows -> {"absent", "waiting", "active", "ended"}]
    /\ reported \in BOOLEAN

Init ==
    /\ stage \in [Flows -> {"absent", "waiting"}]
    /\ reported = FALSE

StartUnbounded(f) ==  \* faulty variant: starts beyond the limit
    /\ ~reported /\ stage[f] = "waiting"
    /\ stage' = [stage EXCEPT ![f] = "active"]
    /\ UNCHANGED reported

\* A flow sends its request.
Start(f) ==
    /\ ~reported /\ stage[f] = "waiting"
    /\ Cardinality(In("active")) < Concurrent
    /\ stage' = [stage EXCEPT ![f] = "active"]
    /\ UNCHANGED reported

\* A flow is counted out, with its response or with an error.
Finish(f) ==
    /\ ~reported /\ stage[f] = "active"
    /\ stage' = [stage EXCEPT ![f] = "ended"]
    /\ UNCHANGED reported

Report ==
    /\ ~reported /\ In("waiting") = {} /\ In("active") = {}
    /\ reported' = TRUE
    /\ UNCHANGED stage

Next == Report \/ \E f \in Flows : Start(f) \/ Finish(f)

Spec == Init /\ [][Next]_genVars

-----------------------------------------------------------------------------
(* Properties.                                                             *)

\* README.md:2: the number of flows transmitting at once is limited.
AtMostConcurrent == Cardinality(In("active")) <= Concurrent

\* The statistics are printed when no flow is left (client.c:50), and stay
\* true: nothing starts or ends afterwards.
ReportedAllEnded == reported => \A f \in Flows : stage[f] \in {"absent", "ended"}
=============================================================================
