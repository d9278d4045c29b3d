------------------------------ MODULE FlowSet ------------------------------
(***************************************************************************)
(* What the flow table of the PIAS kernel module promises to the hooks,    *)
(* without its lists, searches and locks: a set of flows, on which an      *)
(* operation of any CPU has its effect at one moment between its call and  *)
(* its return, and a clear one on each flow that it finds when it is       *)
(* called.  PiasTable implements it (PiasTable!ImplementsFlowSet).         *)
(***************************************************************************)
CONSTANTS Cpus, Flows, NoFlow

VARIABLES known,  \* the flows that have an entry
          old,    \* those known ever since the call of a Clear, by CPU
          op,     \* the operation of every CPU
          arg,    \* its flow
          at      \* how far it is

setVars == <<known, old, op, arg, at>>

SetTypeOK ==
    /\ known \subseteq Flows /\ old \in [Cpus -> SUBSET known]
    /\ op \in [Cpus -> {"none", "insert", "delete", "use", "clear"}]
    /\ arg \in [Cpus -> Flows \cup {NoFlow}]
    /\ at \in [Cpus -> {"idle", "called", "holds", "over"}]

Init ==
    /\ known = {} /\ old = [c \in Cpus |-> {}]
    /\ op = [c \in Cpus |-> "none"] /\ arg = [c \in Cpus |-> NoFlow]
    /\ at = [c \in Cpus |-> "idle"]

Searches == {"delete", "use"}

\* A search may have its answer with the call: there is no such flow.
Call(c, o, f) ==
    /\ at[c] = "idle"
    /\ op' = [op EXCEPT ![c] = o] /\ arg' = [arg EXCEPT ![c] = f]
    /\ \/ at' = [at EXCEPT ![c] = "called"]
       \/ o \in Searches /\ f \notin known /\ at' = [at EXCEPT ![c] = "over"]
    /\ UNCHANGED <<known, old>>

CallClear(c) ==
    /\ at[c] = "idle" /\ op' = [op EXCEPT ![c] = "clear"]
    /\ at' = [at EXCEPT ![c] = "called"]
    /\ old' = [old EXCEPT ![c] = known]
    /\ UNCHANGED <<known, arg>>

Return(c) ==
    /\ op' = [op EXCEPT ![c] = "none"] /\ arg' = [arg EXCEPT ![c] = NoFlow]
    /\ at' = [at EXCEPT ![c] = "idle"]
    /\ UNCHANGED <<known, old>>

Runs(c, o) == op[c] = o /\ at[c] = "called"

\* The set becomes flows; what leaves it is not what a Clear has found any more.
Change(flows) ==
    /\ known' = flows
    /\ old' = [c \in Cpus |-> old[c] \cap flows]
    /\ UNCHANGED <<op, arg>>

Advance(c, p) == at' = [at EXCEPT ![c] = p]

\* An insertion adds its flow, which is not there; or it returns false, because
\* the flow is there or there is no memory.
Insert(c) ==
    /\ Runs(c, "insert") /\ arg[c] \notin known
    /\ Change(known \cup {arg[c]}) /\ Advance(c, "over")
Refuse(c) == Runs(c, "insert") /\ Return(c)

Delete(c) ==
    /\ Runs(c, "delete") /\ arg[c] \in known
    /\ Change(known \ {arg[c]}) /\ Advance(c, "over")

\* A search finds the entry of its flow if there is one, and its caller uses it
\* while it is there.
Hit(c) ==
    /\ Runs(c, "use") /\ arg[c] \in known /\ Advance(c, "holds")
    /\ UNCHANGED <<known, old, op, arg>>
Use(c) == at[c] = "holds" /\ arg[c] \in known /\ Return(c)

Miss(c) ==
    /\ op[c] \in Searches /\ at[c] = "called" /\ arg[c] \notin known
    /\ Advance(c, "over")
    /\ UNCHANGED <<known, old, op, arg>>

\* A clear takes the flows away in any portions, and returns when none of those it
\* has found is left; what others insert meanwhile may stay.
Forget(c) ==
    /\ Runs(c, "clear") /\ \E flows \in SUBSET known : Change(flows)
    /\ UNCHANGED at
Cleared(c) == Runs(c, "clear") /\ old[c] = {} /\ Return(c)

Done(c) == at[c] = "over" /\ Return(c)

Next ==
    \E c \in Cpus :
        \/ \E f \in Flows, o \in {"insert", "delete", "use"} : Call(c, o, f)
        \/ CallClear(c)
        \/ Insert(c) \/ Refuse(c) \/ Delete(c) \/ Hit(c) \/ Use(c) \/ Miss(c)
        \/ Forget(c) \/ Cleared(c) \/ Done(c)

Spec == Init /\ [][Next]_setVars
=============================================================================
