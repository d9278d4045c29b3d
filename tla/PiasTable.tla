----------------------------- MODULE PiasTable -----------------------------
(***************************************************************************)
(* The flow table of the PIAS kernel module (PIAS/flow.c): an array of     *)
(* lists, each with a lock that is held while the list is changed, but not *)
(* while it is searched; an entry found by a search is used after it.  The *)
(* hooks, the probe and the operator's table operations run on several     *)
(* CPUs, and all overlap: no lock keeps a search from a deletion.          *)
(*                                                                         *)
(* A region under a list's lock is one step.  A search is one step per     *)
(* entry, which compares it and reads its link.  What the access of a CPU  *)
(* to a freed entry does is undefined, and makes no step in the model: a   *)
(* CPU that holds one (Stale) is about to make that access.  The model is  *)
(* thus every run up to the first use of freed memory, which can come      *)
(* (UpdatesExisting), and what holds in it holds of the code until then.   *)
(***************************************************************************)
EXTENDS Integers, Sequences, FiniteSets

CONSTANTS Cpus,
          Flows,    \* the 4-tuples
          Nodes,    \* memory for entries; kmalloc fails when all is in use
          NoNode, NoFlow,
          Buckets,  \* PIAS_HASH_RANGE
          Hash,     \* PIAS_Hash_Flow
          SynsInTurn  \* do two SYNs of one flow never overlap? see May

ASSUME TableAssumption ==
    /\ Buckets \in Nat \ {0}
    /\ Hash \in [Flows -> 0 .. Buckets - 1]
    /\ NoNode \notin Nodes /\ NoFlow \notin Flows
    /\ SynsInTurn \in BOOLEAN

VARIABLES list,  \* the entries of every flow list, in order
          len,   \* PIAS_Flow_List.len
          size,  \* PIAS_Flow_Table.size
          flow,  \* the 4-tuple of every entry, NoFlow when it is free
          old,   \* history: what a Clear has found and nobody has taken away yet
          op,    \* the operation of every CPU
          arg,   \* its 4-tuple
          pc, ptr,
          bkt    \* the list a Clear is at

cpuVars == <<op, arg, pc, ptr, bkt>>
tableVars == <<list, len, size, flow, old>>
vars == <<tableVars, cpuVars>>

Lists == 0 .. Buckets - 1
Entries(s) == {s[i] : i \in DOMAIN s}
Linked == UNION {Entries(list[b]) : b \in Lists}
Known == {flow[n] : n \in Linked}  \* the flows in the table
At(p) == {c \in Cpus : pc[c] = p}

TypeOK ==
    /\ list \in [Lists -> Seq(Nodes)] /\ len \in [Lists -> 0 .. Cardinality(Nodes)]
    /\ size \in Int /\ flow \in [Nodes -> Flows \cup {NoFlow}] /\ old \in [Cpus -> SUBSET Flows]
    /\ op \in [Cpus -> {"none", "insert", "delete", "use", "clear"}]
    /\ arg \in [Cpus -> Flows \cup {NoFlow}]
    /\ pc \in [Cpus -> {"idle", "walk", "alloc", "add", "inc", "del", "dec", "use", "clear"}]
    /\ ptr \in [Cpus -> Nodes \cup {NoNode}]
    /\ bkt \in [Cpus -> 0 .. Buckets]

Init ==
    /\ list = [b \in Lists |-> <<>>] /\ len = [b \in Lists |-> 0] /\ size = 0
    /\ flow = [n \in Nodes |-> NoFlow] /\ old = [c \in Cpus |-> {}]
    /\ op = [c \in Cpus |-> "none"] /\ arg = [c \in Cpus |-> NoFlow]
    /\ pc = [c \in Cpus |-> "idle"] /\ ptr = [c \in Cpus |-> NoNode]
    /\ bkt = [c \in Cpus |-> 0]

-----------------------------------------------------------------------------
(* Starting and ending operations.                                         *)

\* Everything overlaps, but for two insertions of one flow: a local socket sends
\* its SYN, and a listener its SYN-ACK, under the lock of that socket (in the kernels
\* of PIAS/README.md:10).  Forwarded SYNs have no such lock.
May(c, o, f) ==
    /\ pc[c] = "idle"
    /\ SynsInTurn /\ o = "insert" => \A d \in Cpus : op[d] = "insert" => arg[d] # f

Go(c, p) == pc' = [pc EXCEPT ![c] = p]
End(c) ==
    /\ Go(c, "idle")
    /\ op' = [op EXCEPT ![c] = "none"] /\ arg' = [arg EXCEPT ![c] = NoFlow]
    /\ ptr' = [ptr EXCEPT ![c] = NoNode] /\ bkt' = [bkt EXCEPT ![c] = 0]

\* SYN, FIN or RST, and any other packet or tcp_sendmsg; all search first.
Start(c, o, f) ==
    /\ May(c, o, f)
    /\ op' = [op EXCEPT ![c] = o] /\ arg' = [arg EXCEPT ![c] = f]
    /\ ptr' = [ptr EXCEPT ![c] = IF list[Hash[f]] = <<>> THEN NoNode ELSE Head(list[Hash[f]])]
    /\ Go(c, "walk")
    /\ UNCHANGED <<tableVars, bkt>>

StartClear(c) ==
    /\ May(c, "clear", NoFlow)
    /\ op' = [op EXCEPT ![c] = "clear"]
    /\ Go(c, "clear")
    /\ old' = [old EXCEPT ![c] = Known]
    /\ UNCHANGED <<list, len, size, flow, arg, ptr, bkt>>

-----------------------------------------------------------------------------
(* PIAS_Search_List, and what the operations do with its result.           *)

Holds(c) == ptr[c] # NoNode /\ flow[ptr[c]] # NoFlow
Stale(c) == ptr[c] # NoNode /\ flow[ptr[c]] = NoFlow

\* What is left of what the Clears under way have found, after the table has
\* come to hold the flows fs.
Still(fs) == old' = [d \in Cpus |-> old[d] \cap fs]

\* The entry after n in its list.
NextOf(n, b) ==
    LET after == {i \in 2 .. Len(list[b]) : list[b][i - 1] = n}
    IN  IF after = {} THEN NoNode ELSE list[b][CHOOSE i \in after : TRUE]

WalkSkips(c) ==  \* faulty variant: every other entry is looked at
    /\ pc[c] = "walk" /\ Holds(c) /\ flow[ptr[c]] # arg[c]
    /\ LET next == NextOf(ptr[c], Hash[arg[c]])
       IN  ptr' = [ptr EXCEPT ![c] = IF next = NoNode THEN next ELSE NextOf(next, Hash[arg[c]])]
    /\ UNCHANGED <<tableVars, op, arg, pc, bkt>>

WalkOn(c) ==
    /\ pc[c] = "walk" /\ Holds(c) /\ flow[ptr[c]] # arg[c]
    /\ ptr' = [ptr EXCEPT ![c] = NextOf(ptr[c], Hash[arg[c]])]
    /\ UNCHANGED <<tableVars, op, arg, pc, bkt>>

InsertRegardless(c) ==  \* faulty variant: an equal entry is not looked for
    /\ pc[c] = "walk" /\ Holds(c) /\ flow[ptr[c]] = arg[c]
    /\ IF op[c] = "insert" THEN Go(c, "alloc") /\ UNCHANGED <<op, arg, bkt>>
       ELSE Go(c, IF op[c] = "delete" THEN "del" ELSE "use") /\ UNCHANGED <<op, arg, bkt>>
    /\ UNCHANGED <<tableVars, ptr>>

\* Found: an insertion fails ("equal flow"), the others use the entry.
Found(c) ==
    /\ pc[c] = "walk" /\ Holds(c) /\ flow[ptr[c]] = arg[c]
    /\ \/ op[c] = "insert" /\ End(c)
       \/ op[c] = "delete" /\ Go(c, "del") /\ UNCHANGED <<op, arg, ptr, bkt>>
       \/ op[c] = "use" /\ Go(c, "use") /\ UNCHANGED <<op, arg, ptr, bkt>>
    /\ UNCHANGED tableVars

NotFoundCounts(c) ==  \* faulty variant: size is changed for a flow that is not there
    /\ pc[c] = "walk" /\ ptr[c] = NoNode
    /\ IF op[c] = "use" THEN End(c)
       ELSE Go(c, IF op[c] = "insert" THEN "alloc" ELSE "dec") /\ UNCHANGED <<op, arg, ptr, bkt>>
    /\ UNCHANGED tableVars

NotFound(c) ==
    /\ pc[c] = "walk" /\ ptr[c] = NoNode
    /\ \/ op[c] = "insert" /\ Go(c, "alloc") /\ UNCHANGED <<op, arg, ptr, bkt>>
       \/ op[c] # "insert" /\ End(c)
    /\ UNCHANGED tableVars

\* kmalloc and the copy of the flow into the new entry.  (The name of an entry
\* that a stale CPU holds is not given to another.)
Allocate(c) ==
    /\ pc[c] = "alloc"
    /\ \E n \in {m \in Nodes : flow[m] = NoFlow /\ \A d \in Cpus : ptr[d] # m} :
        /\ flow' = [flow EXCEPT ![n] = arg[c]]
        /\ ptr' = [ptr EXCEPT ![c] = n]
    /\ Go(c, "add")
    /\ UNCHANGED <<list, len, size, old, op, arg, bkt>>

AllocateFails(c) ==
    /\ pc[c] = "alloc" /\ End(c)
    /\ UNCHANGED tableVars

\* The locked region of PIAS_Insert_List.
Add(c) ==
    /\ pc[c] = "add"
    /\ list' = [list EXCEPT ![Hash[arg[c]]] = Append(@, ptr[c])]
    /\ len' = [len EXCEPT ![Hash[arg[c]]] = @ + 1]
    /\ ptr' = [ptr EXCEPT ![c] = NoNode]
    /\ Go(c, "inc")
    /\ UNCHANGED <<size, flow, old, op, arg, bkt>>

IncSize(c) ==
    /\ pc[c] = "inc"
    /\ size' = size + 1
    /\ End(c) /\ UNCHANGED <<list, len, flow, old>>

\* list_del of an entry that is in the list.
Unlink(s, n) ==
    LET i == CHOOSE j \in DOMAIN s : s[j] = n
    IN  SubSeq(s, 1, i - 1) \o SubSeq(s, i + 1, Len(s))

RemoveKeepsLink(c) ==  \* faulty variant: list_del is forgotten
    /\ pc[c] = "del" /\ Holds(c)
    /\ flow' = [flow EXCEPT ![ptr[c]] = NoFlow]
    /\ len' = [len EXCEPT ![Hash[arg[c]]] = @ - 1]
    /\ ptr' = [ptr EXCEPT ![c] = NoNode]
    /\ UNCHANGED <<list, size, op, arg, bkt>>
    /\ Go(c, "dec") /\ Still(Known')

\* The locked region of PIAS_Delete_List: list_del and kfree.
Remove(c) ==
    /\ pc[c] = "del" /\ Holds(c)
    /\ list' = [list EXCEPT ![Hash[arg[c]]] = Unlink(@, ptr[c])]
    /\ flow' = [flow EXCEPT ![ptr[c]] = NoFlow]
    /\ len' = [len EXCEPT ![Hash[arg[c]]] = @ - 1]
    /\ ptr' = [ptr EXCEPT ![c] = NoNode]
    /\ Go(c, "dec") /\ Still(Known')
    /\ UNCHANGED <<size, op, arg, bkt>>

DecSize(c) ==
    /\ pc[c] = "dec"
    /\ size' = size - 1
    /\ End(c) /\ UNCHANGED <<list, len, flow, old>>

\* The hooks and the probe update the entry they found under its own lock.
Use(c) ==
    /\ pc[c] = "use" /\ Holds(c)
    /\ End(c) /\ UNCHANGED tableVars

-----------------------------------------------------------------------------
(* PIAS_Clear_Table.                                                       *)

ClearListOffByOne(c) ==  \* faulty variant: one list too many
    /\ pc[c] = "clear" /\ bkt[c] <= Buckets
    /\ bkt' = [bkt EXCEPT ![c] = @ + 1]
    /\ UNCHANGED <<tableVars, op, arg, pc, ptr>>

\* PIAS_Clear_List: it looks at len before it takes the lock.
ClearList(c) ==
    /\ pc[c] = "clear" /\ bkt[c] < Buckets
    /\ IF len[bkt[c]] > 0
       THEN /\ list' = [list EXCEPT ![bkt[c]] = <<>>]
            /\ len' = [len EXCEPT ![bkt[c]] = @ - Len(list[bkt[c]])]
            /\ flow' = [n \in Nodes |->
                           IF n \in Entries(list[bkt[c]]) THEN NoFlow ELSE flow[n]]
       ELSE UNCHANGED <<list, len, flow>>
    /\ Still(Known')
    /\ bkt' = [bkt EXCEPT ![c] = @ + 1]
    /\ UNCHANGED <<size, op, arg, pc, ptr>>

ClearSize(c) ==
    /\ pc[c] = "clear" /\ bkt[c] = Buckets
    /\ size' = 0
    /\ End(c) /\ UNCHANGED <<list, len, flow, old>>

-----------------------------------------------------------------------------
Work(c) ==
    \/ WalkOn(c) \/ Found(c) \/ NotFound(c) \/ Use(c)
    \/ Allocate(c) \/ AllocateFails(c) \/ Add(c) \/ IncSize(c)
    \/ Remove(c) \/ DecSize(c)
    \/ ClearList(c) \/ ClearSize(c)

Next ==
    \E c \in Cpus :
        \/ \E f \in Flows, o \in {"insert", "delete", "use"} : Start(c, o, f)
        \/ StartClear(c) \/ Work(c)

Spec == Init /\ [][Next]_vars

-----------------------------------------------------------------------------
(* Properties.                                                             *)

\* The table never has two entries for one flow, although the search of an
\* insertion and its addition are not under one lock and every operation but an
\* insertion of the same flow may change the list between them and under the search.
OneEntryPerFlow ==
    \A m, n \in Linked : flow[m] = flow[n] => m = n

\* An unlocked search, whatever is added to and deleted from the list around it,
\* never moves to a freed entry or into another list: it can only be left with an
\* entry that is freed while it stands there.
StepsOnLive ==
    [][\A c \in Cpus :
          ptr'[c] \notin {ptr[c], NoNode} =>
              flow'[ptr'[c]] # NoFlow /\ Hash[flow'[ptr'[c]]] = Hash[arg'[c]]]_vars

\* The entry that a hook is about to update is there (netfilter.c:95, 194: "Update
\* existing Flow entry's information").  It is violated: another CPU may have freed it.
UpdatesExisting == \A c \in Cpus : pc[c] = "use" => ptr[c] \in Linked

\* How far size is from the number of entries, up to the updates still to come.
Drift == size + Cardinality(At("inc")) - Cardinality(At("dec")) - Cardinality(Linked)

\* Only a clear can make the size wrong: while none is under way, insertions and
\* deletions of any CPUs in any lists keep it to the number of entries.
SizeKept == [][At("clear") = {} => Drift' = Drift]_vars

\* When all operations have returned, size is the number of entries, as flow.c:63
\* prints it ("there are %d flows in total").  It is violated after a clear that
\* something has overlapped.
SizeShown == At("idle") = Cpus => size = Cardinality(Linked)

\* What an operation has come to for its caller: a search that has passed the end
\* of its list without its flow is over.
Seen(c) ==
    CASE pc[c] = "idle" -> "idle"
      [] pc[c] = "use" -> "holds"
      [] pc[c] \in {"inc", "dec"} -> "over"
      [] pc[c] = "walk" /\ ptr[c] = NoNode /\ op[c] # "insert" -> "over"
      [] OTHER -> "called"

Progress == [c \in Cpus |-> Seen(c)]

FS == INSTANCE FlowSet WITH known <- Known, at <- Progress

\* netfilter.c:72-105, jprobe.c:34: to its callers the table is a set of flows, though
\* a search takes many steps and no lock: it finds no entry only if at some moment
\* since the call there was none, an entry is there when it is used, a deletion takes
\* away the one entry of its flow, and a clear leaves nothing that it has found.
ImplementsFlowSet == FS!Spec
=============================================================================
