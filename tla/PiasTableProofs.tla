-------------------------- MODULE PiasTableProofs --------------------------
(***************************************************************************)
(* The flow table of any number of CPUs, flows, entries and lists, with    *)
(* searches, additions, deletions and clears that overlap in every way.    *)
(* A search never steps to a freed entry, and only a clear can make the    *)
(* size wrong.  If moreover two SYNs of one flow do not overlap            *)
(* (SynsInTurn) there is one entry per flow, and to its callers the table  *)
(* is a set of flows (FlowSet).                                            *)
(*                                                                         *)
(* Then the table in the life of the module.  No CPU works on a table that *)
(* is not allocated: the order in which the module registers and           *)
(* unregisters what calls the table is right, if vmalloc succeeds and the  *)
(* table is cleared only while the module is live.  An unload then leaves  *)
(* nothing behind, and the next load finds the table as the specification  *)
(* of the table starts, so that all of the above holds through any number  *)
(* of loads.                                                               *)
(***************************************************************************)
EXTENDS PiasModule, SequenceTheorems, FiniteSetTheorems, TLAPS

Steps == {"idle", "walk", "alloc", "add", "inc", "del", "dec", "use", "clear"}
Ops == {"none", "insert", "delete", "use", "clear"}

Shape ==
    /\ list \in [Lists -> Seq(Nodes)] /\ len = [b \in Lists |-> Len(list[b])]
    /\ size \in Int /\ flow \in [Nodes -> Flows \cup {NoFlow}] /\ old \in [Cpus -> SUBSET Flows]
    /\ op \in [Cpus -> Ops] /\ arg \in [Cpus -> Flows \cup {NoFlow}]
    /\ pc \in [Cpus -> Steps] /\ ptr \in [Cpus -> Nodes \cup {NoNode}]
    /\ bkt \in [Cpus -> 0 .. Buckets]

\* A list holds live entries of its own flows, each entry once.
ListOK(b) ==
    \A i \in 1 .. Len(list[b]) :
        /\ flow[list[b][i]] \in Flows /\ Hash[flow[list[b][i]]] = b
        /\ \A j \in 1 .. Len(list[b]) : list[b][i] = list[b][j] => i = j
Listed == \A b \in Lists : ListOK(b)

\* Which steps belong to which operation.
Belongs(p, o) ==
    /\ p = "idle" <=> o = "none"
    /\ p = "walk" => o \in {"insert", "delete", "use"}
    /\ p \in {"alloc", "add", "inc"} => o = "insert"
    /\ p \in {"del", "dec"} => o = "delete"
    /\ p = "use" => o = "use"
    /\ p = "clear" <=> o = "clear"

\* The list a CPU works on, and where it is there: at its k-th entry, behind
\* none of its flow.
Row(c) == list[Hash[arg[c]]]
Stands(c, k) ==
    /\ ptr[c] = Row(c)[k]
    /\ pc[c] = "walk" => \A i \in 1 .. k - 1 : flow[Row(c)[i]] # arg[c]
    /\ pc[c] # "walk" => flow[ptr[c]] = arg[c]

\* An entry that is about to be added is in no list and in no other CPU's hands.
Fresh(c) ==
    /\ ptr[c] \in Nodes \ Linked /\ flow[ptr[c]] = arg[c]
    /\ \A d \in Cpus \ {c} : ptr[d] # ptr[c]

\* What a CPU knows at each of its steps, whatever the others do: the entry it
\* holds is in its list unless it has been freed.
Placed(c) ==
    /\ Belongs(pc[c], op[c])
    /\ arg[c] \in Flows <=> pc[c] \notin {"idle", "clear"}
    /\ pc[c] # "clear" => bkt[c] = 0
    /\ pc[c] \in {"idle", "clear", "alloc", "inc", "dec"} => ptr[c] = NoNode
    /\ pc[c] = "add" => Fresh(c)
    /\ pc[c] \in {"walk", "del", "use"} /\ Holds(c) => \E k \in 1 .. Len(Row(c)) : Stands(c, k)

\* Memory that is in use is in a list or about to be.
NoLeak ==
    \A n \in Nodes : flow[n] # NoFlow =>
        n \in Linked \/ \E c \in Cpus : pc[c] = "add" /\ ptr[c] = n

\* What a Clear has found and is still there is in the lists it has yet to come to.
Behind ==
    \A c \in Cpus :
        /\ old[c] \subseteq Known
        /\ pc[c] = "clear" => \A f \in old[c] : Hash[f] >= bkt[c]

TableInv == Shape /\ Listed /\ (\A c \in Cpus : Placed(c)) /\ NoLeak /\ Behind

-----------------------------------------------------------------------------
(* Entries, flows and lists.                                               *)

\* An entry is linked exactly if it is in the list of its flow.
LEMMA LinkedInList ==
    ASSUME Shape, Listed
    PROVE  /\ Linked \subseteq Nodes
           /\ \A b \in Lists : \A i \in 1 .. Len(list[b]) : list[b][i] \in Linked /\ list[b][i] \in Nodes
           /\ \A n \in Linked : /\ flow[n] \in Flows /\ Hash[flow[n]] \in Lists
                                /\ \E i \in 1 .. Len(list[Hash[flow[n]]]) : n = list[Hash[flow[n]]][i]
<1>1. \A b \in Lists : list[b] \in Seq(Nodes) /\ Entries(list[b]) = {list[b][i] : i \in 1 .. Len(list[b])}
  BY DEF Shape, Entries
<1>2. ASSUME NEW b \in Lists, NEW i \in 1 .. Len(list[b])
      PROVE  list[b][i] \in Linked /\ list[b][i] \in Nodes
  <2>1. list[b] \in Seq(Nodes) /\ list[b][i] \in Entries(list[b])
    BY <1>1
  <2> QED BY <2>1 DEF Linked
<1>3. ASSUME NEW n \in Linked
      PROVE  /\ n \in Nodes /\ flow[n] \in Flows /\ Hash[flow[n]] \in Lists
             /\ \E i \in 1 .. Len(list[Hash[flow[n]]]) : n = list[Hash[flow[n]]][i]
  <2>1. PICK b \in Lists : \E i \in 1 .. Len(list[b]) : n = list[b][i]
    BY <1>1 DEF Linked
  <2> QED BY <1>2, <2>1 DEF Listed, ListOK
<1> QED BY <1>2, <1>3

\* A flow is known exactly if its list has an entry of it.
LEMMA KnownInList ==
    ASSUME Shape, Listed
    PROVE  /\ Known \subseteq Flows
           /\ \A f \in Flows :
                f \in Known <=> \E i \in 1 .. Len(list[Hash[f]]) : flow[list[Hash[f]][i]] = f
<1>1. \A f \in Flows : Hash[f] \in Lists
  BY TableAssumption DEF Lists
<1>2. ASSUME NEW f \in Flows, NEW i \in 1 .. Len(list[Hash[f]]), flow[list[Hash[f]][i]] = f
      PROVE  f \in Known
  BY <1>1, <1>2, LinkedInList DEF Known
<1>3. ASSUME NEW f \in Known
      PROVE  f \in Flows /\ \E i \in 1 .. Len(list[Hash[f]]) : flow[list[Hash[f]][i]] = f
  <2>1. PICK n \in Linked : f = flow[n]
    BY DEF Known
  <2> QED BY <2>1, LinkedInList
<1> QED BY <1>2, <1>3

\* The entry after the k-th one of a list is the next one: no entry is there twice.
LEMMA NextIsNext ==
    ASSUME Shape, Listed, NEW b \in Lists, NEW k \in 1 .. Len(list[b])
    PROVE  NextOf(list[b][k], b) = IF k = Len(list[b]) THEN NoNode ELSE list[b][k + 1]
<1> DEFINE after == {i \in 2 .. Len(list[b]) : list[b][i - 1] = list[b][k]}
<1>1. Len(list[b]) \in Nat
  BY DEF Shape
<1>2. \A i \in 2 .. Len(list[b]) : list[b][i - 1] = list[b][k] => i = k + 1
  <2>1. SUFFICES ASSUME NEW i \in 2 .. Len(list[b]), list[b][i - 1] = list[b][k]
                 PROVE  i = k + 1
    OBVIOUS
  <2>2. i - 1 \in 1 .. Len(list[b])
    BY <1>1
  <2>3. i - 1 = k
    BY <2>1, <2>2 DEF Listed, ListOK
  <2> QED BY <2>3
<1>3. CASE k = Len(list[b])
  <2>1. after = {}
    BY <1>1, <1>2, <1>3
  <2> QED BY <2>1, <1>3 DEF NextOf
<1>4. CASE k # Len(list[b])
  <2>1. k + 1 \in 2 .. Len(list[b]) /\ (k + 1) - 1 = k
    BY <1>1, <1>4
  <2>2. after = {k + 1}
    BY <1>2, <2>1
  <2>3. (CHOOSE i \in after : TRUE) = k + 1 /\ after # {}
    BY <2>2
  <2> QED BY <2>3, <1>4 DEF NextOf
<1> QED BY <1>3, <1>4

\* list_del takes one entry out and keeps the order of the others.
LEMMA UnlinkTakesOne ==
    ASSUME NEW s \in Seq(Nodes), NEW k \in 1 .. Len(s),
           \A j \in 1 .. Len(s) : s[j] = s[k] => j = k
    PROVE  /\ Unlink(s, s[k]) \in Seq(Nodes) /\ Len(Unlink(s, s[k])) = Len(s) - 1
           /\ \A i \in 1 .. Len(s) - 1 : Unlink(s, s[k])[i] = IF i < k THEN s[i] ELSE s[i + 1]
           /\ Entries(Unlink(s, s[k])) = Entries(s) \ {s[k]}
<1>1. (CHOOSE j \in DOMAIN s : s[j] = s[k]) = k
  <2>1. DOMAIN s = 1 .. Len(s)
    OBVIOUS
  <2> QED BY <2>1
<1> DEFINE front == SubSeq(s, 1, k - 1)  back == SubSeq(s, k + 1, Len(s))
<1>2. Unlink(s, s[k]) = front \o back
  BY <1>1 DEF Unlink
<1>3. front \in Seq(Nodes) /\ Len(front) = k - 1 /\ \A i \in 1 .. k - 1 : front[i] = s[i]
  OBVIOUS
<1>4. /\ back \in Seq(Nodes) /\ Len(back) = Len(s) - k
      /\ \A i \in 1 .. Len(s) - k : back[i] = s[i + k]
  OBVIOUS
<1> HIDE DEF front, back
<1>5. front \o back \in Seq(Nodes) /\ Len(front \o back) = Len(s) - 1
  <2>1. Len(s) \in Nat /\ k \in Nat
    OBVIOUS
  <2>2. front \o back \in Seq(Nodes) /\ Len(front \o back) = Len(front) + Len(back)
    BY <1>3, <1>4, ConcatProperties
  <2> QED BY <1>3, <1>4, <2>1, <2>2
<1>6. ASSUME NEW i \in 1 .. Len(s) - 1
      PROVE  (front \o back)[i] = IF i < k THEN s[i] ELSE s[i + 1]
  <2>1. Len(s) \in Nat /\ k \in Nat /\ i \in 1 .. Len(front) + Len(back)
    BY <1>3, <1>4
  <2>2. (front \o back)[i] = IF i <= k - 1 THEN front[i] ELSE back[i - (k - 1)]
    BY <1>3, <1>4, <2>1, ConcatProperties
  <2>3. CASE i < k
    BY <1>3, <2>1, <2>2, <2>3
  <2>4. CASE i >= k
    <3>1. i - (k - 1) \in 1 .. Len(s) - k /\ (i - (k - 1)) + k = i + 1
      BY <2>1, <2>4
    <3> QED BY <1>4, <2>1, <2>2, <2>4, <3>1
  <2> QED BY <2>1, <2>3, <2>4
<1>7. Entries(front \o back) = Entries(s) \ {s[k]}
  <2> DEFINE u == front \o back
  <2>1. DOMAIN u = 1 .. Len(s) - 1 /\ DOMAIN s = 1 .. Len(s) /\ Len(s) \in Nat
    BY <1>5
  <2>2. \A i \in 1 .. Len(s) - 1 : u[i] = IF i < k THEN s[i] ELSE s[i + 1]
    BY <1>6
  <2> HIDE DEF u
  <2>3. ASSUME NEW i \in DOMAIN u PROVE u[i] \in Entries(s) \ {s[k]}
    <3>1. i \in 1 .. Len(s) /\ i + 1 \in 1 .. Len(s)
      BY <2>1
    <3>2. u[i] = IF i < k THEN s[i] ELSE s[i + 1]
      BY <2>1, <2>2
    <3>3. CASE i < k
      <4>1. u[i] = s[i] /\ i # k
        BY <3>2, <3>3
      <4> QED BY <3>1, <4>1, <2>1 DEF Entries
    <3>4. CASE ~(i < k)
      <4>1. u[i] = s[i + 1] /\ i + 1 # k
        BY <3>1, <3>2, <3>4
      <4> QED BY <3>1, <4>1, <2>1 DEF Entries
    <3> QED BY <3>3, <3>4
  <2>4. ASSUME NEW m \in DOMAIN s, s[m] # s[k] PROVE s[m] \in Entries(u)
    <3>1. CASE m < k
      <4>1. m \in DOMAIN u /\ u[m] = s[m]
        BY <2>1, <2>2, <3>1
      <4> QED BY <4>1 DEF Entries
    <3>2. CASE ~(m < k)
      <4>1. m - 1 \in DOMAIN u /\ ~(m - 1 < k) /\ (m - 1) + 1 = m
        BY <2>1, <2>4, <3>2
      <4>2. u[m - 1] = s[m]
        BY <2>1, <2>2, <4>1
      <4> QED BY <4>1, <4>2 DEF Entries
    <3> QED BY <3>1, <3>2
  <2>5. Entries(u) \subseteq Entries(s) \ {s[k]}
    BY <2>3 DEF Entries
  <2>6. Entries(s) \ {s[k]} \subseteq Entries(u)
    BY <2>4 DEF Entries
  <2>7. Entries(u) = Entries(s) \ {s[k]}
    BY <2>5, <2>6
  <2> QED BY <2>7 DEF u
<1> QED BY <1>2, <1>5, <1>6, <1>7

-----------------------------------------------------------------------------
(* What the steps of a list do to it.                                      *)

\* Before its search has found an entry or its addition has put one in, an
\* operation works on a list of its flow.
LEMMA WorksOnList ==
    ASSUME TableInv, NEW c \in Cpus, pc[c] \notin {"idle", "clear"}
    PROVE  /\ arg[c] \in Flows /\ Hash[arg[c]] \in Lists
           /\ Row(c) \in Seq(Nodes) /\ Len(Row(c)) \in Nat
<1>1. arg[c] \in Flows /\ Hash[arg[c]] \in Lists
  BY TableAssumption DEF TableInv, Placed, Lists
<1> QED BY <1>1 DEF TableInv, Shape, Row

\* What a CPU holds that is not freed and not fresh is linked.
LEMMA HeldLinked ==
    ASSUME TableInv, NEW c \in Cpus, pc[c] \in {"walk", "del", "use"}, Holds(c)
    PROVE  ptr[c] \in Linked /\ ptr[c] \in Nodes
<1>1. PICK k \in 1 .. Len(Row(c)) : ptr[c] = Row(c)[k]
  BY DEF TableInv, Placed, Stands
<1> QED BY <1>1, WorksOnList, LinkedInList DEF TableInv, Row

\* A new entry is in no list until it is added.
LEMMA AllocateLinks ==
    ASSUME TableInv, NEW c \in Cpus, Allocate(c)
    PROVE  /\ Linked' = Linked /\ Known' = Known
           /\ \A n \in Nodes : flow[n] # NoFlow => flow'[n] = flow[n]
<1>1. PICK n \in Nodes : flow[n] = NoFlow /\ flow' = [flow EXCEPT ![n] = arg[c]] /\ list' = list
  BY DEF Allocate
<1>2. Linked' = Linked
  BY <1>1 DEF Linked
<1>3. \A m \in Nodes : flow[m] # NoFlow => flow'[m] = flow[m]
  BY <1>1 DEF TableInv, Shape
<1>4. \A m \in Linked : m \in Nodes /\ flow[m] # NoFlow
  BY LinkedInList, TableAssumption DEF TableInv
<1> QED BY <1>2, <1>3, <1>4 DEF Known

\* An entry that is added is new to the table.
LEMMA AddLinks ==
    ASSUME TableInv, NEW c \in Cpus, Add(c)
    PROVE  /\ Linked' = Linked \cup {ptr[c]} /\ ptr[c] \in Nodes \ Linked
           /\ flow[ptr[c]] = arg[c] /\ Known' = Known \cup {arg[c]}
<1> DEFINE h == Hash[arg[c]]  L == list[h]
<1>1. pc[c] = "add" /\ list' = [list EXCEPT ![h] = Append(L, ptr[c])] /\ flow' = flow
  BY DEF Add
<1>2. h \in Lists /\ L \in Seq(Nodes) /\ Len(L) \in Nat
  BY <1>1, WorksOnList DEF Row
<1>3. ptr[c] \in Nodes \ Linked /\ flow[ptr[c]] = arg[c]
  BY <1>1 DEF TableInv, Placed, Fresh
<1> HIDE DEF h, L
<1>4. Linked' = Linked \cup {ptr[c]}
  <2>1. Entries(Append(L, ptr[c])) = Entries(L) \cup {ptr[c]}
    BY <1>2, <1>3 DEF Entries
  <2>2. list'[h] = Append(L, ptr[c]) /\ \A b \in Lists \ {h} : list'[b] = list[b]
    BY <1>1, <1>2 DEF TableInv, Shape
  <2>3. UNION {Entries(list'[b]) : b \in Lists} = (UNION {Entries(list[b]) : b \in Lists}) \cup {ptr[c]}
    BY <2>1, <2>2, <1>2 DEF L
  <2> QED BY <2>3 DEF Linked, Lists
<1> QED BY <1>1, <1>3, <1>4 DEF Known

\* An entry that is removed was in the table, in its list, once; other entries of
\* its flow may be left.
LEMMA RemoveUnlinks ==
    ASSUME TableInv, NEW c \in Cpus, Remove(c)
    PROVE  /\ Linked' = Linked \ {ptr[c]} /\ ptr[c] \in Linked
           /\ flow[ptr[c]] = arg[c] /\ Hash[arg[c]] \in Lists
           /\ \A n \in Linked' : n \in Nodes /\ n # ptr[c] /\ flow'[n] = flow[n]
           /\ Known' \subseteq Known /\ Known \ {arg[c]} \subseteq Known'
<1> DEFINE h == Hash[arg[c]]  L == list[h]  U == Unlink(L, ptr[c])
<1>1. /\ pc[c] = "del" /\ Holds(c) /\ list' = [list EXCEPT ![h] = U]
      /\ flow' = [flow EXCEPT ![ptr[c]] = NoFlow]
  BY DEF Remove
<1>2. h \in Lists /\ L \in Seq(Nodes) /\ Len(L) \in Nat
  BY <1>1, WorksOnList DEF Row
<1>3. PICK k \in 1 .. Len(L) : ptr[c] = L[k] /\ flow[ptr[c]] = arg[c]
  BY <1>1 DEF TableInv, Placed, Row, Stands
<1>4. \A j \in 1 .. Len(L) : L[j] = L[k] => j = k
  BY <1>2 DEF TableInv, Listed, ListOK
<1> HIDE DEF h, L, U
<1>5. Entries(U) = Entries(L) \ {ptr[c]}
  BY <1>2, <1>3, <1>4, UnlinkTakesOne DEF U
<1>6. list'[h] = U /\ \A b \in Lists \ {h} : list'[b] = list[b]
  BY <1>1, <1>2 DEF TableInv, Shape
<1>7. \A b \in Lists \ {h} : ptr[c] \notin Entries(list[b])
  <2>1. SUFFICES ASSUME NEW b \in Lists \ {h}, NEW i \in 1 .. Len(list[b]), ptr[c] = list[b][i]
                 PROVE  FALSE
    <3>1. \A b \in Lists \ {h} : list[b] \in Seq(Nodes)
      BY DEF TableInv, Shape
    <3> QED BY <3>1 DEF Entries
  <2>2. Hash[flow[ptr[c]]] = b
    BY <2>1 DEF TableInv, Listed, ListOK
  <2> QED BY <1>3, <2>2 DEF h
<1>8. Linked' = Linked \ {ptr[c]} /\ ptr[c] \in Linked
  <2>1. UNION {Entries(list'[b]) : b \in Lists} = (UNION {Entries(list[b]) : b \in Lists}) \ {ptr[c]}
    BY <1>2, <1>5, <1>6, <1>7 DEF L
  <2>2. ptr[c] \in Entries(L)
    BY <1>2, <1>3 DEF Entries
  <2> QED BY <1>2, <2>1, <2>2 DEF Linked, Lists, L
<1>9. \A n \in Linked' : n \in Nodes /\ n # ptr[c] /\ flow'[n] = flow[n]
  BY <1>1, <1>8, LinkedInList DEF TableInv, Shape
<1> QED BY <1>2, <1>3, <1>8, <1>9 DEF h, Known

\* PIAS_Clear_List looks at len first, which makes no difference.
LEMMA ClearMakesEmpty ==
    ASSUME Shape, NEW c \in Cpus, ClearList(c)
    PROVE  /\ bkt[c] \in Lists /\ bkt' = [bkt EXCEPT ![c] = bkt[c] + 1] /\ bkt[c] + 1 \in 0 .. Buckets
           /\ list' = [list EXCEPT ![bkt[c]] = <<>>] /\ len' = [len EXCEPT ![bkt[c]] = 0]
           /\ flow' = [n \in Nodes |-> IF n \in Entries(list[bkt[c]]) THEN NoFlow ELSE flow[n]]
<1>1. bkt[c] \in Lists /\ bkt' = [bkt EXCEPT ![c] = bkt[c] + 1] /\ bkt[c] + 1 \in 0 .. Buckets
  BY TableAssumption DEF ClearList, Shape, Lists
<1>2. list[bkt[c]] \in Seq(Nodes) /\ Len(list[bkt[c]]) \in Nat /\ len[bkt[c]] = Len(list[bkt[c]])
  BY <1>1 DEF Shape
<1>3. CASE len[bkt[c]] > 0
  <2>1. len[bkt[c]] - Len(list[bkt[c]]) = 0
    BY <1>2
  <2> QED BY <1>1, <1>3, <2>1 DEF ClearList
<1>4. CASE ~(len[bkt[c]] > 0)
  <2>1. UNCHANGED <<list, len, flow>>
    BY <1>4 DEF ClearList
  <2>2. list[bkt[c]] = <<>> /\ len[bkt[c]] = 0
    BY <1>2, <1>4
  <2>3. Entries(list[bkt[c]]) = {}
    BY <2>2 DEF Entries
  <2>4. list' = [list EXCEPT ![bkt[c]] = <<>>] /\ len' = [len EXCEPT ![bkt[c]] = 0]
    BY <1>1, <2>1, <2>2 DEF Shape
  <2>5. flow' = [n \in Nodes |-> IF n \in Entries(list[bkt[c]]) THEN NoFlow ELSE flow[n]]
    BY <2>1, <2>3 DEF Shape
  <2> QED BY <1>1, <2>4, <2>5
<1> QED BY <1>3, <1>4

\* A Clear takes the entries of one list.
LEMMA ClearUnlinks ==
    ASSUME TableInv, NEW c \in Cpus, ClearList(c)
    PROVE  /\ Linked' = Linked \ Entries(list[bkt[c]])
           /\ \A n \in Linked' : n \in Nodes /\ flow'[n] = flow[n]
           /\ Known' = {f \in Known : Hash[f] # bkt[c]}
<1> DEFINE a == bkt[c]
<1>1. a \in Lists
  BY ClearMakesEmpty DEF TableInv
<1>2. list' = [list EXCEPT ![a] = <<>>]
  BY ClearMakesEmpty DEF TableInv
<1>3. flow' = [n \in Nodes |-> IF n \in Entries(list[a]) THEN NoFlow ELSE flow[n]]
  BY ClearMakesEmpty DEF TableInv
<1> HIDE DEF a
<1>4. list'[a] = <<>> /\ \A b \in Lists \ {a} : list'[b] = list[b]
  BY <1>1, <1>2 DEF TableInv, Shape
<1>5. \A n \in Linked : n \in Entries(list[a]) <=> Hash[flow[n]] = a
  <2>1. list[a] \in Seq(Nodes)
    BY <1>1 DEF TableInv, Shape
  <2>2. ASSUME NEW n \in Entries(list[a]) PROVE Hash[flow[n]] = a
    BY <1>1, <2>1 DEF TableInv, Listed, ListOK, Entries
  <2>3. ASSUME NEW n \in Linked, Hash[flow[n]] = a PROVE n \in Entries(list[a])
    BY <2>1, <2>3, LinkedInList DEF TableInv, Entries
  <2> QED BY <2>2, <2>3
<1>6. \A b \in Lists \ {a} : Entries(list[b]) \cap Entries(list[a]) = {}
  <2>1. ASSUME NEW b \in Lists, NEW n \in Entries(list[b]) PROVE Hash[flow[n]] = b
    <3>1. list[b] \in Seq(Nodes)
      BY DEF TableInv, Shape
    <3> QED BY <3>1 DEF TableInv, Listed, ListOK, Entries
  <2> QED BY <1>1, <2>1
<1>7. Linked' = Linked \ Entries(list[a])
  <2>1. Entries(<<>>) = {}
    BY DEF Entries
  <2>2. UNION {Entries(list'[b]) : b \in Lists} = (UNION {Entries(list[b]) : b \in Lists}) \ Entries(list[a])
    BY <1>1, <1>4, <1>6, <2>1
  <2> QED BY <2>2 DEF Linked, Lists
<1>8. \A n \in Linked' : n \in Nodes /\ flow'[n] = flow[n]
  BY <1>3, <1>7, LinkedInList DEF TableInv
<1>9. Known' = {f \in Known : Hash[f] # a}
  BY <1>5, <1>7, <1>8 DEF Known
<1> QED BY <1>7, <1>8, <1>9 DEF a

-----------------------------------------------------------------------------
(* The invariant.                                                          *)

\* A list still has, in its order, what it had and has not been freed.
Moved(b) ==
    \A k \in 1 .. Len(list[b]) :
        flow'[list[b][k]] # NoFlow =>
            \E m \in 1 .. Len(list'[b]) :
                /\ list'[b][m] = list[b][k]
                /\ \A i \in 1 .. m - 1 : \E j \in 1 .. k - 1 : list'[b][i] = list[b][j]

\* What other CPUs know survives a step that frees entries or puts new ones at
\* the end of a list.
LEMMA OthersPlaced ==
    ASSUME TableInv, Shape', Listed', NEW c \in Cpus,
           \A d \in Cpus \ {c} : /\ pc'[d] = pc[d] /\ op'[d] = op[d] /\ arg'[d] = arg[d]
                                 /\ ptr'[d] = ptr[d] /\ bkt'[d] = bkt[d],
           \A b \in Lists : Moved(b),
           \A n \in Nodes : flow[n] # NoFlow => flow'[n] \in {flow[n], NoFlow},
           \A d \in Cpus \ {c} : Stale(d) => flow'[ptr[d]] = NoFlow,
           \A d \in Cpus \ {c} : pc[d] = "add" => /\ ptr[d] \notin Linked' /\ ptr'[c] # ptr[d]
                                                  /\ flow'[ptr[d]] = flow[ptr[d]]
    PROVE  \A d \in Cpus \ {c} : Placed(d)'
<1> SUFFICES ASSUME NEW d \in Cpus \ {c} PROVE Placed(d)'
  OBVIOUS
<1>1. /\ pc'[d] = pc[d] /\ op'[d] = op[d] /\ arg'[d] = arg[d] /\ ptr'[d] = ptr[d]
      /\ bkt'[d] = bkt[d] /\ Placed(d)
  BY DEF TableInv
<1>2. ASSUME pc[d] = "add" PROVE Fresh(d)'
  <2>1. Fresh(d)
    BY <1>1, <1>2 DEF Placed
  <2>2. \A e \in Cpus \ {d} : ptr'[e] # ptr'[d]
    BY <1>1, <1>2, <2>1 DEF Fresh
  <2> QED BY <1>1, <1>2, <2>1, <2>2 DEF Fresh
<1>3. ASSUME pc[d] \in {"walk", "del", "use"}, Holds(d)'
      PROVE  \E k \in 1 .. Len(Row(d)') : Stands(d, k)'
  <2>1. ptr[d] \in Nodes /\ flow'[ptr[d]] # NoFlow /\ Holds(d)
    BY <1>1, <1>3 DEF Holds, Stale, TableInv, Shape
  <2>2. PICK k \in 1 .. Len(Row(d)) : Stands(d, k)
    BY <1>1, <1>3, <2>1 DEF Placed
  <2>3. PICK b \in Lists : Row(d) = list[b] /\ Row(d)' = list'[b] /\ Len(list'[b]) \in Nat
    <3>1. Hash[arg[d]] \in Lists
      BY <1>3, WorksOnList
    <3> QED BY <3>1, <1>1 DEF Row, Shape, Lists
  <2>4. PICK m \in 1 .. Len(list'[b]) :
          /\ list'[b][m] = list[b][k]
          /\ \A i \in 1 .. m - 1 : \E j \in 1 .. k - 1 : list'[b][i] = list[b][j]
    <3>1. k \in 1 .. Len(list[b]) /\ flow'[list[b][k]] # NoFlow
      BY <2>1, <2>2, <2>3 DEF Stands
    <3>2. Moved(b)
      BY <2>3
    <3> QED BY <3>1, <3>2, Zenon DEF Moved
  <2>5. ASSUME pc[d] = "walk", NEW i \in 1 .. m - 1
        PROVE  flow'[list'[b][i]] # arg[d]
    <3>1. PICK j \in 1 .. k - 1 : list'[b][i] = list[b][j]
      BY <2>4
    <3>2. j \in 1 .. Len(list[b]) /\ i \in 1 .. Len(list'[b])
      BY <2>2, <2>3 DEF TableInv, Shape
    <3>3. flow[list[b][j]] \in Flows /\ flow'[list[b][j]] \in Flows
      BY <2>3, <3>1, <3>2 DEF TableInv, Listed, ListOK, Lists
    <3>4. list[b][j] \in Nodes
      BY <2>3, <3>2, LinkedInList DEF TableInv
    <3>5. flow'[list[b][j]] = flow[list[b][j]]
      BY <3>3, <3>4, TableAssumption
    <3> QED BY <2>2, <2>3, <2>5, <3>1, <3>5 DEF Stands
  <2>6. pc[d] # "walk" => flow'[ptr[d]] = arg[d]
    BY <2>1, <2>2 DEF Stands, Holds
  <2>7. Stands(d, m)'
    BY <1>1, <2>2, <2>3, <2>4, <2>5, <2>6 DEF Stands
  <2> QED BY <2>3, <2>7
<1> QED BY <1>1, <1>2, <1>3 DEF Placed

\* A step of one CPU that changes no list and no entry.
LEMMA QuietKeeps ==
    ASSUME TableInv, Shape', NEW c \in Cpus, Placed(c)', pc[c] # "add",
           UNCHANGED <<list, flow>>, ptr'[c] \in Linked \cup {NoNode},
           \A d \in Cpus \ {c} : /\ pc'[d] = pc[d] /\ op'[d] = op[d] /\ arg'[d] = arg[d]
                                 /\ ptr'[d] = ptr[d] /\ bkt'[d] = bkt[d] /\ old'[d] = old[d],
           old'[c] \subseteq Known, pc'[c] = "clear" => \A f \in old'[c] : Hash[f] >= bkt'[c]
    PROVE  TableInv'
<1>1. Linked' = Linked /\ Known' = Known
  BY DEF Linked, Known
<1>2. Listed'
  BY DEF TableInv, Listed, ListOK
<1>3. \A b \in Lists : Moved(b)
  <2>1. SUFFICES ASSUME NEW b \in Lists, NEW k \in 1 .. Len(list[b])
                 PROVE  \A i \in 1 .. k - 1 : \E j \in 1 .. k - 1 : list'[b][i] = list[b][j]
    BY DEF Moved
  <2> QED OBVIOUS
<1>4. \A d \in Cpus \ {c} : pc[d] = "add" => ptr[d] \in Nodes \ Linked
  BY DEF TableInv, Placed, Fresh
<1>5. \A d \in Cpus \ {c} : Placed(d)'
  BY <1>1, <1>2, <1>3, <1>4, OthersPlaced, TableAssumption DEF Stale
<1>6. NoLeak'
  BY <1>1 DEF TableInv, NoLeak
<1>7. Behind'
  BY <1>1 DEF TableInv, Behind
<1> QED BY <1>2, <1>5, <1>6, <1>7 DEF TableInv

\* At first nobody is in the table and nothing is in it.
LEMMA TableStarts == Init => TableInv
<1> SUFFICES ASSUME Init PROVE TableInv
  OBVIOUS
<1>1. Shape
  <2>1. len = [b \in Lists |-> Len(list[b])]
    BY DEF Init
  <2> QED BY <2>1, TableAssumption DEF Init, Shape, Steps, Ops, Lists
<1>2. Listed /\ NoLeak /\ Behind
  BY DEF Init, Listed, ListOK, NoLeak, Behind
<1>3. \A c \in Cpus : Placed(c)
  BY TableAssumption DEF Init, Placed, Belongs
<1> QED BY <1>1, <1>2, <1>3 DEF TableInv

\* A search begins at the head of the list, behind nothing.
LEMMA StartKeeps ==
    ASSUME TableInv, NEW c \in Cpus, NEW f \in Flows,
           NEW o \in {"insert", "delete", "use"}, Start(c, o, f)
    PROVE  TableInv'
<1> USE TableAssumption
<1> DEFINE L == list[Hash[f]]
           n == IF L = <<>> THEN NoNode ELSE Head(L)
<1>1. /\ pc[c] = "idle" /\ op' = [op EXCEPT ![c] = o] /\ arg' = [arg EXCEPT ![c] = f]
      /\ ptr' = [ptr EXCEPT ![c] = n] /\ pc' = [pc EXCEPT ![c] = "walk"]
      /\ UNCHANGED <<list, len, size, flow, old, bkt>>
  BY DEF Start, May, Go, tableVars
<1>2. Hash[f] \in Lists /\ L \in Seq(Nodes)
  BY DEF Lists, TableInv, Shape
<1>3. L # <<>> => 1 \in 1 .. Len(L) /\ Head(L) = L[1] /\ Head(L) \in Linked /\ Head(L) \in Nodes
  <2>1. L # <<>> => 1 \in 1 .. Len(L) /\ Head(L) = L[1]
    BY <1>2
  <2> QED BY <2>1, <1>2, LinkedInList DEF TableInv
<1> HIDE DEF L
<1>4. Shape'
  BY <1>1, <1>3 DEF TableInv, Shape, Steps, Ops
<1>5. Placed(c)'
  <2>1. /\ pc'[c] = "walk" /\ op'[c] = o /\ arg'[c] = f /\ Row(c)' = L
        /\ flow' = flow /\ ptr'[c] = n /\ bkt'[c] = 0
    BY <1>1 DEF TableInv, Shape, Row, L, Placed
  <2>2. ASSUME Holds(c)' PROVE \E k \in 1 .. Len(Row(c)') : Stands(c, k)'
    <3>1. L # <<>> /\ ptr'[c] = L[1] /\ 1 \in 1 .. Len(Row(c)')
      BY <1>3, <2>1, <2>2 DEF Holds
    <3>2. Stands(c, 1)'
      BY <2>1, <3>1 DEF Stands
    <3> QED BY <3>1, <3>2
  <2> QED BY <2>1, <2>2 DEF Placed, Belongs
<1>6. /\ ptr'[c] \in Linked \cup {NoNode} /\ old'[c] \subseteq Known /\ pc'[c] # "clear"
      /\ \A d \in Cpus \ {c} : /\ pc'[d] = pc[d] /\ op'[d] = op[d] /\ arg'[d] = arg[d]
                               /\ ptr'[d] = ptr[d] /\ bkt'[d] = bkt[d] /\ old'[d] = old[d]
  BY <1>1, <1>3 DEF TableInv, Shape, Behind
<1> QED BY <1>1, <1>4, <1>5, <1>6, QuietKeeps

\* A Clear begins with what is in the table, all before it.
LEMMA StartClearKeeps ==
    ASSUME TableInv, NEW c \in Cpus, StartClear(c)
    PROVE  TableInv'
<1> USE TableAssumption
<1>1. /\ pc[c] = "idle" /\ op' = [op EXCEPT ![c] = "clear"] /\ pc' = [pc EXCEPT ![c] = "clear"]
      /\ old' = [old EXCEPT ![c] = Known] /\ UNCHANGED <<list, len, size, flow, arg, ptr, bkt>>
  BY DEF StartClear, May, Go
<1>2. Known \subseteq Flows
  BY KnownInList DEF TableInv
<1>3. Shape'
  BY <1>1, <1>2 DEF TableInv, Shape, Steps, Ops
<1>4. bkt'[c] = 0 /\ ptr'[c] = NoNode /\ Placed(c)'
  BY <1>1 DEF TableInv, Shape, Placed, Belongs
<1>5. \A f \in Known : Hash[f] >= 0
  BY <1>2
<1>6. /\ old'[c] = Known
      /\ \A d \in Cpus \ {c} : /\ pc'[d] = pc[d] /\ op'[d] = op[d] /\ arg'[d] = arg[d]
                               /\ ptr'[d] = ptr[d] /\ bkt'[d] = bkt[d] /\ old'[d] = old[d]
  BY <1>1 DEF TableInv, Shape
<1> QED BY <1>1, <1>3, <1>4, <1>5, <1>6, QuietKeeps

\* An operation that ends leaves nothing in its CPU's hands.
LEMMA EndKeeps ==
    ASSUME TableInv, NEW c \in Cpus, End(c), pc[c] # "add", size' \in Int,
           UNCHANGED <<list, len, flow, old>>
    PROVE  TableInv'
<1> USE TableAssumption
<1>1. /\ pc' = [pc EXCEPT ![c] = "idle"]
      /\ op' = [op EXCEPT ![c] = "none"] /\ arg' = [arg EXCEPT ![c] = NoFlow]
      /\ ptr' = [ptr EXCEPT ![c] = NoNode] /\ bkt' = [bkt EXCEPT ![c] = 0]
  BY DEF End, Go
<1>2. Shape'
  BY <1>1 DEF TableInv, Shape, Steps, Ops
<1>3. Placed(c)'
  BY <1>1 DEF TableInv, Shape, Placed, Belongs
<1>4. /\ ptr'[c] = NoNode /\ old'[c] \subseteq Known /\ pc'[c] # "clear"
      /\ \A d \in Cpus \ {c} : /\ pc'[d] = pc[d] /\ op'[d] = op[d] /\ arg'[d] = arg[d]
                               /\ ptr'[d] = ptr[d] /\ bkt'[d] = bkt[d] /\ old'[d] = old[d]
  BY <1>1 DEF TableInv, Shape, Behind
<1> QED BY <1>2, <1>3, <1>4, QuietKeeps

\* PIAS_Search_List (flow.c:186-216): the entries passed do not hold the flow.
LEMMA WalkKeeps ==
    ASSUME TableInv, NEW c \in Cpus, WalkOn(c)
    PROVE  /\ TableInv'
           /\ ptr'[c] \in Linked \cup {NoNode}
           /\ ptr'[c] # NoNode => flow[ptr'[c]] \in Flows /\ Hash[flow[ptr'[c]]] = Hash[arg[c]]
           /\ ptr'[c] = NoNode => arg[c] \notin Known
<1> USE TableAssumption
<1>1. /\ pc[c] = "walk" /\ Holds(c) /\ flow[ptr[c]] # arg[c]
      /\ ptr' = [ptr EXCEPT ![c] = NextOf(ptr[c], Hash[arg[c]])]
      /\ UNCHANGED <<list, len, size, flow, old, op, arg, pc, bkt>>
  BY DEF WalkOn, tableVars
<1>2. arg[c] \in Flows /\ Hash[arg[c]] \in Lists /\ Row(c) \in Seq(Nodes) /\ Len(Row(c)) \in Nat
  BY <1>1, WorksOnList
<1>3. PICK k \in 1 .. Len(Row(c)) : Stands(c, k)
  BY <1>1 DEF TableInv, Placed
<1>4. /\ ptr'[c] = IF k = Len(Row(c)) THEN NoNode ELSE Row(c)[k + 1]
      /\ Row(c)' = Row(c) /\ ptr' = [ptr EXCEPT ![c] = ptr'[c]]
  BY <1>1, <1>2, <1>3, NextIsNext DEF Row, Stands, TableInv, Shape
<1>5. \A i \in 1 .. k : flow[Row(c)[i]] # arg[c]
  <2>1. \A i \in 1 .. k - 1 : flow[Row(c)[i]] # arg[c]
    BY <1>1, <1>3 DEF Stands
  <2>2. flow[Row(c)[k]] # arg[c]
    BY <1>1, <1>3 DEF Stands
  <2>3. \A i \in 1 .. k : i = k \/ i \in 1 .. k - 1
    BY <1>2
  <2> QED BY <2>1, <2>2, <2>3
<1>6. k # Len(Row(c)) => k + 1 \in 1 .. Len(Row(c)) /\ (k + 1) - 1 = k
  BY <1>2
<1>7. ptr'[c] \in Linked \cup {NoNode} /\ ptr'[c] \in Nodes \cup {NoNode}
  BY <1>2, <1>4, <1>6, LinkedInList DEF TableInv, Row
<1>8. Shape'
  BY <1>1, <1>4, <1>7 DEF TableInv, Shape
<1>9. Placed(c)'
  <2>1. ASSUME Holds(c)' PROVE k + 1 \in 1 .. Len(Row(c)') /\ Stands(c, k + 1)'
    BY <1>1, <1>4, <1>5, <1>6, <2>1 DEF Holds, Stands
  <2> QED BY <1>1, <2>1 DEF TableInv, Placed
<1>10. /\ old'[c] \subseteq Known /\ pc'[c] # "clear"
       /\ \A d \in Cpus \ {c} : /\ pc'[d] = pc[d] /\ op'[d] = op[d] /\ arg'[d] = arg[d]
                                /\ ptr'[d] = ptr[d] /\ bkt'[d] = bkt[d] /\ old'[d] = old[d]
  BY <1>1 DEF TableInv, Shape, Behind
<1>11. TableInv'
  BY <1>1, <1>7, <1>8, <1>9, <1>10, QuietKeeps
<1>12. ptr'[c] # NoNode => flow[ptr'[c]] \in Flows /\ Hash[flow[ptr'[c]]] = Hash[arg[c]]
  <2>1. \A i \in 1 .. Len(Row(c)) : flow[Row(c)[i]] \in Flows /\ Hash[flow[Row(c)[i]]] = Hash[arg[c]]
    BY <1>2 DEF TableInv, Listed, ListOK, Row
  <2> QED BY <1>4, <1>6, <2>1
<1>13. ptr'[c] = NoNode => arg[c] \notin Known
  <2>1. ASSUME ptr'[c] = NoNode PROVE k = Len(Row(c))
    BY <1>2, <1>4, <1>6, <2>1
  <2> QED BY <1>2, <1>5, <2>1, KnownInList DEF TableInv, Row
<1> QED BY <1>7, <1>11, <1>12, <1>13

\* The result of a search: the entry, or that there is none.
LEMMA ResultKeeps ==
    ASSUME TableInv, NEW c \in Cpus, Found(c) \/ NotFound(c)
    PROVE  TableInv'
<1>1. pc[c] = "walk" /\ UNCHANGED <<list, len, size, flow, old>>
  BY DEF Found, NotFound, tableVars
<1>2. CASE End(c)
  BY <1>1, <1>2, EndKeeps DEF TableInv, Shape
<1>3. ASSUME NEW p \in {"alloc", "del", "use"}, Go(c, p), UNCHANGED <<op, arg, ptr, bkt>>,
             Belongs(p, op[c]), p = "alloc" => ptr[c] = NoNode,
             p # "alloc" => Holds(c) /\ flow[ptr[c]] = arg[c]
      PROVE  TableInv'
  <2>1. /\ pc' = [pc EXCEPT ![c] = p] /\ pc'[c] = p /\ op'[c] = op[c] /\ arg'[c] = arg[c]
        /\ ptr'[c] = ptr[c] /\ Row(c)' = Row(c) /\ Holds(c)' = Holds(c)
    BY <1>1, <1>3 DEF TableInv, Shape, Go, Row, Holds
  <2>2. Shape'
    BY <1>1, <1>3, <2>1 DEF TableInv, Shape, Steps
  <2>3. ASSUME p # "alloc" PROVE \E k \in 1 .. Len(Row(c)') : Stands(c, k)'
    <3>1. PICK k \in 1 .. Len(Row(c)) : Stands(c, k)
      BY <1>1, <1>3, <2>3 DEF TableInv, Placed
    <3>2. Stands(c, k)'
      BY <1>1, <1>3, <2>1, <2>3, <3>1 DEF Stands
    <3> QED BY <2>1, <3>1, <3>2
  <2>4. Placed(c)'
    BY <1>1, <1>3, <2>1, <2>3 DEF TableInv, Placed
  <2>5. ptr'[c] \in Linked \cup {NoNode}
    BY <1>1, <2>1, HeldLinked, <1>3
  <2>6. /\ old'[c] \subseteq Known /\ pc'[c] # "clear"
        /\ \A d \in Cpus \ {c} : /\ pc'[d] = pc[d] /\ op'[d] = op[d] /\ arg'[d] = arg[d]
                                 /\ ptr'[d] = ptr[d] /\ bkt'[d] = bkt[d] /\ old'[d] = old[d]
    BY <1>1, <1>3, <2>1 DEF TableInv, Shape, Behind
  <2> QED BY <1>1, <2>2, <2>4, <2>5, <2>6, QuietKeeps
<1>4. CASE Found(c)
  BY <1>2, <1>3, <1>4 DEF Found, Belongs
<1>5. CASE NotFound(c)
  BY <1>2, <1>3, <1>5 DEF NotFound, Belongs
<1> QED BY <1>4, <1>5

\* kmalloc gives an entry that is in no list and in no other CPU's hands.
LEMMA AllocateKeeps ==
    ASSUME TableInv, NEW c \in Cpus, Allocate(c)
    PROVE  TableInv'
<1> USE TableAssumption
<1>1. PICK n \in Nodes : /\ flow[n] = NoFlow /\ \A d \in Cpus : ptr[d] # n
                         /\ flow' = [flow EXCEPT ![n] = arg[c]]
                         /\ ptr' = [ptr EXCEPT ![c] = n]
  BY DEF Allocate
<1>2. /\ pc[c] = "alloc" /\ pc' = [pc EXCEPT ![c] = "add"]
      /\ UNCHANGED <<list, len, size, old, op, arg, bkt>>
  BY DEF Allocate, Go
<1>3. arg[c] \in Flows
  BY <1>2, WorksOnList
<1>4. /\ Linked' = Linked /\ Known' = Known
      /\ \A m \in Nodes : flow[m] # NoFlow => flow'[m] = flow[m]
  BY AllocateLinks
<1>5. Shape'
  BY <1>1, <1>2, <1>3 DEF TableInv, Shape, Steps
<1>6. Listed'
  <2>1. SUFFICES ASSUME NEW b \in Lists, NEW i \in 1 .. Len(list[b])
                 PROVE  flow'[list[b][i]] = flow[list[b][i]]
    BY <1>2 DEF TableInv, Listed, ListOK, Lists
  <2>2. list[b][i] \in Nodes /\ flow[list[b][i]] \in Flows
    BY LinkedInList DEF TableInv, Listed, ListOK
  <2> QED BY <1>4, <2>2
<1>7. \A d \in Cpus \ {c} : Placed(d)'
  <2>1. \A b \in Lists : Moved(b)
    <3>1. SUFFICES ASSUME NEW b \in Lists, NEW k \in 1 .. Len(list[b])
                   PROVE  \A i \in 1 .. k - 1 : \E j \in 1 .. k - 1 : list'[b][i] = list[b][j]
      BY <1>2 DEF Moved
    <3> QED BY <1>2
  <2>2. \A d \in Cpus \ {c} : Stale(d) => flow'[ptr[d]] = NoFlow
    BY <1>1 DEF Stale, TableInv, Shape
  <2>3. \A d \in Cpus \ {c} : pc[d] = "add" => /\ ptr[d] \notin Linked' /\ ptr'[c] # ptr[d]
                                               /\ flow'[ptr[d]] = flow[ptr[d]]
    BY <1>1, <1>4 DEF TableInv, Shape, Placed, Fresh
  <2>4. \A d \in Cpus \ {c} : /\ pc'[d] = pc[d] /\ op'[d] = op[d] /\ arg'[d] = arg[d]
                              /\ ptr'[d] = ptr[d] /\ bkt'[d] = bkt[d]
    BY <1>1, <1>2 DEF TableInv, Shape
  <2> QED BY <1>4, <1>5, <1>6, <2>1, <2>2, <2>3, <2>4, OthersPlaced
<1>8. Placed(c)'
  <2>1. Fresh(c)'
    <3>1. n \notin Linked
      BY <1>1, LinkedInList DEF TableInv
    <3> QED BY <1>1, <1>2, <1>4, <3>1 DEF Fresh, TableInv, Shape
  <2> QED BY <1>2, <2>1 DEF TableInv, Shape, Placed, Belongs
<1>9. NoLeak'
  BY <1>1, <1>2, <1>4 DEF TableInv, Shape, NoLeak
<1>10. Behind'
  BY <1>2, <1>4 DEF TableInv, Shape, Behind
<1> QED BY <1>5, <1>6, <1>7, <1>8, <1>9, <1>10 DEF TableInv

\* PIAS_Insert_List (flow.c:238-256): the new entry comes behind all others.
LEMMA AddKeeps ==
    ASSUME TableInv, NEW c \in Cpus, Add(c)
    PROVE  TableInv'
<1> USE TableAssumption
<1> PICK h : h = Hash[arg[c]]
  OBVIOUS
<1> DEFINE L == list[h]
<1>1. /\ pc[c] = "add" /\ pc' = [pc EXCEPT ![c] = "inc"]
      /\ list' = [list EXCEPT ![h] = Append(L, ptr[c])] /\ len' = [len EXCEPT ![h] = len[h] + 1]
      /\ ptr' = [ptr EXCEPT ![c] = NoNode]
      /\ UNCHANGED <<size, flow, old, op, arg, bkt>>
  BY DEF Add, Go
<1>2. arg[c] \in Flows /\ h \in Lists /\ L \in Seq(Nodes) /\ Len(L) \in Nat
  BY <1>1, WorksOnList DEF Row
<1>3. /\ Linked' = Linked \cup {ptr[c]} /\ ptr[c] \in Nodes \ Linked
      /\ flow[ptr[c]] = arg[c] /\ Known' = Known \cup {arg[c]}
  BY AddLinks
<1>4. /\ list'[h] = Append(L, ptr[c]) /\ Len(list'[h]) = Len(L) + 1
      /\ list'[h][Len(L) + 1] = ptr[c]
      /\ \A i \in 1 .. Len(L) : list'[h][i] = L[i]
      /\ \A b \in Lists \ {h} : list'[b] = list[b]
  BY <1>1, <1>2, <1>3 DEF TableInv, Shape
<1>5. \A i \in 1 .. Len(L) : L[i] # ptr[c]
  BY <1>2, <1>3, LinkedInList DEF TableInv
<1>6. Shape'
  <2>1. Append(L, ptr[c]) \in Seq(Nodes)
    BY <1>2, <1>3
  <2>2. len' = [b \in Lists |-> Len(list'[b])]
    BY <1>1, <1>2, <1>4 DEF TableInv, Shape
  <2> QED BY <1>1, <1>2, <2>1, <2>2 DEF TableInv, Shape, Steps, Lists
<1>7. Listed'
  <2>1. ASSUME NEW b \in Lists \ {h} PROVE ListOK(b)'
    BY <1>1, <1>4 DEF TableInv, Listed, ListOK
  <2>2. ListOK(h)'
    <3>1. \A i \in 1 .. Len(list'[h]) : i \in 1 .. Len(L) \/ i = Len(L) + 1
      BY <1>2, <1>4
    <3>2. \A i \in 1 .. Len(L) : /\ flow[L[i]] \in Flows /\ Hash[flow[L[i]]] = h
                                 /\ \A j \in 1 .. Len(L) : L[i] = L[j] => i = j
      BY <1>2 DEF TableInv, Listed, ListOK
    <3>3. \A i \in 1 .. Len(list'[h]) : flow[list'[h][i]] \in Flows /\ Hash[flow[list'[h][i]]] = h
      <4>1. flow[list'[h][Len(L) + 1]] = arg[c]
        BY <1>3, <1>4
      <4>2. \A i \in 1 .. Len(L) : flow[list'[h][i]] = flow[L[i]]
        BY <1>4
      <4>3. SUFFICES ASSUME NEW i \in 1 .. Len(list'[h])
                     PROVE  flow[list'[h][i]] \in Flows /\ Hash[flow[list'[h][i]]] = h
        OBVIOUS
      <4>4. CASE i \in 1 .. Len(L)
        BY <3>2, <4>2, <4>4
      <4>5. CASE i = Len(L) + 1
        BY <1>2, <4>1, <4>5
      <4> QED BY <3>1, <4>4, <4>5
    <3>4. \A i, j \in 1 .. Len(list'[h]) : list'[h][i] = list'[h][j] => i = j
      BY <1>4, <1>5, <3>1, <3>2
    <3>5. flow' = flow
      BY <1>1
    <3> QED BY <3>3, <3>4, <3>5, Zenon DEF ListOK
  <2>3. \A b \in Lists : ListOK(b)'
    BY <2>1, <2>2
  <2> QED BY <2>3 DEF Listed, Lists
<1>8. \A d \in Cpus \ {c} : Placed(d)'
  <2>1. \A b \in Lists : Moved(b)
    <3>1. SUFFICES ASSUME NEW b \in Lists PROVE Moved(b)
      OBVIOUS
    <3>2. Len(list[b]) \in Nat /\ Len(list[b]) <= Len(list'[b])
          /\ \A i \in 1 .. Len(list[b]) : list'[b][i] = list[b][i]
      <4>1. Len(list[b]) \in Nat
        BY DEF TableInv, Shape
      <4>2. CASE b = h
        BY <1>2, <1>4, <4>2
      <4>3. CASE b # h
        BY <1>4, <4>1, <4>3
      <4> QED BY <4>1, <4>2, <4>3
    <3>3. \A k \in 1 .. Len(list[b]) :
            k \in 1 .. Len(list'[b]) /\ \A i \in 1 .. k - 1 : i \in 1 .. Len(list[b])
      BY <1>6, <3>2 DEF Shape
    <3> QED BY <3>2, <3>3 DEF Moved
  <2>2. \A d \in Cpus \ {c} : pc[d] = "add" => ptr[d] \notin Linked' /\ ptr'[c] # ptr[d]
    BY <1>1, <1>3 DEF TableInv, Shape, Placed, Fresh
  <2>3. \A d \in Cpus \ {c} : /\ pc'[d] = pc[d] /\ op'[d] = op[d] /\ arg'[d] = arg[d]
                              /\ ptr'[d] = ptr[d] /\ bkt'[d] = bkt[d]
    BY <1>1 DEF TableInv, Shape
  <2> QED BY <1>1, <1>6, <1>7, <2>1, <2>2, <2>3, OthersPlaced DEF Stale
<1>9. Placed(c)'
  BY <1>1 DEF TableInv, Shape, Placed, Belongs
<1>10. NoLeak'
  BY <1>1, <1>3 DEF TableInv, Shape, NoLeak
<1>11. Behind'
  BY <1>1, <1>3 DEF TableInv, Shape, Behind
<1> QED BY <1>6, <1>7, <1>8, <1>9, <1>10, <1>11 DEF TableInv

\* PIAS_Delete_List (flow.c:282-310): what stands at the entry that is freed is
\* stale; everybody else stays where he is.
LEMMA RemoveKeeps ==
    ASSUME TableInv, NEW c \in Cpus, Remove(c)
    PROVE  TableInv'
<1> USE TableAssumption
<1> PICK h : h = Hash[arg[c]]
  OBVIOUS
<1> DEFINE L == list[h]  U == Unlink(L, ptr[c])
<1>1. /\ pc[c] = "del" /\ Holds(c) /\ pc' = [pc EXCEPT ![c] = "dec"]
      /\ list' = [list EXCEPT ![h] = U] /\ len' = [len EXCEPT ![h] = len[h] - 1]
      /\ flow' = [flow EXCEPT ![ptr[c]] = NoFlow]
      /\ ptr' = [ptr EXCEPT ![c] = NoNode] /\ old' = [d \in Cpus |-> old[d] \cap Known']
      /\ UNCHANGED <<size, op, arg, bkt>>
  BY DEF Remove, Go, Still
<1>2. arg[c] \in Flows /\ h \in Lists /\ L \in Seq(Nodes) /\ Len(L) \in Nat
  BY <1>1, WorksOnList DEF Row
<1>3. PICK k \in 1 .. Len(L) : ptr[c] = L[k] /\ flow[ptr[c]] = arg[c]
  BY <1>1 DEF TableInv, Placed, Row, Stands
<1>4. \A i \in 1 .. Len(L) : /\ flow[L[i]] \in Flows /\ Hash[flow[L[i]]] = h
                             /\ \A j \in 1 .. Len(L) : L[i] = L[j] => i = j
  BY <1>2 DEF TableInv, Listed, ListOK
<1>5. /\ Linked' = Linked \ {ptr[c]} /\ ptr[c] \in Linked
      /\ \A n \in Linked' : n \in Nodes /\ n # ptr[c] /\ flow'[n] = flow[n]
      /\ Known' \subseteq Known
  BY RemoveUnlinks
<1> HIDE DEF L, U
<1>6. /\ U \in Seq(Nodes) /\ Len(U) = Len(L) - 1
      /\ \A i \in 1 .. Len(L) - 1 : U[i] = IF i < k THEN L[i] ELSE L[i + 1]
  <2>1. \A j \in 1 .. Len(L) : L[j] = L[k] => j = k
    BY <1>4
  <2> QED BY <2>1, <1>2, <1>3, UnlinkTakesOne DEF U
<1>7. list'[h] = U /\ \A b \in Lists \ {h} : list'[b] = list[b]
  BY <1>1, <1>2 DEF TableInv, Shape
<1>8. \A n \in Nodes : n # ptr[c] => flow'[n] = flow[n]
  BY <1>1 DEF TableInv, Shape
<1>9. ptr[c] \in Nodes /\ flow'[ptr[c]] = NoFlow
  BY <1>1, <1>2, <1>3 DEF TableInv, Shape
<1>10. Shape'
  <2>1. list' \in [Lists -> Seq(Nodes)]
    BY <1>1, <1>6 DEF TableInv, Shape
  <2>2. len' = [b \in Lists |-> Len(list'[b])]
    BY <1>1, <1>2, <1>6, <1>7 DEF TableInv, Shape, L
  <2>3. old' \in [Cpus -> SUBSET Flows]
    BY <1>1 DEF TableInv, Shape
  <2> QED BY <1>1, <2>1, <2>2, <2>3 DEF TableInv, Shape, Steps, Lists
<1>11. Listed'
  <2>1. ASSUME NEW b \in Lists \ {h} PROVE ListOK(b)'
    <3>1. list'[b] = list[b] /\ ListOK(b)
      BY <1>7 DEF TableInv, Listed
    <3>2. \A i \in 1 .. Len(list[b]) : flow'[list[b][i]] = flow[list[b][i]]
      <4>1. \A i \in 1 .. Len(list[b]) : list[b][i] \in Nodes
        BY LinkedInList DEF TableInv
      <4>2. \A i \in 1 .. Len(list[b]) : list[b][i] # ptr[c]
        BY <1>3, <3>1 DEF ListOK
      <4> QED BY <1>8, <4>1, <4>2
    <3> QED BY <3>1, <3>2 DEF ListOK
  <2>2. ListOK(h)'
    <3>1. \A i \in 1 .. Len(U) : \E m \in 1 .. Len(L) :
            /\ m # k /\ m = (IF i < k THEN i ELSE i + 1) /\ U[i] = L[m] /\ flow'[U[i]] = flow[L[m]]
      <4>1. SUFFICES ASSUME NEW i \in 1 .. Len(U)
                     PROVE  \E m \in 1 .. Len(L) :
                              /\ m # k /\ m = (IF i < k THEN i ELSE i + 1) /\ U[i] = L[m]
                              /\ flow'[U[i]] = flow[L[m]]
        OBVIOUS
      <4>2. PICK m \in 1 .. Len(L) : m # k /\ m = (IF i < k THEN i ELSE i + 1)
        BY <1>2, <1>6
      <4>3. U[i] = L[m]
        BY <1>2, <1>6, <4>2
      <4>4. L[m] \in Nodes /\ L[m] # ptr[c]
        BY <1>2, <1>3, <1>4, <4>2
      <4> QED BY <1>8, <4>2, <4>3, <4>4
    <3>2. \A i \in 1 .. Len(U) : flow'[U[i]] \in Flows /\ Hash[flow'[U[i]]] = h
      BY <1>4, <3>1
    <3>3. ASSUME NEW i \in 1 .. Len(U), NEW j \in 1 .. Len(U), U[i] = U[j] PROVE i = j
      <4>1. PICK m \in 1 .. Len(L) : m = (IF i < k THEN i ELSE i + 1) /\ U[i] = L[m]
        BY <3>1
      <4>2. PICK q \in 1 .. Len(L) : q = (IF j < k THEN j ELSE j + 1) /\ U[j] = L[q]
        BY <3>1
      <4>3. m = q
        <5>1. L[m] = L[q]
          BY <3>3, <4>1, <4>2
        <5> QED BY <1>4, <5>1
      <4>4. i \in Int /\ j \in Int /\ k \in Int
        BY <1>6
      <4> QED BY <4>1, <4>2, <4>3, <4>4
    <3> QED BY <1>7, <3>2, <3>3 DEF ListOK
  <2>3. \A b \in Lists : ListOK(b)'
    BY <2>1, <2>2
  <2> QED BY <2>3 DEF Listed, Lists
<1>12. \A d \in Cpus \ {c} : Placed(d)'
  <2>1. ASSUME NEW b \in Lists PROVE Moved(b)
    <3>1. CASE b # h
      <4>1. list'[b] = list[b]
        BY <1>7, <3>1
      <4> QED BY <4>1 DEF Moved
    <3>2. CASE b = h
      <4>1. ASSUME NEW n \in 1 .. Len(L), flow'[L[n]] # NoFlow
            PROVE  \E m \in 1 .. Len(U) :
                      /\ U[m] = L[n]
                      /\ \A i \in 1 .. m - 1 : \E j \in 1 .. n - 1 : U[i] = L[j]
        <5>1. n # k
          BY <1>3, <1>9, <4>1
        <5>2. PICK m \in 1 .. Len(U) : m = (IF n < k THEN n ELSE n - 1) /\ U[m] = L[n]
          BY <1>2, <1>6, <5>1
        <5>3. ASSUME NEW i \in 1 .. m - 1 PROVE \E j \in 1 .. n - 1 : U[i] = L[j]
          <6>1. i \in 1 .. Len(L) - 1
            BY <1>2, <1>6
          <6>2. (IF i < k THEN i ELSE i + 1) \in 1 .. n - 1
            BY <1>2, <5>1, <5>2
          <6> QED BY <1>6, <6>1, <6>2
        <5> QED BY <5>2, <5>3
      <4>2. list[b] = L /\ list'[b] = U
        BY <1>7, <3>2 DEF L
      <4> QED BY <4>1, <4>2 DEF Moved
    <3> QED BY <3>1, <3>2
  <2>2. \A n \in Nodes : flow[n] # NoFlow => flow'[n] \in {flow[n], NoFlow}
    BY <1>8, <1>9
  <2>3. \A d \in Cpus \ {c} : Stale(d) => flow'[ptr[d]] = NoFlow
    BY <1>8, <1>9 DEF Stale, TableInv, Shape
  <2>4. \A d \in Cpus \ {c} : pc[d] = "add" => /\ ptr[d] \notin Linked' /\ ptr'[c] # ptr[d]
                                               /\ flow'[ptr[d]] = flow[ptr[d]]
    BY <1>1, <1>5, <1>8 DEF TableInv, Shape, Placed, Fresh
  <2>5. \A d \in Cpus \ {c} : /\ pc'[d] = pc[d] /\ op'[d] = op[d] /\ arg'[d] = arg[d]
                              /\ ptr'[d] = ptr[d] /\ bkt'[d] = bkt[d]
    BY <1>1 DEF TableInv, Shape
  <2> QED BY <1>10, <1>11, <2>1, <2>2, <2>3, <2>4, <2>5, OthersPlaced
<1>13. Placed(c)'
  BY <1>1 DEF TableInv, Shape, Placed, Belongs
<1>14. NoLeak'
  BY <1>1, <1>5, <1>8, <1>9 DEF TableInv, Shape, NoLeak
<1>15. Behind'
  BY <1>1 DEF TableInv, Shape, Behind
<1> QED BY <1>10, <1>11, <1>12, <1>13, <1>14, <1>15 DEF TableInv

\* PIAS_Clear_List (flow.c:332-357): what stands in that list is stale, and the
\* Clear is done with the flows of it.
LEMMA ClearKeeps ==
    ASSUME TableInv, NEW c \in Cpus, ClearList(c)
    PROVE  TableInv'
<1> USE TableAssumption
<1> PICK a : a = bkt[c]
  OBVIOUS
<1>1. /\ pc[c] = "clear" /\ old' = [d \in Cpus |-> old[d] \cap Known']
      /\ UNCHANGED <<size, op, arg, pc, ptr>>
  BY DEF ClearList, Still
<1>2. /\ a \in Lists /\ bkt' = [bkt EXCEPT ![c] = a + 1] /\ a + 1 \in 0 .. Buckets
      /\ list' = [list EXCEPT ![a] = <<>>] /\ len' = [len EXCEPT ![a] = 0]
      /\ flow' = [n \in Nodes |-> IF n \in Entries(list[a]) THEN NoFlow ELSE flow[n]]
  BY ClearMakesEmpty DEF TableInv
<1>3. /\ Linked' = Linked \ Entries(list[a])
      /\ \A n \in Linked' : n \in Nodes /\ flow'[n] = flow[n]
      /\ Known' = {f \in Known : Hash[f] # a}
  BY ClearUnlinks
<1>4. list'[a] = <<>> /\ \A b \in Lists \ {a} : list'[b] = list[b]
  BY <1>2 DEF TableInv, Shape
<1>5. Shape'
  <2>1. len' = [b \in Lists |-> Len(list'[b])]
    BY <1>2, <1>4 DEF TableInv, Shape
  <2>2. old' \in [Cpus -> SUBSET Flows]
    BY <1>1 DEF TableInv, Shape
  <2>3. list' \in [Lists -> Seq(Nodes)]
    BY <1>2 DEF TableInv, Shape
  <2>4. flow' \in [Nodes -> Flows \cup {NoFlow}] /\ bkt' \in [Cpus -> 0 .. Buckets]
    BY <1>2 DEF TableInv, Shape
  <2> QED BY <1>1, <2>1, <2>2, <2>3, <2>4 DEF TableInv, Shape, Lists
<1>6. Listed'
  <2>1. ASSUME NEW b \in Lists \ {a} PROVE ListOK(b)'
    <3>1. list'[b] = list[b] /\ list[b] \in Seq(Nodes)
      BY <1>4 DEF TableInv, Shape
    <3>2. \A i \in 1 .. Len(list[b]) : list[b][i] \notin Entries(list[a])
      <4>1. list[a] \in Seq(Nodes)
        BY <1>2 DEF TableInv, Shape
      <4>2. ASSUME NEW n \in Entries(list[a]) PROVE Hash[flow[n]] = a
        BY <1>2, <4>1 DEF TableInv, Listed, ListOK, Entries
      <4>3. \A i \in 1 .. Len(list[b]) : Hash[flow[list[b][i]]] = b
        BY DEF TableInv, Listed, ListOK
      <4> QED BY <4>2, <4>3
    <3>3. \A i \in 1 .. Len(list[b]) : flow'[list[b][i]] = flow[list[b][i]]
      BY <1>2, <3>1, <3>2
    <3> QED BY <3>1, <3>3 DEF TableInv, Listed, ListOK
  <2>2. ListOK(a)'
    BY <1>4 DEF ListOK
  <2>3. \A b \in Lists : ListOK(b)'
    BY <2>1, <2>2
  <2> QED BY <2>3 DEF Listed, Lists
<1>7. \A d \in Cpus \ {c} : Placed(d)'
  <2>1. ASSUME NEW b \in Lists PROVE Moved(b)
    <3>1. CASE b # a
      <4>1. list'[b] = list[b]
        BY <1>4, <3>1
      <4> QED BY <4>1 DEF Moved
    <3>2. CASE b = a
      <4>1. list[a] \in Seq(Nodes)
        BY <1>2 DEF TableInv, Shape
      <4>2. \A k \in 1 .. Len(list[a]) : flow'[list[a][k]] = NoFlow
        BY <1>2, <4>1 DEF Entries
      <4> QED BY <3>2, <4>2 DEF Moved
    <3> QED BY <3>1, <3>2
  <2>2. \A n \in Nodes : flow'[n] \in {flow[n], NoFlow}
    BY <1>2
  <2>3. \A d \in Cpus \ {c} : Stale(d) => flow'[ptr[d]] = NoFlow
    BY <2>2 DEF Stale, TableInv, Shape
  <2>4. \A d \in Cpus \ {c} : pc[d] = "add" => /\ ptr[d] \notin Linked' /\ ptr'[c] # ptr[d]
                                               /\ flow'[ptr[d]] = flow[ptr[d]]
    <3>1. SUFFICES ASSUME NEW d \in Cpus \ {c}, pc[d] = "add"
                   PROVE  /\ ptr[d] \notin Linked' /\ ptr'[c] # ptr[d] /\ flow'[ptr[d]] = flow[ptr[d]]
      OBVIOUS
    <3>2. ptr[d] \in Nodes \ Linked /\ ptr[c] # ptr[d]
      BY <3>1 DEF TableInv, Placed, Fresh
    <3>3. ptr[d] \notin Entries(list[a])
      BY <1>2, <3>2 DEF Linked
    <3> QED BY <1>1, <1>2, <1>3, <3>2, <3>3
  <2>5. \A d \in Cpus \ {c} : /\ pc'[d] = pc[d] /\ op'[d] = op[d] /\ arg'[d] = arg[d]
                              /\ ptr'[d] = ptr[d] /\ bkt'[d] = bkt[d]
    BY <1>1, <1>2 DEF TableInv, Shape
  <2> QED BY <1>5, <1>6, <2>1, <2>2, <2>3, <2>4, <2>5, OthersPlaced
<1>8. Placed(c)'
  BY <1>1 DEF TableInv, Shape, Placed, Belongs
<1>9. NoLeak'
  BY <1>1, <1>2, <1>3 DEF TableInv, Shape, NoLeak
<1>10. Behind'
  <2>1. SUFFICES ASSUME NEW d \in Cpus
                 PROVE  /\ old'[d] \subseteq Known'
                        /\ pc'[d] = "clear" => \A f \in old'[d] : Hash[f] >= bkt'[d]
    BY DEF Behind
  <2>2. old'[d] = old[d] \cap Known'
    BY <1>1
  <2>3. pc[d] = "clear" => \A f \in old[d] : Hash[f] >= bkt[d]
    BY DEF TableInv, Behind
  <2>4. ASSUME d = c, NEW f \in old'[c] PROVE Hash[f] >= bkt'[c]
    <3>1. Hash[f] >= a /\ Hash[f] # a /\ f \in Flows
      BY <1>1, <1>3, <2>2, <2>3, <2>4, KnownInList DEF TableInv
    <3>2. bkt'[c] = a + 1 /\ a \in Int /\ Hash[f] \in Int
      BY <1>2, <3>1 DEF TableInv, Shape
    <3> QED BY <3>1, <3>2
  <2>5. d # c => bkt'[d] = bkt[d] /\ pc'[d] = pc[d]
    BY <1>1, <1>2 DEF TableInv, Shape
  <2> QED BY <2>2, <2>3, <2>4, <2>5
<1> QED BY <1>5, <1>6, <1>7, <1>8, <1>9, <1>10 DEF TableInv

-----------------------------------------------------------------------------
\* Every step of an operation keeps the invariant.
LEMMA WorkKeeps ==
    ASSUME TableInv, NEW c \in Cpus, Work(c)
    PROVE  TableInv'
<1>1. CASE WalkOn(c)
  BY <1>1, WalkKeeps
<1>2. CASE Found(c) \/ NotFound(c)
  BY <1>2, ResultKeeps
<1>3. CASE Allocate(c)
  BY <1>3, AllocateKeeps
<1>4. CASE Add(c)
  BY <1>4, AddKeeps
<1>5. CASE Remove(c)
  BY <1>5, RemoveKeeps
<1>6. CASE ClearList(c)
  BY <1>6, ClearKeeps
<1>7. CASE Use(c) \/ AllocateFails(c)
  BY <1>7, EndKeeps DEF Use, AllocateFails, tableVars, TableInv, Shape
<1>8. CASE IncSize(c) \/ DecSize(c) \/ ClearSize(c)
  BY <1>8, EndKeeps DEF IncSize, DecSize, ClearSize, TableInv, Shape
<1> QED BY <1>1, <1>2, <1>3, <1>4, <1>5, <1>6, <1>7, <1>8 DEF Work

\* No step of the table breaks the invariant.
LEMMA TableKept == TableInv /\ [Next]_vars => TableInv'
<1> SUFFICES ASSUME TableInv, [Next]_vars PROVE TableInv'
  OBVIOUS
<1>1. ASSUME NEW c \in Cpus, NEW f \in Flows, NEW o \in {"insert", "delete", "use"}, Start(c, o, f)
      PROVE  TableInv'
  BY <1>1, StartKeeps
<1>2. ASSUME NEW c \in Cpus, StartClear(c)
      PROVE  TableInv'
  BY <1>2, StartClearKeeps
<1>3. ASSUME NEW c \in Cpus, Work(c)
      PROVE  TableInv'
  BY <1>3, WorkKeeps
<1>4. CASE UNCHANGED vars
  <2>1. UNCHANGED <<list, len, size, flow, old, op, arg, pc, ptr, bkt>>
    BY <1>4 DEF vars, tableVars, cpuVars
  <2>2. Linked' = Linked /\ Known' = Known
    BY <2>1 DEF Linked, Known
  <2>3. Shape' /\ Listed' /\ NoLeak' /\ Behind'
    BY <2>1, <2>2 DEF TableInv, Shape, Listed, ListOK, NoLeak, Behind
  <2>4. \A c \in Cpus : Placed(c)'
    BY <2>1, <2>2 DEF TableInv, Placed, Fresh, Holds, Stands, Row
  <2> QED BY <2>3, <2>4 DEF TableInv
<1> QED BY <1>1, <1>2, <1>3, <1>4 DEF Next

-----------------------------------------------------------------------------
(* The search, the size and the types, whatever overlaps.                  *)

\* What StepsOnLive says of one CPU.
StepsWell(c) ==
    ptr'[c] \notin {ptr[c], NoNode} =>
        flow'[ptr'[c]] # NoFlow /\ Hash[flow'[ptr'[c]]] = Hash[arg'[c]]

\* flow.c:186-216 and 282-310: a search that takes no lock, under additions to and
\* deletions from its list, never moves to a freed entry or into another list.
THEOREM SearchesStepOnLive == Spec => StepsOnLive
<1>1. TableInv /\ [Next]_vars => \A d \in Cpus : StepsWell(d)
  <2> SUFFICES ASSUME TableInv, [Next]_vars, NEW d \in Cpus PROVE StepsWell(d)
    OBVIOUS
  <2> USE TableAssumption
  <2>1. ASSUME NEW c \in Cpus, NEW f \in Flows, NEW o \in {"insert", "delete", "use"}, Start(c, o, f)
        PROVE  StepsWell(d)
    <3>1. /\ arg' = [arg EXCEPT ![c] = f] /\ flow' = flow
          /\ ptr' = [ptr EXCEPT ![c] = IF list[Hash[f]] = <<>> THEN NoNode ELSE Head(list[Hash[f]])]
      BY <2>1 DEF Start, tableVars
    <3>2. Hash[f] \in Lists /\ list[Hash[f]] \in Seq(Nodes)
      BY DEF Lists, TableInv, Shape
    <3>3. list[Hash[f]] # <<>> => flow[Head(list[Hash[f]])] \in Flows
                                  /\ Hash[flow[Head(list[Hash[f]])]] = Hash[f]
      <4>1. list[Hash[f]] # <<>> => 1 \in 1 .. Len(list[Hash[f]])
                                    /\ Head(list[Hash[f]]) = list[Hash[f]][1]
        BY <3>2
      <4> QED BY <3>2, <4>1 DEF TableInv, Listed, ListOK
    <3> QED BY <3>1, <3>3 DEF TableInv, Shape, StepsWell
  <2>2. ASSUME NEW c \in Cpus, WalkOn(c)
        PROVE  StepsWell(d)
    <3>1. UNCHANGED <<flow, arg>> /\ \E n : ptr' = [ptr EXCEPT ![c] = n]
      BY <2>2 DEF WalkOn, tableVars
    <3> QED BY <2>2, <3>1, WalkKeeps DEF TableInv, Shape, StepsWell
  <2>3. ASSUME NEW c \in Cpus, Allocate(c)
        PROVE  StepsWell(d)
    <3>1. PICK n \in Nodes : flow' = [flow EXCEPT ![n] = arg[c]] /\ ptr' = [ptr EXCEPT ![c] = n]
      BY <2>3 DEF Allocate
    <3>2. pc[c] = "alloc" /\ arg' = arg
      BY <2>3 DEF Allocate
    <3>3. arg[c] \in Flows
      BY <3>2, WorksOnList
    <3> QED BY <3>1, <3>2, <3>3 DEF TableInv, Shape, StepsWell
  <2>4. ASSUME NEW c \in Cpus, StartClear(c) \/ (Work(c) /\ ~WalkOn(c) /\ ~Allocate(c))
        PROVE  StepsWell(d)
    <3>1. ptr' = ptr \/ ptr' = [ptr EXCEPT ![c] = NoNode]
      BY <2>4 DEF StartClear, Work, Found, NotFound, Use, AllocateFails, Add, IncSize, Remove,
                  DecSize, ClearList, ClearSize, End
    <3> QED BY <3>1 DEF TableInv, Shape, StepsWell
  <2>5. CASE UNCHANGED vars
    BY <2>5 DEF vars, cpuVars, StepsWell
  <2> QED BY <2>1, <2>2, <2>3, <2>4, <2>5 DEF Next
<1>2. TableInv /\ [Next]_vars =>
        [\A c \in Cpus : ptr'[c] \notin {ptr[c], NoNode} =>
            flow'[ptr'[c]] # NoFlow /\ Hash[flow'[ptr'[c]]] = Hash[arg'[c]]]_vars
  BY <1>1 DEF StepsWell
<1> QED BY <1>2, TableStarts, TableKept, PTL DEF Spec, StepsOnLive

\* How many CPUs are at a step is a number.
LEMMA AtCounted ==
    ASSUME IsFiniteSet(Cpus), NEW q
    PROVE  IsFiniteSet(At(q)) /\ Cardinality(At(q)) \in Nat
<1>1. At(q) \subseteq Cpus
  BY DEF At
<1> QED BY <1>1, FS_Subset, FS_CardinalityType

\* A CPU that moves between two other steps leaves those at a step as they are.
LEMMA AtKept ==
    ASSUME pc \in [Cpus -> Steps], NEW c \in Cpus, NEW p,
           pc' = [pc EXCEPT ![c] = p], NEW q, pc[c] # q, p # q
    PROVE  At(q)' = At(q)
BY DEF At

\* A CPU that comes to a step is one more there.
LEMMA AtJoined ==
    ASSUME IsFiniteSet(Cpus), pc \in [Cpus -> Steps], NEW c \in Cpus, NEW p,
           pc' = [pc EXCEPT ![c] = p], pc[c] # p
    PROVE  Cardinality(At(p)') = Cardinality(At(p)) + 1
<1>1. At(p)' = At(p) \cup {c} /\ c \notin At(p)
  BY DEF At
<1>2. IsFiniteSet(At(p))
  BY AtCounted
<1> QED BY <1>1, <1>2, FS_AddElement

\* A CPU that goes from a step is one less there.
LEMMA AtLeft ==
    ASSUME IsFiniteSet(Cpus), pc \in [Cpus -> Steps], NEW c \in Cpus, NEW p,
           pc' = [pc EXCEPT ![c] = p], NEW q, pc[c] = q, p # q
    PROVE  Cardinality(At(q)') = Cardinality(At(q)) - 1
<1>1. At(q)' = At(q) \ {c} /\ c \in At(q)
  BY DEF At
<1>2. IsFiniteSet(At(q))
  BY AtCounted
<1> QED BY <1>1, <1>2, FS_RemoveElement

\* The linked entries are finitely many.
LEMMA LinkedFinite ==
    ASSUME IsFiniteSet(Nodes), TableInv
    PROVE  IsFiniteSet(Linked) /\ Cardinality(Linked) \in Nat
<1>1. Linked \subseteq Nodes
  BY LinkedInList DEF TableInv
<1> QED BY <1>1, FS_Subset, FS_CardinalityType

\* A step at which nothing is counted, in the size, in a list or by a CPU.
LEMMA UncountedKept ==
    ASSUME TableInv, NEW c \in Cpus, UNCHANGED <<list, size>>,
           NEW p \in Steps \ {"inc", "dec"}, pc[c] \notin {"inc", "dec"},
           pc' = [pc EXCEPT ![c] = p]
    PROVE  Drift' = Drift
<1>1. At("inc")' = At("inc") /\ At("dec")' = At("dec") /\ Linked' = Linked
  BY DEF TableInv, Shape, At, Linked
<1> QED BY <1>1 DEF Drift

\* flow.c:260-280 and 312-330: the size is changed after the list, under no lock, by
\* any number of CPUs; what is added and removed is always owed to it exactly once.
THEOREM SizeFollows ==
    ASSUME IsFiniteSet(Cpus), IsFiniteSet(Nodes)
    PROVE  Spec => SizeKept
<1>1. ASSUME TableInv, [Next]_vars, At("clear") = {} PROVE Drift' = Drift
  <2>1. pc \in [Cpus -> Steps] /\ size \in Int
    BY <1>1 DEF TableInv, Shape
  <2>2. /\ Cardinality(At("inc")) \in Nat /\ Cardinality(At("dec")) \in Nat
        /\ IsFiniteSet(Linked) /\ Cardinality(Linked) \in Nat
    BY <1>1, AtCounted, LinkedFinite
  <2>3. ASSUME NEW c \in Cpus, NEW f \in Flows, NEW o \in {"insert", "delete", "use"}, Start(c, o, f)
        PROVE  Drift' = Drift
    <3>1. pc[c] = "idle" /\ pc' = [pc EXCEPT ![c] = "walk"] /\ UNCHANGED <<list, size>>
      BY <2>3 DEF Start, May, Go, tableVars
    <3> QED BY <1>1, <3>1, UncountedKept DEF Steps
  <2>4. ASSUME NEW c \in Cpus, StartClear(c)
        PROVE  Drift' = Drift
    <3>1. pc[c] = "idle" /\ pc' = [pc EXCEPT ![c] = "clear"] /\ UNCHANGED <<list, size>>
      BY <2>4 DEF StartClear, May, Go
    <3> QED BY <1>1, <3>1, UncountedKept DEF Steps
  <2>5. ASSUME NEW c \in Cpus, WalkOn(c) \/ Found(c) \/ NotFound(c) \/ Use(c) \/ Allocate(c) \/ AllocateFails(c)
        PROVE  Drift' = Drift
    <3>1. UNCHANGED <<list, size>> /\ pc[c] \in {"walk", "use", "alloc"}
      BY <2>5 DEF WalkOn, Found, NotFound, Use, Allocate, AllocateFails, tableVars
    <3>2. \E p \in Steps \ {"inc", "dec"} : pc' = [pc EXCEPT ![c] = p]
      <4>1. CASE WalkOn(c)
        <5>1. pc' = [pc EXCEPT ![c] = pc[c]]
          BY <2>1, <4>1 DEF WalkOn
        <5> QED BY <3>1, <5>1 DEF Steps
      <4>2. CASE ~WalkOn(c)
        BY <2>5, <4>2 DEF Found, NotFound, Use, Allocate, AllocateFails, End, Go, Steps
      <4> QED BY <4>1, <4>2
    <3> QED BY <1>1, <3>1, <3>2, UncountedKept
  <2>6. ASSUME NEW c \in Cpus, Add(c)
        PROVE  Drift' = Drift
    <3>1. pc[c] = "add" /\ pc' = [pc EXCEPT ![c] = "inc"] /\ size' = size
      BY <2>6 DEF Add, Go
    <3>2. Cardinality(Linked') = Cardinality(Linked) + 1
      BY <1>1, <2>2, <2>6, AddLinks, FS_AddElement
    <3>3. Cardinality(At("inc")') = Cardinality(At("inc")) + 1
      BY <2>1, <3>1, AtJoined
    <3>4. At("dec")' = At("dec")
      BY <2>1, <3>1, AtKept
    <3> QED BY <2>1, <2>2, <3>1, <3>2, <3>3, <3>4 DEF Drift
  <2>7. ASSUME NEW c \in Cpus, Remove(c)
        PROVE  Drift' = Drift
    <3>1. pc[c] = "del" /\ pc' = [pc EXCEPT ![c] = "dec"] /\ size' = size
      BY <2>7 DEF Remove, Go
    <3>2. Cardinality(Linked') = Cardinality(Linked) - 1
      BY <1>1, <2>2, <2>7, RemoveUnlinks, FS_RemoveElement
    <3>3. Cardinality(At("dec")') = Cardinality(At("dec")) + 1
      BY <2>1, <3>1, AtJoined
    <3>4. At("inc")' = At("inc")
      BY <2>1, <3>1, AtKept
    <3> QED BY <2>1, <2>2, <3>1, <3>2, <3>3, <3>4 DEF Drift
  <2>8. ASSUME NEW c \in Cpus, IncSize(c)
        PROVE  Drift' = Drift
    <3>1. /\ pc[c] = "inc" /\ pc' = [pc EXCEPT ![c] = "idle"] /\ size' = size + 1
          /\ list' = list
      BY <2>8 DEF IncSize, End, Go
    <3>2. Cardinality(At("inc")') = Cardinality(At("inc")) - 1
      BY <2>1, <3>1, AtLeft
    <3>3. At("dec")' = At("dec") /\ Linked' = Linked
      BY <2>1, <3>1, AtKept DEF Linked
    <3> QED BY <2>1, <2>2, <3>1, <3>2, <3>3 DEF Drift
  <2>9. ASSUME NEW c \in Cpus, DecSize(c)
        PROVE  Drift' = Drift
    <3>1. /\ pc[c] = "dec" /\ pc' = [pc EXCEPT ![c] = "idle"] /\ size' = size - 1
          /\ list' = list
      BY <2>9 DEF DecSize, End, Go
    <3>2. Cardinality(At("dec")') = Cardinality(At("dec")) - 1
      BY <2>1, <3>1, AtLeft
    <3>3. At("inc")' = At("inc") /\ Linked' = Linked
      BY <2>1, <3>1, AtKept DEF Linked
    <3> QED BY <2>1, <2>2, <3>1, <3>2, <3>3 DEF Drift
  <2>10. ASSUME NEW c \in Cpus, ClearList(c) \/ ClearSize(c)
         PROVE  FALSE
    BY <1>1, <2>10 DEF ClearList, ClearSize, At
  <2>11. CASE UNCHANGED vars
    BY <2>11 DEF vars, tableVars, cpuVars, Drift, At, Linked
  <2> QED BY <1>1, <2>3, <2>4, <2>5, <2>6, <2>7, <2>8, <2>9, <2>10, <2>11 DEF Next, Work
<1>2. TableInv /\ [Next]_vars => [At("clear") = {} => Drift' = Drift]_vars
  BY <1>1
<1> QED BY <1>2, TableStarts, TableKept, PTL DEF Spec, SizeKept

\* A one-to-one function's domain is no larger than the set it goes to.
LEMMA OneToOneBounds ==
    ASSUME NEW S, NEW T, IsFiniteSet(S), IsFiniteSet(T), NEW f \in [S -> T],
           \A x, y \in S : f[x] = f[y] => x = y
    PROVE  Cardinality(S) <= Cardinality(T)
<1>1. ~(Cardinality(T) < Cardinality(S))
  <2> SUFFICES ASSUME Cardinality(T) < Cardinality(S) PROVE FALSE
    OBVIOUS
  <2> QED BY FS_PigeonHole
<1>2. Cardinality(S) \in Nat /\ Cardinality(T) \in Nat
  BY FS_CardinalityType
<1> QED BY <1>1, <1>2

\* A list is no longer than the memory, as it holds no entry twice.
LEMMA ListsShort ==
    ASSUME IsFiniteSet(Nodes), TableInv, NEW b \in Lists
    PROVE  Len(list[b]) \in 0 .. Cardinality(Nodes)
<1> DEFINE L == list[b]
           S == 1 .. Len(L)
<1>1. L \in Seq(Nodes) /\ Len(L) \in Nat
  BY DEF TableInv, Shape
<1>2. L \in [S -> Nodes]
  BY <1>1
<1>3. \A i, j \in S : L[i] = L[j] => i = j
  BY DEF TableInv, Listed, ListOK
<1> HIDE DEF L
<1>4. IsFiniteSet(S) /\ Cardinality(S) = Len(L)
  <2> DEFINE n == Len(L)
  <2>1. n \in Int /\ 1 \in Int /\ n >= 0
    BY <1>1
  <2> HIDE DEF n
  <2>2. IsFiniteSet(1 .. n) /\ Cardinality(1 .. n) = (IF 1 > n THEN 0 ELSE n - 1 + 1)
    BY <2>1, FS_Interval
  <2>3. Cardinality(1 .. n) = n
    BY <2>1, <2>2
  <2> QED BY <2>2, <2>3 DEF n
<1> HIDE DEF S
<1>5. Cardinality(S) <= Cardinality(Nodes)
  BY <1>2, <1>3, <1>4, OneToOneBounds
<1> QED BY <1>1, <1>4, <1>5 DEF L

\* The invariant gives the types.
LEMMA TypesFollow ==
    ASSUME IsFiniteSet(Nodes)
    PROVE  TableInv => TypeOK
<1> SUFFICES ASSUME TableInv PROVE TypeOK
  OBVIOUS
<1>1. len \in [Lists -> 0 .. Cardinality(Nodes)]
  <2>1. \A b \in Lists : Len(list[b]) \in 0 .. Cardinality(Nodes)
    BY ListsShort
  <2> QED BY <2>1 DEF TableInv, Shape
<1> QED BY <1>1 DEF TypeOK, TableInv, Shape, Steps, Ops

-----------------------------------------------------------------------------
(* One entry per flow.                                                     *)

\* An insertion whose search is over.
Past(c) == pc[c] \in {"alloc", "add"} \/ (pc[c] = "walk" /\ ptr[c] = NoNode)

\* With SYNs in turn the flow that is about to be added stays out of the table.
SetInv ==
    /\ \A c, d \in Cpus : c # d /\ op[c] = "insert" /\ op[d] = "insert" => arg[c] # arg[d]
    /\ \A c \in Cpus : op[c] = "insert" /\ Past(c) => arg[c] \notin Known
    /\ OneEntryPerFlow

LEMMA SetInvStarts == Init => SetInv
BY DEF Init, SetInv, Past, OneEntryPerFlow, Linked, Entries

\* A step that adds no flow but its own, moves only its CPU and starts no insertion.
LEMMA OthersSet ==
    ASSUME TableInv, SetInv, NEW c \in Cpus,
           \A d \in Cpus \ {c} : /\ pc'[d] = pc[d] /\ op'[d] = op[d] /\ arg'[d] = arg[d]
                                 /\ ptr'[d] = ptr[d],
           op'[c] = "insert" => op[c] = "insert" /\ arg'[c] = arg[c],
           op'[c] = "insert" /\ Past(c)' => arg[c] \notin Known',
           Known' \subseteq Known \/ (op[c] = "insert" /\ Known' = Known \cup {arg[c]}),
           OneEntryPerFlow'
    PROVE  SetInv'
<1>1. \A d \in Cpus \ {c} : op[d] = "insert" /\ Past(d) => arg[d] \notin Known'
  BY DEF SetInv
<1>2. \A d \in Cpus \ {c} : Past(d)' = Past(d)
  BY DEF Past
<1> QED BY <1>1, <1>2 DEF SetInv

\* A set of entries that has lost some and kept their flows has one of each still.
LEMMA FewerStillOne ==
    ASSUME SetInv, Linked' \subseteq Linked, \A n \in Linked' : flow'[n] = flow[n]
    PROVE  OneEntryPerFlow' /\ Known' \subseteq Known
BY DEF SetInv, OneEntryPerFlow, Known

LEMMA SetInvKept ==
    ASSUME SynsInTurn, TableInv, SetInv, [Next]_vars
    PROVE  SetInv'
<1> USE TableAssumption
<1>1. ASSUME NEW c \in Cpus, NEW f \in Flows, NEW o \in {"insert", "delete", "use"}, Start(c, o, f)
      PROVE  SetInv'
  <2>1. /\ pc' = [pc EXCEPT ![c] = "walk"] /\ op' = [op EXCEPT ![c] = o] /\ arg' = [arg EXCEPT ![c] = f]
        /\ ptr' = [ptr EXCEPT ![c] = IF list[Hash[f]] = <<>> THEN NoNode ELSE Head(list[Hash[f]])]
        /\ UNCHANGED <<list, flow>>
        /\ o = "insert" => \A d \in Cpus : op[d] = "insert" => arg[d] # f
    BY <1>1 DEF Start, May, Go, tableVars
  <2>2. \A d \in Cpus : /\ op'[d] = IF d = c THEN o ELSE op[d]
                        /\ arg'[d] = IF d = c THEN f ELSE arg[d]
    BY <2>1 DEF TableInv, Shape
  <2>3. Linked' = Linked /\ Known' = Known
    BY <2>1 DEF Linked, Known
  <2>4. \A d \in Cpus \ {c} : Past(d)' = Past(d)
    BY <2>1 DEF TableInv, Shape, Past
  <2>5. Past(c)' => f \notin Known
    <3>1. Hash[f] \in Lists /\ list[Hash[f]] \in Seq(Nodes)
      BY DEF Lists, TableInv, Shape
    <3>2. list[Hash[f]] # <<>> => Head(list[Hash[f]]) \in Nodes
      BY <3>1
    <3>3. Past(c)' => list[Hash[f]] = <<>>
      BY <2>1, <3>2 DEF Past, TableInv, Shape
    <3>4. list[Hash[f]] = <<>> => Len(list[Hash[f]]) = 0
      BY <3>1
    <3> QED BY <3>3, <3>4, KnownInList DEF TableInv
  <2>6. OneEntryPerFlow'
    BY <2>1, <2>3 DEF SetInv, OneEntryPerFlow
  <2> QED BY <2>1, <2>2, <2>3, <2>4, <2>5, <2>6 DEF SetInv
<1>2. ASSUME NEW c \in Cpus, StartClear(c) \/ Work(c)
      PROVE  /\ \A d \in Cpus \ {c} : /\ pc'[d] = pc[d] /\ op'[d] = op[d] /\ arg'[d] = arg[d]
                                      /\ ptr'[d] = ptr[d]
             /\ op'[c] = "insert" => op[c] = "insert" /\ arg'[c] = arg[c]
  <2>1. /\ pc' = pc \/ \E p : pc' = [pc EXCEPT ![c] = p]
        /\ ptr' = ptr \/ \E n : ptr' = [ptr EXCEPT ![c] = n]
        /\ \/ UNCHANGED <<op, arg>>
           \/ op' = [op EXCEPT ![c] = "none"] /\ arg' = [arg EXCEPT ![c] = NoFlow]
           \/ op' = [op EXCEPT ![c] = "clear"] /\ arg' = arg
    <3>1. CASE StartClear(c) \/ WalkOn(c) \/ Found(c) \/ NotFound(c) \/ Use(c)
      BY <3>1 DEF StartClear, WalkOn, Found, NotFound, Use, End, Go
    <3>2. CASE Allocate(c) \/ AllocateFails(c) \/ Add(c) \/ IncSize(c)
      BY <3>2 DEF Allocate, AllocateFails, Add, IncSize, End, Go
    <3>3. CASE Remove(c) \/ DecSize(c) \/ ClearList(c) \/ ClearSize(c)
      BY <3>3 DEF Remove, DecSize, ClearList, ClearSize, End, Go
    <3> QED BY <1>2, <3>1, <3>2, <3>3 DEF Work
  <2> QED BY <2>1 DEF TableInv, Shape
<1>3. ASSUME NEW c \in Cpus, UNCHANGED <<list, flow>>, StartClear(c) \/ Work(c)
      PROVE  SetInv'
  <2>1. Linked' = Linked /\ Known' = Known /\ OneEntryPerFlow'
    BY <1>3 DEF Linked, Known, SetInv, OneEntryPerFlow
  <2>2. op'[c] = "insert" /\ Past(c)' => arg[c] \notin Known
    <3>1. CASE WalkOn(c)
      <4>1. pc'[c] = "walk"
        BY <3>1 DEF WalkOn
      <4> QED BY <3>1, <4>1, WalkKeeps DEF Past
    <3>2. CASE NotFound(c)
      BY <3>2 DEF NotFound, End, Go, SetInv, Past, TableInv, Shape
    <3>3. CASE ~WalkOn(c) /\ ~NotFound(c)
      BY <1>3, <3>3 DEF StartClear, Work, Found, Use, Allocate, AllocateFails, Add, IncSize,
                  Remove, DecSize, ClearList, ClearSize, End, Go, Past, TableInv, Shape, SetInv
    <3> QED BY <3>1, <3>2, <3>3
  <2> QED BY <1>2, <1>3, <2>1, <2>2, OthersSet
<1>4. ASSUME NEW c \in Cpus, Allocate(c)
      PROVE  SetInv'
  <2>1. Linked' = Linked /\ Known' = Known /\ OneEntryPerFlow'
    <3>1. Linked' = Linked /\ Known' = Known
      BY <1>4, AllocateLinks
    <3>2. \A n \in Linked : flow'[n] = flow[n]
      BY <1>4, AllocateLinks, LinkedInList DEF TableInv
    <3> QED BY <3>1, <3>2, FewerStillOne
  <2>2. op[c] = "insert" /\ Past(c)
    BY <1>4 DEF Allocate, Past, TableInv, Placed, Belongs
  <2>3. arg[c] \notin Known
    BY <2>2 DEF SetInv
  <2> QED BY <1>2, <1>4, <2>1, <2>3, OthersSet DEF Work
<1>5. ASSUME NEW c \in Cpus, Add(c)
      PROVE  SetInv'
  <2>1. op[c] = "insert" /\ Past(c) /\ flow' = flow /\ pc'[c] = "inc"
    BY <1>5 DEF Add, Go, Past, TableInv, Shape, Placed, Belongs
  <2>2. arg[c] \notin Known
    BY <2>1 DEF SetInv
  <2>3. /\ Linked' = Linked \cup {ptr[c]} /\ flow[ptr[c]] = arg[c]
        /\ Known' = Known \cup {arg[c]}
    BY <1>5, AddLinks
  <2>4. OneEntryPerFlow'
    <3>1. \A n \in Linked : flow[n] # arg[c]
      BY <2>2 DEF Known
    <3> QED BY <2>1, <2>3, <3>1 DEF SetInv, OneEntryPerFlow
  <2> QED BY <1>2, <1>5, <2>1, <2>3, <2>4, OthersSet DEF Work, Past
<1>6. ASSUME NEW c \in Cpus, Remove(c) \/ ClearList(c)
      PROVE  SetInv'
  <2>1. Linked' \subseteq Linked /\ \A n \in Linked' : flow'[n] = flow[n]
    BY <1>6, RemoveUnlinks, ClearUnlinks
  <2>2. op[c] # "insert"
    BY <1>6 DEF Remove, ClearList, TableInv, Placed, Belongs
  <2>3. OneEntryPerFlow' /\ Known' \subseteq Known
    BY <2>1, FewerStillOne
  <2> QED BY <1>2, <1>6, <2>2, <2>3, OthersSet DEF Work
<1>7. CASE UNCHANGED vars
  <2>1. UNCHANGED <<list, flow, op, arg, pc, ptr>>
    BY <1>7 DEF vars, tableVars, cpuVars
  <2>2. Linked' = Linked /\ Known' = Known
    BY <2>1 DEF Linked, Known
  <2> QED BY <2>1, <2>2 DEF SetInv, Past, OneEntryPerFlow
<1>8. ASSUME NEW c \in Cpus, Work(c)
      PROVE  UNCHANGED <<list, flow>> \/ Allocate(c) \/ Add(c) \/ Remove(c) \/ ClearList(c)
  BY <1>8 DEF Work, WalkOn, Found, NotFound, Use, AllocateFails, IncSize, DecSize, ClearSize, tableVars
<1>9. ASSUME NEW c \in Cpus, StartClear(c)
      PROVE  SetInv'
  BY <1>3, <1>9 DEF StartClear
<1> QED BY <1>1, <1>3, <1>4, <1>5, <1>6, <1>7, <1>8, <1>9 DEF Next

\* flow.c:186-330: an insertion never adds a second entry of a flow, although
\* the search and the addition are not under one lock and deletions and clears
\* come between them, if another insertion of that flow does not.
THEOREM FlowsListedOnce ==
    ASSUME SynsInTurn
    PROVE  Spec => []OneEntryPerFlow
<1>1. SetInv => OneEntryPerFlow
  BY DEF SetInv
<1> QED BY <1>1, TableStarts, TableKept, SetInvStarts, SetInvKept, PTL DEF Spec

-----------------------------------------------------------------------------
(* To its callers the table is a set.                                      *)

\* A step that moves only its own CPU moves only what that CPU's caller has seen.
LEMMA SeenMoves ==
    ASSUME NEW c \in Cpus,
           \A d \in Cpus \ {c} : pc'[d] = pc[d] /\ ptr'[d] = ptr[d] /\ op'[d] = op[d]
    PROVE  /\ Progress' = [Progress EXCEPT ![c] = Seen(c)']
           /\ Seen(c)' = Seen(c) => Progress' = Progress
<1>1. \A d \in Cpus \ {c} : Seen(d)' = Seen(d)
  BY DEF Seen
<1>2. Progress' = [d \in Cpus |-> Seen(d)'] /\ Progress = [d \in Cpus |-> Seen(d)]
  BY DEF Progress
<1> QED BY <1>1, <1>2

\* An operation that ends returns.
LEMMA EndReturns ==
    ASSUME TableInv, NEW c \in Cpus, End(c), UNCHANGED <<list, flow, old>>
    PROVE  FS!Return(c)
<1>1. /\ pc' = [pc EXCEPT ![c] = "idle"] /\ op' = [op EXCEPT ![c] = "none"]
      /\ arg' = [arg EXCEPT ![c] = NoFlow] /\ ptr' = [ptr EXCEPT ![c] = NoNode]
  BY DEF End, Go
<1>2. Seen(c)' = "idle"
  BY <1>1 DEF Seen, TableInv, Shape
<1>3. \A d \in Cpus \ {c} : pc'[d] = pc[d] /\ ptr'[d] = ptr[d] /\ op'[d] = op[d]
  BY <1>1 DEF TableInv, Shape
<1>4. Progress' = [Progress EXCEPT ![c] = "idle"]
  BY <1>2, <1>3, SeenMoves
<1>5. Known' = Known
  BY DEF Known, Linked
<1> QED BY <1>1, <1>4, <1>5 DEF FS!Return

\* A CPU that goes to its next step within its operation.
LEMMA GoMoves ==
    ASSUME TableInv, NEW c \in Cpus, NEW p \in Steps, pc' = [pc EXCEPT ![c] = p],
           ptr' = ptr \/ \E n : ptr' = [ptr EXCEPT ![c] = n], op' = op
    PROVE  /\ Progress' = [Progress EXCEPT ![c] = Seen(c)']
           /\ Seen(c)' = Seen(c) => Progress' = Progress
           /\ pc'[c] = p
<1>1. \A d \in Cpus \ {c} : pc'[d] = pc[d] /\ ptr'[d] = ptr[d] /\ op'[d] = op[d]
  BY DEF TableInv, Shape
<1>2. pc'[c] = p
  BY DEF TableInv, Shape
<1> QED BY <1>1, <1>2, SeenMoves

\* What a Clear has found is in the table, and shrinks with it.
LEMMA OldShrinks ==
    ASSUME TableInv, Known \subseteq Known', old' = old
    PROVE  old' = [d \in Cpus |-> old[d] \cap Known']
<1>1. \A d \in Cpus : old[d] = old[d] \cap Known'
  BY DEF TableInv, Behind
<1> QED BY <1>1 DEF TableInv, Shape

\* The steps of a search, and of what follows it without touching the lists.
LEMMA SearchSeen ==
    ASSUME TableInv, SetInv, NEW c \in Cpus,
           WalkOn(c) \/ Found(c) \/ NotFound(c) \/ Use(c)
    PROVE  [FS!Next]_(FS!setVars)
<1>1. Progress[c] = Seen(c) /\ Belongs(pc[c], op[c])
  BY DEF Progress, TableInv, Placed
<1>2. UNCHANGED <<list, flow, old>> /\ Known' = Known
  BY DEF WalkOn, Found, NotFound, Use, tableVars, Known, Linked
<1>3. CASE WalkOn(c)
  <2>1. /\ pc[c] = "walk" /\ ptr[c] # NoNode /\ UNCHANGED <<pc, op, arg>>
        /\ \E n : ptr' = [ptr EXCEPT ![c] = n]
    BY <1>3 DEF WalkOn, Holds
  <2>2. pc' = [pc EXCEPT ![c] = "walk"]
    BY <2>1 DEF TableInv, Shape
  <2>3. /\ Progress' = [Progress EXCEPT ![c] = Seen(c)']
        /\ Seen(c)' = Seen(c) => Progress' = Progress
    BY <2>1, <2>2, GoMoves DEF Steps
  <2>4. Seen(c) = "called"
    BY <2>1 DEF Seen
  <2>5. CASE ptr'[c] = NoNode /\ op[c] # "insert"
    <3>1. Seen(c)' = "over" /\ arg[c] \notin Known /\ op[c] \in {"delete", "use"}
      BY <1>1, <1>3, <2>1, <2>5, WalkKeeps DEF Seen, Belongs
    <3>2. FS!Miss(c)
      BY <1>1, <1>2, <2>1, <2>3, <2>4, <3>1 DEF FS!Miss, FS!Advance, FS!Searches
    <3> QED BY <3>2 DEF FS!Next
  <2>6. CASE ~(ptr'[c] = NoNode /\ op[c] # "insert")
    <3>1. Seen(c)' = "called"
      BY <2>1, <2>6 DEF Seen
    <3> QED BY <1>2, <2>1, <2>3, <2>4, <3>1 DEF FS!setVars
  <2> QED BY <2>5, <2>6
<1>4. CASE Found(c)
  <2>1. pc[c] = "walk" /\ Holds(c) /\ flow[ptr[c]] = arg[c]
    BY <1>4 DEF Found
  <2>2. arg[c] \in Known /\ Seen(c) = "called"
    BY <2>1, HeldLinked DEF Known, Seen, Holds
  <2>3. CASE op[c] = "insert" /\ End(c)
    <3>1. FS!Refuse(c)
      BY <1>1, <1>2, <2>2, <2>3, EndReturns DEF FS!Refuse, FS!Runs
    <3> QED BY <3>1 DEF FS!Next
  <2>4. CASE op[c] = "delete" /\ Go(c, "del") /\ UNCHANGED <<op, arg, ptr, bkt>>
    <3>1. pc' = [pc EXCEPT ![c] = "del"] /\ "del" \in Steps
      BY <2>4 DEF Go, Steps
    <3>2. pc'[c] = "del" /\ (Seen(c)' = Seen(c) => Progress' = Progress)
      BY <2>4, <3>1, GoMoves
    <3>3. Seen(c)' = "called"
      BY <3>2 DEF Seen
    <3> QED BY <1>2, <2>2, <2>4, <3>2, <3>3 DEF FS!setVars
  <2>5. CASE op[c] = "use" /\ Go(c, "use") /\ UNCHANGED <<op, arg, ptr, bkt>>
    <3>1. pc' = [pc EXCEPT ![c] = "use"] /\ "use" \in Steps
      BY <2>5 DEF Go, Steps
    <3>2. pc'[c] = "use" /\ Progress' = [Progress EXCEPT ![c] = Seen(c)']
      BY <2>5, <3>1, GoMoves
    <3>3. Seen(c)' = "holds"
      BY <3>2 DEF Seen
    <3>4. FS!Hit(c)
      BY <1>1, <1>2, <2>2, <2>5, <3>2, <3>3 DEF FS!Hit, FS!Runs, FS!Advance
    <3> QED BY <3>4 DEF FS!Next
  <2> QED BY <1>4, <2>3, <2>4, <2>5 DEF Found
<1>5. CASE NotFound(c)
  <2>1. pc[c] = "walk" /\ ptr[c] = NoNode
    BY <1>5 DEF NotFound
  <2>2. CASE op[c] = "insert" /\ Go(c, "alloc") /\ UNCHANGED <<op, arg, ptr, bkt>>
    <3>1. pc' = [pc EXCEPT ![c] = "alloc"] /\ "alloc" \in Steps
      BY <2>2 DEF Go, Steps
    <3>2. pc'[c] = "alloc" /\ (Seen(c)' = Seen(c) => Progress' = Progress)
      BY <2>2, <3>1, GoMoves
    <3>3. Seen(c)' = "called" /\ Seen(c) = "called"
      BY <2>1, <2>2, <3>2 DEF Seen
    <3> QED BY <1>2, <2>2, <3>2, <3>3 DEF FS!setVars
  <2>3. CASE op[c] # "insert" /\ End(c)
    <3>1. Seen(c) = "over"
      BY <2>1, <2>3 DEF Seen
    <3>2. FS!Done(c)
      BY <1>1, <1>2, <2>3, <3>1, EndReturns DEF FS!Done
    <3> QED BY <3>2 DEF FS!Next
  <2> QED BY <1>5, <2>2, <2>3 DEF NotFound
<1>6. CASE Use(c)
  <2>1. pc[c] = "use" /\ Holds(c) /\ End(c)
    BY <1>6 DEF Use
  <2>2. flow[ptr[c]] = arg[c]
    BY <2>1 DEF TableInv, Placed, Stands
  <2>3. arg[c] \in Known /\ Seen(c) = "holds"
    BY <2>1, <2>2, HeldLinked DEF Known, Seen
  <2>4. FS!Use(c)
    BY <1>1, <1>2, <2>1, <2>3, EndReturns DEF FS!Use
  <2> QED BY <2>4 DEF FS!Next
<1> QED BY <1>3, <1>4, <1>5, <1>6

\* A deletion takes its flow away: there is no second entry of it.
LEMMA RemoveForgets ==
    ASSUME TableInv, SetInv, NEW c \in Cpus, Remove(c)
    PROVE  arg[c] \in Known /\ Known' = Known \ {arg[c]}
<1>1. /\ Linked' = Linked \ {ptr[c]} /\ ptr[c] \in Linked /\ flow[ptr[c]] = arg[c]
      /\ \A n \in Linked' : n # ptr[c] /\ flow'[n] = flow[n]
      /\ Known' \subseteq Known /\ Known \ {arg[c]} \subseteq Known'
  BY RemoveUnlinks
<1>2. \A n \in Linked' : flow'[n] # arg[c]
  BY <1>1 DEF SetInv, OneEntryPerFlow
<1>3. arg[c] \notin Known'
  BY <1>2 DEF Known
<1> QED BY <1>1, <1>3 DEF Known

\* The steps that change the lists or the size.
LEMMA ChangeSeen ==
    ASSUME TableInv, SetInv, NEW c \in Cpus,
           Allocate(c) \/ AllocateFails(c) \/ Add(c) \/ Remove(c) \/ IncSize(c) \/ DecSize(c)
    PROVE  [FS!Next]_(FS!setVars)
<1>1. Progress[c] = Seen(c) /\ Belongs(pc[c], op[c])
  BY DEF Progress, TableInv, Placed
<1>2. CASE Allocate(c)
  <2>1. /\ pc[c] = "alloc" /\ UNCHANGED <<op, arg, old>>
        /\ pc' = [pc EXCEPT ![c] = "add"] /\ "add" \in Steps
        /\ \E n : ptr' = [ptr EXCEPT ![c] = n]
    BY <1>2 DEF Allocate, Go, Steps
  <2>2. pc'[c] = "add" /\ (Seen(c)' = Seen(c) => Progress' = Progress)
    BY <2>1, GoMoves
  <2>3. Seen(c)' = "called" /\ Seen(c) = "called"
    BY <2>1, <2>2 DEF Seen
  <2> QED BY <1>2, <2>1, <2>2, <2>3, AllocateLinks DEF FS!setVars
<1>3. CASE AllocateFails(c)
  <2>1. pc[c] = "alloc" /\ End(c) /\ UNCHANGED <<list, flow, old>>
    BY <1>3 DEF AllocateFails, tableVars
  <2>2. FS!Refuse(c)
    BY <1>1, <2>1, EndReturns DEF FS!Refuse, FS!Runs, Seen, Belongs
  <2> QED BY <2>2 DEF FS!Next
<1>4. CASE Add(c)
  <2>1. /\ pc[c] = "add" /\ UNCHANGED <<op, arg, old>>
        /\ pc' = [pc EXCEPT ![c] = "inc"] /\ "inc" \in Steps
        /\ \E n : ptr' = [ptr EXCEPT ![c] = n]
    BY <1>4 DEF Add, Go, Steps
  <2>2. pc'[c] = "inc" /\ Progress' = [Progress EXCEPT ![c] = Seen(c)']
    BY <2>1, GoMoves
  <2>3. Seen(c)' = "over" /\ Seen(c) = "called" /\ op[c] = "insert"
    BY <1>1, <2>1, <2>2 DEF Seen, Belongs
  <2>4. arg[c] \notin Known
    BY <2>1, <2>3 DEF SetInv, Past
  <2>5. Known' = Known \cup {arg[c]}
    BY <1>4, AddLinks
  <2>6. old' = [d \in Cpus |-> old[d] \cap Known']
    BY <2>1, <2>5, OldShrinks
  <2>7. FS!Insert(c)
    BY <1>1, <2>1, <2>2, <2>3, <2>4, <2>5, <2>6 DEF FS!Insert, FS!Runs, FS!Change, FS!Advance
  <2> QED BY <2>7 DEF FS!Next
<1>5. CASE Remove(c)
  <2>1. /\ pc[c] = "del" /\ UNCHANGED <<op, arg>>
        /\ pc' = [pc EXCEPT ![c] = "dec"] /\ "dec" \in Steps
        /\ \E n : ptr' = [ptr EXCEPT ![c] = n]
        /\ old' = [d \in Cpus |-> old[d] \cap Known']
    BY <1>5 DEF Remove, Go, Steps, Still
  <2>2. pc'[c] = "dec" /\ Progress' = [Progress EXCEPT ![c] = Seen(c)']
    BY <2>1, GoMoves
  <2>3. Seen(c)' = "over" /\ Seen(c) = "called" /\ op[c] = "delete"
    BY <1>1, <2>1, <2>2 DEF Seen, Belongs
  <2>4. arg[c] \in Known /\ Known' = Known \ {arg[c]}
    BY <1>5, RemoveForgets
  <2>5. FS!Delete(c)
    BY <1>1, <2>1, <2>2, <2>3, <2>4 DEF FS!Delete, FS!Runs, FS!Change, FS!Advance
  <2> QED BY <2>5 DEF FS!Next
<1>6. CASE IncSize(c) \/ DecSize(c)
  <2>1. pc[c] \in {"inc", "dec"} /\ End(c) /\ UNCHANGED <<list, flow, old>>
    BY <1>6 DEF IncSize, DecSize
  <2>2. Seen(c) = "over"
    BY <2>1 DEF Seen
  <2>3. FS!Done(c)
    BY <1>1, <2>1, <2>2, EndReturns DEF FS!Done
  <2> QED BY <2>3 DEF FS!Next
<1> QED BY <1>2, <1>3, <1>4, <1>5, <1>6

\* The steps of a clear.
LEMMA ClearSeen ==
    ASSUME TableInv, SetInv, NEW c \in Cpus, ClearList(c) \/ ClearSize(c)
    PROVE  [FS!Next]_(FS!setVars)
<1>1. /\ Progress[c] = Seen(c) /\ pc[c] = "clear" /\ op[c] = "clear" /\ Seen(c) = "called"
  BY DEF Progress, TableInv, Placed, Belongs, Seen, ClearList, ClearSize
<1>2. CASE ClearList(c)
  <2>1. UNCHANGED <<op, arg, pc, ptr>> /\ old' = [d \in Cpus |-> old[d] \cap Known']
    BY <1>2 DEF ClearList, Still
  <2>2. Progress' = Progress
    BY <2>1 DEF Progress, Seen
  <2>3. Known' \in SUBSET Known
    BY <1>2, ClearUnlinks
  <2>4. FS!Forget(c)
    BY <1>1, <2>1, <2>2, <2>3 DEF FS!Forget, FS!Runs, FS!Change
  <2> QED BY <2>4 DEF FS!Next
<1>3. CASE ClearSize(c)
  <2>1. bkt[c] = Buckets /\ End(c) /\ UNCHANGED <<list, flow, old>>
    BY <1>3 DEF ClearSize
  <2>2. old[c] = {}
    <3>1. \A f \in old[c] : f \in Flows /\ Hash[f] >= Buckets
      BY <1>1, <2>1 DEF TableInv, Behind, Shape
    <3>2. \A f \in Flows : ~(Hash[f] >= Buckets)
      BY TableAssumption
    <3> QED BY <3>1, <3>2
  <2>3. FS!Cleared(c)
    BY <1>1, <2>1, <2>2, EndReturns DEF FS!Cleared, FS!Runs
  <2> QED BY <2>3 DEF FS!Next
<1> QED BY <1>2, <1>3

\* The start of an operation is its call; if its list is empty a search has its
\* answer with it.
LEMMA StartSeen ==
    ASSUME TableInv, NEW c \in Cpus, NEW f \in Flows,
           NEW o \in {"insert", "delete", "use"}, Start(c, o, f)
    PROVE  FS!Next
<1>1. /\ pc[c] = "idle" /\ pc' = [pc EXCEPT ![c] = "walk"]
      /\ op' = [op EXCEPT ![c] = o] /\ arg' = [arg EXCEPT ![c] = f]
      /\ ptr' = [ptr EXCEPT ![c] = IF list[Hash[f]] = <<>> THEN NoNode ELSE Head(list[Hash[f]])]
      /\ UNCHANGED <<list, flow, old>>
  BY DEF Start, May, Go, tableVars
<1>2. Known' = Known
  BY <1>1 DEF Known, Linked
<1>3. /\ pc'[c] = "walk" /\ op'[c] = o
      /\ \A d \in Cpus \ {c} : pc'[d] = pc[d] /\ ptr'[d] = ptr[d] /\ op'[d] = op[d]
  BY <1>1 DEF TableInv, Shape
<1>4. Progress' = [Progress EXCEPT ![c] = Seen(c)'] /\ Progress[c] = "idle"
  BY <1>1, <1>3, SeenMoves DEF Progress, Seen
<1>5. ptr'[c] = NoNode => f \notin Known
  <2>1. Hash[f] \in Lists /\ list[Hash[f]] \in Seq(Nodes)
    BY TableAssumption DEF Lists, TableInv, Shape
  <2>2. list[Hash[f]] # <<>> => Head(list[Hash[f]]) \in Nodes
    BY <2>1
  <2>3. ptr'[c] = NoNode => list[Hash[f]] = <<>>
    BY <1>1, <2>2, TableAssumption DEF TableInv, Shape
  <2>4. list[Hash[f]] = <<>> => Len(list[Hash[f]]) = 0
    BY <2>1
  <2> QED BY <2>3, <2>4, KnownInList DEF TableInv
<1>6. Seen(c)' = "called" \/ (Seen(c)' = "over" /\ o \in {"delete", "use"} /\ ptr'[c] = NoNode)
  BY <1>3 DEF Seen
<1>7. FS!Call(c, o, f)
  BY <1>1, <1>2, <1>4, <1>5, <1>6 DEF FS!Call, FS!Searches
<1> QED BY <1>7 DEF FS!Next

LEMMA StartClearSeen ==
    ASSUME TableInv, NEW c \in Cpus, StartClear(c)
    PROVE  FS!Next
<1>1. /\ pc[c] = "idle" /\ pc' = [pc EXCEPT ![c] = "clear"] /\ op' = [op EXCEPT ![c] = "clear"]
      /\ old' = [old EXCEPT ![c] = Known] /\ UNCHANGED <<list, flow, arg, ptr>>
  BY DEF StartClear, May, Go
<1>2. Known' = Known
  BY <1>1 DEF Known, Linked
<1>3. pc'[c] = "clear" /\ \A d \in Cpus \ {c} : pc'[d] = pc[d] /\ ptr'[d] = ptr[d] /\ op'[d] = op[d]
  BY <1>1 DEF TableInv, Shape
<1>4. Progress' = [Progress EXCEPT ![c] = "called"] /\ Progress[c] = "idle"
  <2>1. Seen(c)' = "called"
    BY <1>3 DEF Seen
  <2> QED BY <1>1, <1>3, <2>1, SeenMoves DEF Progress, Seen
<1>5. FS!CallClear(c)
  BY <1>1, <1>2, <1>4 DEF FS!CallClear
<1> QED BY <1>5 DEF FS!Next

\* An empty table is an empty set.
LEMMA SetStarts == Init => FS!Init
<1> SUFFICES ASSUME Init PROVE FS!Init
  OBVIOUS
<1>1. Known = {}
  BY DEF Init, Known, Linked, Entries
<1>2. Progress = [c \in Cpus |-> "idle"]
  BY DEF Init, Progress, Seen
<1> QED BY <1>1, <1>2 DEF Init, FS!Init

\* What the table maps to has the types of FlowSet: a caller never sees a flow that
\* is not one, and what a clear has still to take away is in the table.
THEOREM SetTypes == Spec => []FS!SetTypeOK
<1>1. TableInv => FS!SetTypeOK
  <2> SUFFICES ASSUME TableInv PROVE FS!SetTypeOK
    OBVIOUS
  <2>1. Progress \in [Cpus -> {"idle", "called", "holds", "over"}]
    BY DEF Progress, Seen
  <2>2. Known \subseteq Flows /\ old \in [Cpus -> SUBSET Known]
    BY KnownInList DEF TableInv, Shape, Behind
  <2> QED BY <2>1, <2>2 DEF FS!SetTypeOK, TableInv, Shape, Ops
<1> QED BY <1>1, TableStarts, TableKept, PTL DEF Spec

\* flow.c:186-378: whatever the lists, CPUs and flows, and with searches, additions,
\* deletions and clears overlapping in every way but for two insertions of one flow, the
\* table is to its callers a set of flows: a search that takes many steps and no lock answers for one moment of its call.
THEOREM TableIsSet ==
    ASSUME SynsInTurn
    PROVE  Spec => ImplementsFlowSet
<1>1. TableInv /\ SetInv /\ [Next]_vars => [FS!Next]_(FS!setVars)
  <2> SUFFICES ASSUME TableInv, SetInv, [Next]_vars PROVE [FS!Next]_(FS!setVars)
    OBVIOUS
  <2>1. ASSUME NEW c \in Cpus, NEW f \in Flows, NEW o \in {"insert", "delete", "use"}, Start(c, o, f)
        PROVE  FS!Next
    BY <2>1, StartSeen
  <2>2. ASSUME NEW c \in Cpus, StartClear(c)
        PROVE  FS!Next
    BY <2>2, StartClearSeen
  <2>3. ASSUME NEW c \in Cpus, Work(c)
        PROVE  [FS!Next]_(FS!setVars)
    BY <2>3, SearchSeen, ChangeSeen, ClearSeen DEF Work
  <2>4. CASE UNCHANGED vars
    BY <2>4 DEF vars, tableVars, cpuVars, FS!setVars, Known, Linked, Progress, Seen
  <2> QED BY <2>1, <2>2, <2>3, <2>4 DEF Next
<1> QED BY <1>1, TableStarts, TableKept, SetStarts, SetInvStarts, SetInvKept, PTL
        DEF Spec, ImplementsFlowSet, FS!Spec

-----------------------------------------------------------------------------
(* The module.                                                              *)

Ways == EntryPoints \cup {"none", "admin", "exit"}

\* Every operation was entered through something that is still there.
Entered ==
    \A c \in Cpus :
        /\ pc[c] = "idle" <=> via[c] = "none"
        /\ via[c] \in EntryPoints => via[c] \in up
        /\ via[c] = "admin" => stage = "live"
        /\ via[c] = "exit" => stage = "freeing"

\* What can be entered is registered only while there is a table.
Guarded ==
    /\ stage # "absent" => lists
    /\ stage \in {"absent", "freeing"} => up = {}

LifeInv ==
    /\ pc \in [Cpus -> Steps] /\ via \in [Cpus -> Ways]
    /\ Entered /\ Guarded

-----------------------------------------------------------------------------
\* Starting an operation moves an idle CPU to its first step.
LEMMA StartMoves ==
    ASSUME NEW c \in Cpus, NEW o, NEW f, pc \in [Cpus -> Steps], Start(c, o, f)
    PROVE  pc[c] = "idle" /\ pc' = [pc EXCEPT ![c] = "walk"]
BY DEF Start, May, Go

LEMMA StartClearMoves ==
    ASSUME NEW c \in Cpus, pc \in [Cpus -> Steps], StartClear(c)
    PROVE  pc[c] = "idle" /\ pc' = [pc EXCEPT ![c] = "clear"]
BY DEF StartClear, May, Go

\* A step of an operation is one of a CPU that is not idle, and moves only it.
LEMMA WorkMoves ==
    ASSUME NEW c \in Cpus, pc \in [Cpus -> Steps], Work(c)
    PROVE  pc[c] # "idle" /\ \E p \in Steps : pc' = [pc EXCEPT ![c] = p]
<1> USE DEF Steps
<1>1. CASE WalkOn(c) \/ ClearList(c)
  <2>1. pc[c] # "idle" /\ pc' = pc
    BY <1>1 DEF WalkOn, ClearList
  <2>2. pc' = [pc EXCEPT ![c] = pc[c]] /\ pc[c] \in Steps
    BY <2>1
  <2> QED BY <2>1, <2>2
<1>2. CASE Found(c) \/ NotFound(c) \/ Use(c)
  BY <1>2 DEF Found, NotFound, Use, End, Go
<1>3. CASE Allocate(c) \/ AllocateFails(c)
  BY <1>3 DEF Allocate, AllocateFails, End, Go
<1>4. CASE Add(c) \/ IncSize(c)
  BY <1>4 DEF Add, IncSize, End, Go
<1>5. CASE Remove(c) \/ DecSize(c) \/ ClearSize(c)
  BY <1>5 DEF Remove, DecSize, ClearSize, End, Go
<1> QED BY <1>1, <1>2, <1>3, <1>4, <1>5 DEF Work

-----------------------------------------------------------------------------
\* The kernel module starts and loads with an empty hand.
LEMMA LifeStarts == ModuleInit => LifeInv
BY DEF ModuleInit, Init, LifeInv, Entered, Guarded, Steps, Ways, EntryPoints

\* No registration, call or step of an operation breaks the invariant.
LEMMA LifeKept ==
    ASSUME FALSE \notin Memory, QuietAdmin, LifeInv, [ModuleNext]_allVars
    PROVE  LifeInv'
<1> USE DEF LifeInv
<1>1. CASE InitTable
  <2>1. stage = "absent" /\ stage' = "loading" /\ UNCHANGED <<pc, via, up>>
    BY <1>1 DEF InitTable, cpuVars
  <2>2. lists'
    <3>1. PICK ok \in Memory : lists' = ok
      BY <1>1 DEF InitTable
    <3>2. ok = TRUE
      BY ModuleAssumption
    <3> QED BY <3>1, <3>2
  <2> QED BY <2>1, <2>2 DEF Entered, Guarded
<1>2. ASSUME NEW k \in {"sysctl", "out", "in", "probe"}, NEW before, Register(k, before)
      PROVE  LifeInv'
  BY <1>2 DEF Register, Entered, Guarded, vars, cpuVars
<1>3. CASE InitFails
  BY <1>3 DEF InitFails, Entered, Guarded, vars, cpuVars
<1>4. CASE Unload
  BY <1>4 DEF Unload, Entered, Guarded, vars, cpuVars
<1>5. ASSUME NEW k \in {"sysctl", "out", "in", "probe"}, NEW rest, Unregister(k, rest)
      PROVE  LifeInv'
  BY <1>5 DEF Unregister, Entered, Guarded, vars, cpuVars
<1>6. CASE Free
  BY <1>6 DEF Free, Entered, Guarded, vars, cpuVars
<1>7. ASSUME NEW c \in Cpus, Call(c)
      PROVE  LifeInv'
  <2>1. PICK k \in EntryPoints \cap up, f \in Flows, o \in {"insert", "delete", "use"} :
          Start(c, o, f) /\ via' = [via EXCEPT ![c] = k]
    BY <1>7 DEF Call, Enter
  <2>2. pc[c] = "idle" /\ pc' = [pc EXCEPT ![c] = "walk"] /\ UNCHANGED <<stage, up, lists>>
    BY <1>7, <2>1, StartMoves DEF Call
  <2> QED BY <2>1, <2>2 DEF Entered, Guarded, Steps, Ways, EntryPoints
<1>8. ASSUME NEW c \in Cpus, AdminClear(c)
      PROVE  LifeInv'
  <2>1. pc[c] = "idle" /\ pc' = [pc EXCEPT ![c] = "clear"]
    BY <1>8, StartClearMoves DEF AdminClear
  <2>2. stage = "live" /\ via' = [via EXCEPT ![c] = "admin"] /\ UNCHANGED <<stage, up, lists>>
    BY <1>8 DEF AdminClear, Enter
  <2> QED BY <2>1, <2>2 DEF Entered, Guarded, Steps, Ways, EntryPoints
<1>9. ASSUME NEW c \in Cpus, Continue(c)
      PROVE  LifeInv'
  <2>1. PICK p \in Steps : pc' = [pc EXCEPT ![c] = p]
    BY <1>9, WorkMoves DEF Continue
  <2>2. pc[c] # "idle" /\ pc'[c] = p
    BY <1>9, <2>1, WorkMoves DEF Continue
  <2>3. /\ via' = [via EXCEPT ![c] = IF p = "idle" THEN "none" ELSE via[c]]
        /\ UNCHANGED <<stage, up, lists>>
    BY <1>9, <2>2 DEF Continue
  <2> QED BY <2>1, <2>2, <2>3 DEF Entered, Guarded, Ways, EntryPoints
<1>10. ASSUME NEW c \in Cpus, ExitTable(c)
       PROVE  LifeInv'
  <2>1. /\ stage = "unloading" /\ stage' = "freeing" /\ up = {} /\ pc[c] = "idle"
        /\ pc' = [pc EXCEPT ![c] = "clear"] /\ via' = [via EXCEPT ![c] = "exit"]
        /\ UNCHANGED <<up, lists>>
    BY <1>10 DEF ExitTable, Go
  <2> QED BY <2>1 DEF Entered, Guarded, Steps, Ways, EntryPoints
<1>11. CASE UNCHANGED allVars
  BY <1>11 DEF allVars, moduleVars, vars, cpuVars, Entered, Guarded
<1> QED BY <1>1, <1>2, <1>3, <1>4, <1>5, <1>6, <1>7, <1>8, <1>9, <1>10, <1>11
        DEF ModuleNext, ParamsInit, HookOutInit, HookInInit, JProbeInit,
            JProbeExit, HookOutExit, HookInExit, ParamsExit

\* main.c:58-96: whatever is registered, unregistered, called and cleared when,
\* no operation runs on a table that is not allocated.
THEOREM CallsFindTable ==
    ASSUME FALSE \notin Memory, QuietAdmin
    PROVE  ModuleSpec => []TableLive
<1>1. LifeInv => TableLive
  BY DEF LifeInv, Entered, Guarded, TableLive, At, Ways, EntryPoints
<1> QED BY <1>1, LifeStarts, LifeKept, PTL DEF ModuleSpec

-----------------------------------------------------------------------------
(* The table of the module.                                                *)

\* The last Clear has emptied the lists it is past, and once it is over there is
\* nothing in the table.
Emptied ==
    /\ stage = "absent" => ~lists
    /\ \A c \in Cpus : via[c] = "exit" =>
          pc[c] = "clear" /\ \A b \in Lists : b < bkt[c] => list[b] = <<>>
    /\ stage \in {"absent", "freeing"} /\ (\A c \in Cpus : via[c] # "exit") =>
          (\A b \in Lists : list[b] = <<>>) /\ size = 0
    /\ \A c, d \in Cpus : via[c] = "exit" /\ via[d] = "exit" => c = d

LEMMA EmptiedStarts == ModuleInit => Emptied
BY DEF ModuleInit, Init, Emptied

\* A list that a Clear has looked at is empty.
LEMMA ClearListEmpties ==
    ASSUME TableInv, NEW c \in Cpus, ClearList(c)
    PROVE  /\ bkt[c] \in Lists /\ bkt'[c] = bkt[c] + 1
           /\ list'[bkt[c]] = <<>>
           /\ \A b \in Lists \ {bkt[c]} : list'[b] = list[b]
<1>1. bkt[c] \in Lists /\ bkt'[c] = bkt[c] + 1
  BY TableAssumption DEF ClearList, TableInv, Shape, Lists
<1>2. list[bkt[c]] \in Seq(Nodes) /\ len[bkt[c]] = Len(list[bkt[c]])
  BY <1>1 DEF TableInv, Shape
<1>3. CASE len[bkt[c]] > 0
  BY <1>1, <1>3 DEF ClearList, TableInv, Shape
<1>4. CASE ~(len[bkt[c]] > 0)
  <2>1. list' = list
    BY <1>4 DEF ClearList
  <2>2. Len(list[bkt[c]]) = 0
    BY <1>2, <1>4
  <2>3. list[bkt[c]] = <<>>
    BY <1>2, <2>2
  <2> QED BY <1>1, <2>1, <2>3
<1> QED BY <1>3, <1>4

\* A step of an operation that was entered through what is still registered, or of
\* the operator's clear, comes while the module is neither absent nor being freed.
LEMMA EmptiedWork ==
    ASSUME LifeInv, TableInv, Emptied, NEW c \in Cpus, Continue(c)
    PROVE  Emptied'
<1> USE TableAssumption
<1>1. /\ Work(c) /\ UNCHANGED <<stage, lists>>
      /\ via' = [via EXCEPT ![c] = IF pc'[c] = "idle" THEN "none" ELSE via[c]]
  BY DEF Continue
<1>2. pc[c] # "idle" /\ \E p \in Steps : pc' = [pc EXCEPT ![c] = p]
  BY <1>1, WorkMoves DEF LifeInv
<1>3. \A d \in Cpus \ {c} : via'[d] = via[d] /\ pc'[d] = pc[d]
  BY <1>1, <1>2 DEF LifeInv
<1>4. CASE via[c] # "exit"
  <2>1. stage \notin {"absent", "freeing"}
    BY <1>2, <1>4 DEF LifeInv, Entered, Guarded, Ways, EntryPoints
  <2>2. \A d \in Cpus : via'[d] # "exit"
    BY <1>1, <1>3, <1>4, <2>1 DEF LifeInv, Entered
  <2> QED BY <1>1, <2>1, <2>2 DEF Emptied
<1>5. CASE via[c] = "exit"
  <2>1. /\ pc[c] = "clear" /\ \A b \in Lists : b < bkt[c] => list[b] = <<>>
        /\ stage = "freeing" /\ \A d \in Cpus \ {c} : via[d] # "exit"
    BY <1>5 DEF Emptied, LifeInv, Entered
  <2>2. ClearList(c) \/ ClearSize(c)
    BY <1>1, <2>1 DEF Work, WalkOn, Found, NotFound, Use, Allocate, AllocateFails, Add, IncSize,
                Remove, DecSize
  <2>3. CASE ClearList(c)
    <3>1. pc' = pc /\ via'[c] = "exit"
      BY <1>1, <1>5, <2>1, <2>3 DEF ClearList, LifeInv
    <3>2. \A b \in Lists : b < bkt[c] + 1 => list'[b] = <<>>
      <4>1. bkt[c] \in Int /\ \A b \in Lists : b \in Int
        BY DEF TableInv, Shape, Lists
      <4> QED BY <2>1, <2>3, <4>1, ClearListEmpties
    <3>3. bkt'[c] = bkt[c] + 1
      BY <2>3, ClearListEmpties
    <3> QED BY <1>1, <1>3, <2>1, <3>1, <3>2, <3>3 DEF Emptied
  <2>4. CASE ClearSize(c)
    <3>1. pc'[c] = "idle" /\ via'[c] = "none" /\ size' = 0 /\ list' = list /\ bkt[c] = Buckets
      BY <1>1, <2>4 DEF ClearSize, End, Go, LifeInv
    <3>2. \A b \in Lists : list[b] = <<>>
      BY <2>1, <3>1 DEF Lists
    <3> QED BY <1>1, <1>3, <2>1, <3>1, <3>2 DEF Emptied
  <2> QED BY <2>2, <2>3, <2>4
<1> QED BY <1>4, <1>5

\* An unload empties the table, and until the next load nothing enters it.
LEMMA EmptiedKept ==
    ASSUME FALSE \notin Memory, QuietAdmin, LifeInv, TableInv, Emptied, [ModuleNext]_allVars
    PROVE  Emptied'
<1> USE DEF LifeInv
<1>1. CASE InitTable
  <2>1. stage = "absent" /\ stage' = "loading" /\ UNCHANGED <<via, cpuVars>>
    BY <1>1 DEF InitTable
  <2>2. \A c \in Cpus : via[c] = "none"
    BY <2>1 DEF Entered, Guarded, Ways, EntryPoints
  <2> QED BY <2>1, <2>2 DEF Emptied
<1>2. CASE \/ ParamsInit \/ HookOutInit \/ HookInInit \/ JProbeInit \/ InitFails
           \/ Unload \/ JProbeExit \/ HookOutExit \/ HookInExit \/ ParamsExit
  <2>1. UNCHANGED <<list, pc, bkt, via>> /\ stage' \notin {"absent", "freeing"}
    BY <1>2 DEF ParamsInit, HookOutInit, HookInInit, JProbeInit, InitFails, Unload, JProbeExit,
                HookOutExit, HookInExit, ParamsExit, Register, Unregister, vars, tableVars, cpuVars
  <2> QED BY <2>1 DEF Emptied
<1>3. CASE Free
  BY <1>3 DEF Free, Emptied, vars, tableVars, cpuVars
<1>4. ASSUME NEW c \in Cpus, Call(c)
      PROVE  Emptied'
  <2>1. PICK k \in EntryPoints \cap up : via' = [via EXCEPT ![c] = k]
    BY <1>4 DEF Call, Enter
  <2>2. stage \notin {"absent", "freeing"} /\ stage' = stage
    BY <1>4, <2>1 DEF Guarded, Call
  <2>3. \A d \in Cpus : via'[d] # "exit"
    BY <2>1, <2>2 DEF Entered, EntryPoints
  <2> QED BY <2>2, <2>3 DEF Emptied
<1>5. ASSUME NEW c \in Cpus, AdminClear(c)
      PROVE  Emptied'
  <2>1. stage = "live" /\ via' = [via EXCEPT ![c] = "admin"] /\ stage' = stage
    BY <1>5 DEF AdminClear, Enter
  <2>2. \A d \in Cpus : via'[d] # "exit"
    BY <2>1 DEF Entered
  <2> QED BY <2>1, <2>2 DEF Emptied
<1>6. ASSUME NEW c \in Cpus, ExitTable(c)
      PROVE  Emptied'
  <2>1. /\ stage = "unloading" /\ stage' = "freeing" /\ pc[c] = "idle"
        /\ pc' = [pc EXCEPT ![c] = "clear"] /\ via' = [via EXCEPT ![c] = "exit"]
        /\ bkt' = bkt
    BY <1>6 DEF ExitTable, Go
  <2>2. bkt[c] = 0
    BY <2>1 DEF TableInv, Placed
  <2>3. \A d \in Cpus : via'[d] = "exit" <=> d = c
    BY <2>1 DEF Entered
  <2>4. pc'[c] = "clear" /\ \A b \in Lists : ~(b < 0)
    BY <2>1 DEF Lists
  <2> QED BY <2>1, <2>2, <2>3, <2>4 DEF Emptied
<1>7. ASSUME NEW c \in Cpus, Continue(c)
      PROVE  Emptied'
  BY <1>7, EmptiedWork
<1>8. CASE UNCHANGED allVars
  BY <1>8 DEF allVars, moduleVars, vars, tableVars, cpuVars, Emptied
<1> QED BY <1>1, <1>2, <1>3, <1>4, <1>5, <1>6, <1>7, <1>8 DEF ModuleNext

\* What a load allocates is as empty as what the last unload left, and the table
\* sees no more of a load, an unload or a call than its own operations.
LEMMA ModuleSteps ==
    ASSUME FALSE \notin Memory, QuietAdmin, LifeInv, TableInv, Emptied, [ModuleNext]_allVars
    PROVE  [Next]_vars
<1>1. CASE InitTable
  <2>1. /\ stage = "absent" /\ UNCHANGED <<flow, old, cpuVars>>
        /\ list' = [b \in Lists |-> <<>>] /\ len' = [b \in Lists |-> 0] /\ size' = 0
    BY <1>1, ModuleAssumption DEF InitTable
  <2>2. \A c \in Cpus : via[c] # "exit"
    BY <2>1 DEF LifeInv, Entered, Guarded, Ways, EntryPoints
  <2>3. size = 0 /\ \A b \in Lists : list[b] = <<>>
    BY <2>1, <2>2 DEF Emptied
  <2>4. list' = list
    BY <2>1, <2>3 DEF TableInv, Shape
  <2>5. \A b \in Lists : Len(list[b]) = 0
    BY <2>3
  <2>6. len' = len
    BY <2>1, <2>5 DEF TableInv, Shape
  <2> QED BY <2>1, <2>3, <2>4, <2>6 DEF vars, tableVars
<1>2. ASSUME NEW c \in Cpus, Call(c)
      PROVE  Next
  BY <1>2 DEF Call, Next
<1>3. ASSUME NEW c \in Cpus, AdminClear(c) \/ ExitTable(c)
      PROVE  Next
  <2>1. StartClear(c)
    BY <1>3 DEF AdminClear, ExitTable, StartClear, May
  <2> QED BY <2>1 DEF Next
<1>4. ASSUME NEW c \in Cpus, Continue(c)
      PROVE  Next
  BY <1>4 DEF Continue, Next
<1>5. CASE \/ ParamsInit \/ HookOutInit \/ HookInInit \/ JProbeInit \/ InitFails
           \/ Unload \/ JProbeExit \/ HookOutExit \/ HookInExit \/ ParamsExit \/ Free
           \/ UNCHANGED allVars
  BY <1>5 DEF ParamsInit, HookOutInit, HookInInit, JProbeInit, InitFails, Unload, JProbeExit,
              HookOutExit, HookInExit, ParamsExit, Free, Register, Unregister, allVars
<1> QED BY <1>1, <1>2, <1>3, <1>4, <1>5 DEF ModuleNext

\* The invariants of the module, and that its table runs as PiasTable.
LEMMA ModuleInv ==
    ASSUME FALSE \notin Memory, QuietAdmin
    PROVE  ModuleSpec => [](LifeInv /\ TableInv /\ Emptied) /\ Spec
<1>1. ModuleInit => Init /\ LifeInv /\ TableInv /\ Emptied
  BY LifeStarts, TableStarts, EmptiedStarts DEF ModuleInit
<1>2. LifeInv /\ TableInv /\ Emptied /\ [ModuleNext]_allVars =>
        LifeInv' /\ TableInv' /\ Emptied' /\ [Next]_vars
  BY LifeKept, EmptiedKept, ModuleSteps, TableKept
<1> QED BY <1>1, <1>2, PTL DEF ModuleSpec, Spec

\* main.c:58-96 over flow.c: the table of a module that is loaded, called, cleared,
\* unloaded and loaded again, any number of times, runs as the table alone: no load
\* finds anything that the unload before it has left.
THEOREM ModuleRunsTable ==
    ASSUME FALSE \notin Memory, QuietAdmin
    PROVE  ModuleSpec => Spec
BY ModuleInv, PTL

\* So what is proved of the table holds through the life of the module.
THEOREM ModuleTableSound ==
    ASSUME FALSE \notin Memory, QuietAdmin, SynsInTurn, IsFiniteSet(Cpus), IsFiniteSet(Nodes)
    PROVE  ModuleSpec => []OneEntryPerFlow /\ StepsOnLive /\ SizeKept /\ ImplementsFlowSet
BY ModuleRunsTable, FlowsListedOnce, SearchesStepOnLive, SizeFollows, TableIsSet, PTL

\* main.c:88-96: a module that has been removed has left no registration, no
\* lists, no entry and no memory, after any number of loads and whatever operations
\* overlapped on the way.
THEOREM UnloadLeavesNothing ==
    ASSUME FALSE \notin Memory, QuietAdmin
    PROVE  ModuleSpec => []NothingLeft
<1>1. LifeInv /\ TableInv /\ Emptied => NothingLeft
  <2>1. SUFFICES ASSUME LifeInv, TableInv, Emptied, stage = "absent"
                 PROVE  /\ up = {} /\ ~lists /\ At("idle") = Cpus
                        /\ Linked = {} /\ size = 0 /\ \A n \in Nodes : flow[n] = NoFlow
    BY DEF NothingLeft
  <2>2. up = {} /\ ~lists /\ \A c \in Cpus : pc[c] = "idle" /\ via[c] = "none"
    BY <2>1 DEF LifeInv, Entered, Guarded, Emptied, Ways, EntryPoints
  <2>3. size = 0 /\ \A b \in Lists : list[b] = <<>>
    BY <2>1, <2>2 DEF Emptied
  <2>4. Linked = {}
    BY <2>3 DEF Linked, Entries
  <2>5. \A n \in Nodes : flow[n] = NoFlow
    BY <2>1, <2>2, <2>4 DEF TableInv, NoLeak
  <2> QED BY <2>2, <2>3, <2>4, <2>5 DEF At
<1> QED BY <1>1, ModuleInv, PTL

\* The module keeps to its life cycle.
StageOK ==
    /\ stage \in {"absent", "loading", "live", "failed", "unloading", "freeing"}
    /\ up \subseteq EntryPoints \cup {"sysctl"} /\ lists \in BOOLEAN

LEMMA StageKept ==
    ASSUME StageOK, [ModuleNext]_allVars
    PROVE  StageOK'
<1> USE ModuleAssumption DEF StageOK, EntryPoints
<1>1. CASE InitTable \/ InitFails \/ Unload \/ Free
  BY <1>1 DEF InitTable, InitFails, Unload, Free
<1>2. CASE ParamsInit \/ HookOutInit \/ HookInInit \/ JProbeInit
  BY <1>2 DEF ParamsInit, HookOutInit, HookInInit, JProbeInit, Register
<1>3. CASE JProbeExit \/ HookOutExit \/ HookInExit \/ ParamsExit
  BY <1>3 DEF JProbeExit, HookOutExit, HookInExit, ParamsExit, Unregister
<1>4. ASSUME NEW c \in Cpus, Call(c) \/ AdminClear(c) \/ Continue(c) \/ ExitTable(c)
      PROVE  StageOK'
  BY <1>4 DEF Call, AdminClear, Continue, ExitTable
<1>5. CASE UNCHANGED allVars
  BY <1>5 DEF allVars, moduleVars
<1> QED BY <1>1, <1>2, <1>3, <1>4, <1>5 DEF ModuleNext

\* The types of the table and of the module, and that no list is ever longer than
\* there is memory for entries.
THEOREM ModuleTypes ==
    ASSUME FALSE \notin Memory, QuietAdmin, IsFiniteSet(Nodes)
    PROVE  ModuleSpec => []ModuleTypeOK
<1>1. ModuleInit => StageOK
  BY DEF ModuleInit, StageOK
<1>2. StageOK /\ [ModuleNext]_allVars => StageOK'
  BY StageKept
<1>3. TableInv /\ LifeInv /\ StageOK => ModuleTypeOK
  BY TypesFollow DEF ModuleTypeOK, LifeInv, StageOK, Ways
<1> QED BY <1>1, <1>2, <1>3, ModuleInv, PTL DEF ModuleSpec
=============================================================================
