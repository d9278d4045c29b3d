------------------------ MODULE FlowGeneratorProofs ------------------------
(* Theorems about FlowGenerator, for every set of flows and every limit.   *)
EXTENDS FlowGenerator, FiniteSetTheorems, TLAPS

\* What read_args and the command line guarantee.
Limits == IsFiniteSet(Flows) /\ Concurrent \in Nat

GenInv == GenTypeOK /\ AtMostConcurrent /\ ReportedAllEnded

\* The three invariants are inductive: only Start adds an active flow, and it
\* does so below the limit.
LEMMA GenStep ==
    ASSUME Limits
    PROVE  GenInv /\ [Next]_genVars => GenInv'
<1> SUFFICES ASSUME GenInv, [Next]_genVars
             PROVE  GenInv'
    OBVIOUS
<1> USE DEF Limits, GenInv, GenTypeOK, AtMostConcurrent, ReportedAllEnded
<1>1. IsFiniteSet(In("active"))
    BY FS_Subset DEF In
<1>2. ASSUME NEW f \in Flows, Start(f)
      PROVE  GenInv'
    <2>1. In("active")' \subseteq In("active") \cup {f}
        BY <1>2 DEF Start, In
    <2>2. /\ IsFiniteSet(In("active") \cup {f})
          /\ Cardinality(In("active") \cup {f}) <= Cardinality(In("active")) + 1
        <3>1. Cardinality(In("active")) \in Nat
            BY <1>1, FS_CardinalityType
        <3>2. CASE f \in In("active")
            <4>1. In("active") \cup {f} = In("active")
                BY <3>2
            <4> QED BY <4>1, <1>1, <3>1
        <3>3. CASE f \notin In("active")
            <4>1. /\ IsFiniteSet(In("active") \cup {f})
                  /\ Cardinality(In("active") \cup {f}) = Cardinality(In("active")) + 1
                BY <1>1, <3>3, FS_AddElement
            <4> QED BY <4>1, <3>1
        <3> QED BY <3>2, <3>3
    <2>3. Cardinality(In("active")') <= Cardinality(In("active") \cup {f})
        BY <2>1, <2>2, FS_Subset
    <2>4. /\ Cardinality(In("active")) \in Nat
          /\ Cardinality(In("active") \cup {f}) \in Nat
          /\ Cardinality(In("active")') \in Nat
        BY <1>1, <2>1, <2>2, FS_Subset, FS_CardinalityType
    <2>5. AtMostConcurrent'
        BY <1>2, <2>2, <2>3, <2>4 DEF Start
    <2> QED BY <1>2, <2>5 DEF Start
<1>3. ASSUME NEW f \in Flows, Finish(f)
      PROVE  GenInv'
    <2>1. In("active")' \subseteq In("active")
        BY <1>3 DEF Finish, In
    <2>2. Cardinality(In("active")') <= Cardinality(In("active"))
        BY <2>1, <1>1, FS_Subset
    <2>3. Cardinality(In("active")) \in Nat /\ Cardinality(In("active")') \in Nat
        BY <1>1, <2>1, FS_Subset, FS_CardinalityType
    <2>4. AtMostConcurrent'
        BY <2>2, <2>3
    <2> QED BY <1>3, <2>4 DEF Finish
<1>4. CASE Report
    <2>1. AtMostConcurrent'
        BY <1>4 DEF Report, In
    <2> QED BY <1>4, <2>1 DEF Report, In
<1>5. CASE UNCHANGED genVars
    BY <1>5 DEF genVars, In
<1> QED BY <1>2, <1>3, <1>4, <1>5 DEF Next

LEMMA GenInit ==
    ASSUME Limits
    PROVE  Init => GenInv
<1> SUFFICES ASSUME Init PROVE GenInv
    OBVIOUS
<1>1. In("active") = {}
    BY DEF Init, In
<1>2. AtMostConcurrent
    BY <1>1, FS_EmptySet DEF Limits, AtMostConcurrent
<1>3. GenTypeOK /\ ReportedAllEnded
    BY DEF Init, GenTypeOK, ReportedAllEnded
<1> QED BY <1>2, <1>3 DEF GenInv

LEMMA GenInvariant ==
    ASSUME Limits
    PROVE  Spec => []GenInv
<1> QED BY GenInit, GenStep, PTL DEF Spec

\* At most Concurrent flows are active at a time (client.c:66).
THEOREM ConcurrencyLimited ==
    ASSUME Limits
    PROVE  Spec => []AtMostConcurrent
<1>1. GenInv => AtMostConcurrent
    BY DEF GenInv
<1> QED BY <1>1, GenInvariant, PTL

\* A report is made only when every flow has ended (client.c:50).
THEOREM ReportsComplete ==
    ASSUME Limits
    PROVE  Spec => []ReportedAllEnded
<1>1. GenInv => ReportedAllEnded
    BY DEF GenInv
<1> QED BY <1>1, GenInvariant, PTL
=============================================================================
