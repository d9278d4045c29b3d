---------------------------- MODULE PiasNetwork ----------------------------
(***************************************************************************)
(* The arithmetic of PIAS/network.c: which of two TCP sequence numbers is  *)
(* larger, how far they are apart, and the priority of a byte count.  The  *)
(* code's numbers are u32: Mod is 2^32 and Near is 4294900000.             *)
(***************************************************************************)
EXTENDS Integers

CONSTANTS Mod,      \* the size of the sequence space
          Near,     \* differences beyond it are read as a wrap-around
          PrioNum,  \* PIAS_PRIO_NUM
          Thresh    \* PIAS_PRIO_THRESH, demotion thresholds in bytes

ASSUME NetworkAssumption ==
    /\ Mod \in Nat \ {0} /\ Near \in 0 .. Mod - 1
    /\ PrioNum \in Nat \ {0}
    /\ Thresh \in [0 .. PrioNum - 2 -> Nat]

Seqs == 0 .. Mod - 1

\* The next sequence number that is d further on.
Ahead(s, d) == (s + d) % Mod

\* How far one must go on from s2 to reach s1.
Distance(s1, s2) == (s1 - s2) % Mod

-----------------------------------------------------------------------------

IsSeqLargerNoWrap(s1, s2) == s1 > s2  \* faulty variant: a plain comparison

IsSeqLarger(s1, s2) ==
    \/ s1 > s2 /\ s1 - s2 <= Near
    \/ s1 < s2 /\ s2 - s1 > Near

\* The wrapped cases subtract from 4294967295, and so does the gap of a
\* sequence number to itself.
SeqGap(s1, s2) ==
    IF IsSeqLarger(s1, s2)
        THEN IF s1 > s2 THEN s1 - s2 ELSE Mod - 1 - (s2 - s1)
        ELSE IF s2 > s1 THEN s2 - s1 ELSE Mod - 1 - (s1 - s2)

\* The priorities whose threshold a flow of this size has not passed.
Fitting(size) == {i \in 0 .. PrioNum - 2 : size <= Thresh[i]}

PriorityReversed(size) ==  \* faulty variant: the comparison is reversed
    IF \E i \in 0 .. PrioNum - 2 : size >= Thresh[i] THEN 0 ELSE PrioNum - 1

\* The index of the priority, 0 the highest; its DSCP is a parameter.
Priority(size) ==
    IF Fitting(size) = {} THEN PrioNum - 1
    ELSE CHOOSE i \in Fitting(size) : \A j \in Fitting(size) : i <= j

-----------------------------------------------------------------------------
(* Properties, of all sequence numbers and byte counts.                    *)

\* network.c:30: of two different sequence numbers exactly one is larger,
\* although wrap-around is decided by two separate tests.
ExactlyOneLarger ==
    \A s1, s2 \in Seqs :
        IF s1 = s2 THEN ~IsSeqLarger(s1, s2)
        ELSE IsSeqLarger(s1, s2) # IsSeqLarger(s2, s1)

\* A sequence number less than Mod - Near ahead is recognised as larger and
\* one as little behind as not larger, wherever the sequence space wraps.
NearbyOrdered ==
    \A s \in Seqs, d \in 1 .. Mod - Near - 1 :
        d <= Near => IsSeqLarger(Ahead(s, d), s) /\ ~IsSeqLarger(s, Ahead(s, d))

\* Between different numbers the gap does not depend on the order of its
\* arguments, and is the distance or, across the wrap, one less.
GapNearlyDistance ==
    \A s1, s2 \in Seqs :
        s1 # s2 =>
            /\ SeqGap(s1, s2) = SeqGap(s2, s1)
            /\ IsSeqLarger(s1, s2) =>
                  SeqGap(s1, s2) = Distance(s1, s2) - (IF s1 < s2 THEN 1 ELSE 0)

\* A flow that has sent more never gets a higher priority.
PriorityFalls ==
    \A n, m \in Seqs : n <= m => Priority(n) <= Priority(m)
=============================================================================
