--------------------------- MODULE PiasFlowProofs ---------------------------
(***************************************************************************)
(* The arithmetic of PiasNetwork for every size of the sequence space,     *)
(* every limit Near and all demotion thresholds; and what PiasFlow keeps   *)
(* for every window: its types, the bound on the bytes in flight, from     *)
(* which the hooks' comparisons are right about everything in flight, and  *)
(* with it the sequence numbers of the flow's entry.                       *)
(***************************************************************************)
EXTENDS PiasFlow, WellFoundedInduction, TLAPS

-----------------------------------------------------------------------------
(* The arithmetic.                                                         *)

\* Going on by less than a whole round wraps at most once.
LEMMA AheadCases ==
    ASSUME NEW s \in Seqs, NEW d \in Seqs
    PROVE  /\ Ahead(s, d) = IF s + d < Mod THEN s + d ELSE s + d - Mod
           /\ Ahead(s, d) \in Seqs
<1> USE NetworkAssumption DEF Seqs
<1> DEFINE a == s + d
<1>1. a \in 0 .. 2 * Mod - 2
    OBVIOUS
<1>2. CASE a < Mod
    <2>1. a % Mod = a
        BY <1>1, <1>2
    <2> QED BY <2>1, <1>2 DEF Ahead
<1>3. CASE a >= Mod
    <2>1. a % Mod = a - Mod
        BY <1>1, <1>3
    <2> QED BY <2>1, <1>1, <1>3 DEF Ahead
<1> QED BY <1>2, <1>3, <1>1

\* The distance back from one number to another wraps at most once.
LEMMA DistanceCases ==
    ASSUME NEW s1 \in Seqs, NEW s2 \in Seqs
    PROVE  Distance(s1, s2) = IF s1 >= s2 THEN s1 - s2 ELSE s1 - s2 + Mod
<1> USE NetworkAssumption DEF Seqs
<1> DEFINE d == s1 - s2
<1>1. CASE s1 >= s2
    <2>1. d \in 0 .. Mod - 1
        BY <1>1
    <2>2. d % Mod = d
        BY <2>1
    <2> QED BY <2>2, <1>1 DEF Distance
<1>2. CASE s1 < s2
    <2>1. d \in 1 - Mod .. -1
        BY <1>2
    <2> HIDE DEF d
    <2>2. d % Mod = d + Mod
        BY <2>1
    <2> QED BY <2>2, <1>2 DEF Distance, d
<1> QED BY <1>1, <1>2

\* pias_is_seq_larger orders any two different sequence numbers in exactly
\* one way, whatever its limit is.
THEOREM SeqOrderTotal == ExactlyOneLarger
<1> QED BY NetworkAssumption DEF Seqs, ExactlyOneLarger, IsSeqLarger

\* Sequence numbers less than Mod - Near apart are ordered by which one is
\* ahead, also where the sequence space wraps.
THEOREM NearbySeqsOrdered == NearbyOrdered
<1> SUFFICES ASSUME NEW s \in Seqs, NEW d \in 1 .. Mod - Near - 1, d <= Near
             PROVE  IsSeqLarger(Ahead(s, d), s) /\ ~IsSeqLarger(s, Ahead(s, d))
    BY DEF NearbyOrdered
<1>1. d \in Seqs
    BY NetworkAssumption DEF Seqs
<1>2. Ahead(s, d) = IF s + d < Mod THEN s + d ELSE s + d - Mod
    BY <1>1, AheadCases
<1> QED BY <1>1, <1>2, NetworkAssumption DEF Seqs, IsSeqLarger

\* pias_seq_gap is symmetric on different numbers and is one short of the
\* distance exactly where the sequence space wraps between them.
THEOREM GapOneShort == GapNearlyDistance
<1> SUFFICES ASSUME NEW s1 \in Seqs, NEW s2 \in Seqs, s1 # s2
             PROVE  /\ SeqGap(s1, s2) = SeqGap(s2, s1)
                    /\ IsSeqLarger(s1, s2) =>
                          SeqGap(s1, s2) =
                              Distance(s1, s2) - (IF s1 < s2 THEN 1 ELSE 0)
    BY DEF GapNearlyDistance
<1>1. Distance(s1, s2) = IF s1 >= s2 THEN s1 - s2 ELSE s1 - s2 + Mod
    BY DistanceCases
<1>2. IsSeqLarger(s1, s2) <=> ~IsSeqLarger(s2, s1)
    BY NetworkAssumption DEF IsSeqLarger, Seqs
<1>3. SeqGap(s1, s2) = SeqGap(s2, s1)
    BY <1>2, NetworkAssumption DEF SeqGap, Seqs
<1>4. ASSUME IsSeqLarger(s1, s2)
      PROVE  SeqGap(s1, s2) = Distance(s1, s2) - (IF s1 < s2 THEN 1 ELSE 0)
    BY <1>1, <1>4, NetworkAssumption DEF SeqGap, Seqs
<1> QED BY <1>3, <1>4

\* A set of numbers that is not empty has a least one.
LEMMA Least ==
    ASSUME NEW S \in SUBSET Nat, S # {}
    PROVE  \E i \in S : \A j \in S : i <= j
<1>1. PICK x \in S : \A y \in S : ~ (<<y, x>> \in OpToRel(<, Nat))
    BY NatLessThanWellFounded, WFMin, Zenon
<1>2. \A y \in S : (<<y, x>> \in OpToRel(<, Nat)) <=> y < x
    BY Zenon DEF OpToRel
<1>3. \A y \in S : ~(y < x)
    BY <1>1, <1>2, Zenon
<1>4. \A y \in S : x <= y
    BY <1>3
<1> QED BY <1>4

\* pias_priority returns one of the priorities, and the first that fits.
LEMMA PriorityCases ==
    ASSUME NEW n
    PROVE  /\ Priority(n) \in 0 .. PrioNum - 1
           /\ Fitting(n) = {} => Priority(n) = PrioNum - 1
           /\ Fitting(n) # {} => /\ Priority(n) \in Fitting(n)
                                 /\ \A j \in Fitting(n) : Priority(n) <= j
<1>1. CASE Fitting(n) = {}
    <2>1. Priority(n) = PrioNum - 1
        BY <1>1 DEF Priority
    <2> QED BY <1>1, <2>1, NetworkAssumption
<1>2. CASE Fitting(n) # {}
    <2>1. Fitting(n) \in SUBSET Nat /\ Fitting(n) \subseteq 0 .. PrioNum - 1
        BY NetworkAssumption DEF Fitting
    <2>2. \E i \in Fitting(n) : \A j \in Fitting(n) : i <= j
        BY <1>2, <2>1, Least
    <2>3. Priority(n) = CHOOSE i \in Fitting(n) : \A j \in Fitting(n) : i <= j
        BY <1>2 DEF Priority
    <2>4. Priority(n) \in Fitting(n) /\ \A j \in Fitting(n) : Priority(n) <= j
        BY <2>2, <2>3, Zenon
    <2> QED BY <1>2, <2>1, <2>4
<1> QED BY <1>1, <1>2

\* A flow that has sent more bytes never has a higher priority, whatever the
\* thresholds are: they need not even be ascending.
THEOREM PriorityMonotone == PriorityFalls
<1> SUFFICES ASSUME NEW n \in Seqs, NEW m \in Seqs, n <= m
             PROVE  Priority(n) <= Priority(m)
    BY DEF PriorityFalls
<1>1. Fitting(m) \subseteq Fitting(n)
    BY NetworkAssumption DEF Fitting, Seqs
<1>2. Priority(n) \in 0 .. PrioNum - 1
    BY PriorityCases
<1>3. CASE Fitting(m) = {}
    <2>1. Priority(m) = PrioNum - 1
        BY <1>3, PriorityCases
    <2> QED BY <1>2, <2>1, NetworkAssumption
<1>4. CASE Fitting(m) # {}
    <2>1. Priority(m) \in Fitting(n)
        BY <1>1, <1>4, PriorityCases
    <2>2. \A j \in Fitting(n) : Priority(n) <= j
        BY <2>1, PriorityCases
    <2> QED BY <2>1, <2>2
<1> QED BY <1>3, <1>4

-----------------------------------------------------------------------------
(* The flow.                                                               *)

\* Never more than Window bytes are unacknowledged.
FlightBounded == Distance(nxt, una) <= Window

FlowInv == TypeOK /\ FlightBounded

-----------------------------------------------------------------------------
(* Lemmas about the operators.                                             *)

\* A count reduced to 32 bits is one.
LEMMA ModSeqs ==
    ASSUME NEW n \in Nat
    PROVE  n % Mod \in Seqs
BY NetworkAssumption DEF Seqs

\* The window fits into the sequence space, with room for the limit Near.
LEMMA WindowFits ==
    /\ Window \in Nat /\ Window \in Seqs /\ 1 \in Seqs /\ Mod - 1 \in Seqs
    /\ Mod \in Nat /\ 0 \in Seqs
    /\ 0 .. Window \subseteq Seqs
BY NetworkAssumption, FlowAssumption DEF Seqs

\* Sending d more bytes increases the distance by d.
LEMMA DistanceGrows ==
    ASSUME NEW s \in Seqs, NEW u \in Seqs, NEW d \in Seqs,
           Distance(s, u) + d < Mod
    PROVE  Distance(Ahead(s, d), u) = Distance(s, u) + d
<1>1. Ahead(s, d) = (IF s + d < Mod THEN s + d ELSE s + d - Mod) /\ Ahead(s, d) \in Seqs
    BY AheadCases
<1>2. Distance(s, u) = IF s >= u THEN s - u ELSE s - u + Mod
    BY DistanceCases
<1>3. Distance(Ahead(s, d), u) =
          IF Ahead(s, d) >= u THEN Ahead(s, d) - u ELSE Ahead(s, d) - u + Mod
    BY <1>1, DistanceCases
<1> QED BY <1>1, <1>2, <1>3, NetworkAssumption DEF Seqs

\* Acknowledging d of the bytes in flight decreases it by d.
LEMMA DistanceShrinks ==
    ASSUME NEW s \in Seqs, NEW u \in Seqs, NEW d \in Seqs, d <= Distance(s, u)
    PROVE  Distance(s, Ahead(u, d)) = Distance(s, u) - d
<1>1. Ahead(u, d) = (IF u + d < Mod THEN u + d ELSE u + d - Mod) /\ Ahead(u, d) \in Seqs
    BY AheadCases
<1>2. Distance(s, u) = IF s >= u THEN s - u ELSE s - u + Mod
    BY DistanceCases
<1>3. Distance(s, Ahead(u, d)) =
          IF s >= Ahead(u, d) THEN s - Ahead(u, d) ELSE s - Ahead(u, d) + Mod
    BY <1>1, DistanceCases
<1> QED BY <1>1, <1>2, <1>3, NetworkAssumption DEF Seqs

\* The bytes in flight are counted by a number of the sequence space.
LEMMA DistanceInSeqs ==
    ASSUME NEW s \in Seqs, NEW u \in Seqs
    PROVE  Distance(s, u) \in Seqs
<1>1. Distance(s, u) = IF s >= u THEN s - u ELSE s - u + Mod
    BY DistanceCases
<1> QED BY <1>1, NetworkAssumption DEF Seqs

\* Zero is a value of every field.
LEMMA ZeroFits ==
    /\ 0 \in Seqs /\ 0 \in 0 .. TimeoutThresh /\ 0 \in 0 .. Window /\ 0 \in Prios
BY NetworkAssumption, FlowAssumption DEF Seqs, Prios

\* The consecutive timeouts stay below the threshold.
LEMMA CountedBounded ==
    ASSUME NEW n \in 0 .. TimeoutThresh
    PROVE  /\ Counted(n + 1) \in 0 .. TimeoutThresh
           /\ Counted(1) \in 0 .. TimeoutThresh
           /\ 1 \in 0 .. TimeoutThresh
BY FlowAssumption DEF Counted

-----------------------------------------------------------------------------
(* Types.                                                                  *)

\* A packet that goes through the outgoing hook leaves a well-formed entry.
LEMMA PacketTypes ==
    ASSUME TypeOK, NEW seq \in Seqs, NEW l \in Nat, NEW new \in Nat,
           NEW late \in BOOLEAN, Packet(seq, l, new, late), nxt' \in Seqs
    PROVE  TypeOK'
<1> USE DEF TypeOK, Packet, timeoutVars
<1>1. (bytes_sent + l) % Mod \in Seqs /\ (fresh + new) % Mod \in Seqs /\ 0 \in Seqs
    BY ModSeqs, WindowFits DEF Seqs
<1>2. Priority(0) \in Prios
    BY PriorityCases DEF Prios
<1>3. /\ last_seq' \in Seqs /\ bytes_sent' \in Seqs /\ last_timeout_seq' \in Seqs
      /\ timeouts' \in 0 .. TimeoutThresh /\ run' \in 0 .. TimeoutThresh
    <2>1. CASE CountNew(seq, l)
        BY <1>1, <2>1 DEF CountNew
    <2>2. CASE CountTimeout(seq, late)
        <3>1. timeouts' \in 0 .. TimeoutThresh
            BY <2>2, CountedBounded DEF CountTimeout
        <3>2. run' \in 0 .. TimeoutThresh
            BY <2>2, CountedBounded DEF CountTimeout
        <3>3. bytes_sent' \in Seqs
            BY <2>2, <1>1 DEF CountTimeout
        <3> QED BY <2>2, <3>1, <3>2, <3>3 DEF CountTimeout
    <2>3. CASE CountNothing(seq, late)
        BY <2>3 DEF CountNothing
    <2>4. CASE ~tracked
        BY <2>4
    <2> QED BY <2>1, <2>2, <2>3, <2>4
<1>4. fresh' \in Seqs /\ pend' \in Seqs \cup {None} /\ mark' \in Prios
    BY <1>1, <1>2, <1>3
<1> QED BY <1>3, <1>4

\* Every step preserves the types.
LEMMA TypeStep ==
    TypeOK /\ [Next]_vars => TypeOK'
<1> SUFFICES ASSUME TypeOK, [Next]_vars
             PROVE  TypeOK'
    OBVIOUS
<1> USE WindowFits, ZeroFits
<1>0. /\ \A n : Priority(n) \in Prios
      /\ \A s, d \in Seqs : Ahead(s, d) \in Seqs
    BY PriorityCases, AheadCases DEF Prios
<1>1. ASSUME NEW isn \in Seqs, Syn(isn)
      PROVE  TypeOK'
    BY <1>0, <1>1 DEF TypeOK, Syn, InsertOnSyn, ResetEntry, entryVars, historyVars, timeoutVars
<1>2. CASE SynAgain
    BY <1>0, <1>2 DEF TypeOK, SynAgain, InsertOnSyn, ResetEntry, entryVars, historyVars, timeoutVars, connVars
<1>3. CASE FinOrRst
    BY <1>0, <1>3 DEF TypeOK, FinOrRst, DeleteEntry, ResetEntry
<1>4. CASE Mark
    BY <1>0, <1>4 DEF TypeOK, Mark, connVars, entryVars, historyVars, timeoutVars
<1>5. CASE Clear
    BY <1>5 DEF TypeOK, Clear, DeleteEntry, ResetEntry, connVars, markVars
<1>6. CASE PeerReset
    BY <1>6 DEF TypeOK, PeerReset, entryVars, historyVars, timeoutVars, markVars
<1>7. ASSUME NEW late \in BOOLEAN, PureAck(late)
      PROVE  TypeOK'
    BY <1>7, PacketTypes DEF TypeOK, PureAck
<1>8. ASSUME NEW late \in BOOLEAN, KeepAlive(late)
      PROVE  TypeOK'
    <2>1. Ahead(nxt, Mod - 1) \in Seqs /\ nxt' \in Seqs
        BY <1>0, <1>8 DEF TypeOK, KeepAlive
    <2> QED BY <1>8, <2>1, PacketTypes DEF KeepAlive
<1>9. ASSUME NEW late \in BOOLEAN, NEW l \in 1 .. Window, SendNew(l, late)
      PROVE  TypeOK'
    <2>1. l \in Nat /\ l \in Seqs /\ l - 1 \in Seqs
        BY DEF Seqs
    <2>2. Ahead(nxt, l - 1) \in Seqs /\ nxt' \in Seqs
        BY <1>0, <1>9, <2>1 DEF TypeOK, SendNew
    <2> QED BY <1>9, <2>1, <2>2, PacketTypes DEF SendNew
<1>10. ASSUME NEW late \in BOOLEAN, NEW l \in 1 .. Window, NEW from \in 0 .. Window,
              Retransmit(from, l, late)
       PROVE  TypeOK'
    <2>1. Distance(nxt, una) \in Seqs
        BY DistanceInSeqs DEF TypeOK
    <2>2. from + l - 1 \in Seqs /\ l \in Nat
        BY <1>10, <2>1 DEF Retransmit, Seqs
    <2>3. Ahead(una, from + l - 1) \in Seqs /\ nxt' \in Seqs
        BY <1>0, <1>10, <2>2 DEF TypeOK, Retransmit
    <2> QED BY <1>10, <2>2, <2>3, PacketTypes DEF Retransmit
<1>11. ASSUME NEW n \in 1 .. Window, Ack(n)
       PROVE  TypeOK'
    <2>1. Ahead(una, n) \in Seqs
        BY <1>0 DEF TypeOK
    <2>2. span' \in 0 .. Window
        BY <1>11 DEF TypeOK, Ack
    <2> QED BY <1>11, <2>1, <2>2 DEF TypeOK, Ack, HookIn, historyVars, timeoutVars, markVars
<1>12. ASSUME NEW n \in 0 .. Window, LateAck(n)
       PROVE  TypeOK'
    <2>1. Mod - n \in Nat /\ Ahead(una, Mod - n) \in Seqs
        BY ModSeqs DEF TypeOK, Ahead, Seqs
    <2> QED BY <1>12, <2>1 DEF TypeOK, LateAck, HookIn, connVars, historyVars, timeoutVars, markVars
<1>13. ASSUME NEW idle \in BOOLEAN, NEW drained \in BOOLEAN, SendMessage(idle, drained)
       PROVE  TypeOK'
    BY <1>13 DEF TypeOK, SendMessage, connVars, historyVars, timeoutVars, markVars
<1>14. CASE UNCHANGED vars
    BY <1>14 DEF TypeOK, vars, connVars, entryVars, historyVars, timeoutVars, markVars
<1> QED
    BY <1>1, <1>2, <1>3, <1>4, <1>5, <1>6, <1>7, <1>8, <1>9, <1>10, <1>11, <1>12,
       <1>13, <1>14 DEF Next

\* The entry and the connection keep their types.
THEOREM FlowTypes == Spec => []TypeOK
<1>1. Init => TypeOK
    BY ZeroFits DEF Init, TypeOK
<1> QED BY <1>1, TypeStep, PTL DEF Spec

-----------------------------------------------------------------------------
(* The bytes in flight.                                                    *)

\* Every step keeps the bytes in flight within the window.
LEMMA FlightStep ==
    FlowInv /\ [Next]_vars => FlightBounded'
<1> SUFFICES ASSUME TypeOK, FlightBounded, [Next]_vars
             PROVE  FlightBounded'
    BY DEF FlowInv
<1> USE WindowFits DEF FlightBounded
<1>0. nxt \in Seqs /\ una \in Seqs
    BY DEF TypeOK
<1>1. ASSUME NEW isn \in Seqs, Syn(isn)
      PROVE  FlightBounded'
    <2>1. Distance(isn, isn) = 0
        BY DistanceCases DEF Seqs
    <2>2. Distance(Ahead(isn, 1), isn) = 1
        BY <2>1, DistanceGrows, NetworkAssumption, FlowAssumption DEF Seqs
    <2>3. Distance(nxt', una') = 1
        BY <1>1, <2>2 DEF Syn
    <2> QED BY <2>3, FlowAssumption
<1>2. ASSUME NEW late \in BOOLEAN, NEW l \in 1 .. Window, SendNew(l, late)
      PROVE  FlightBounded'
    <2>1. l \in Seqs /\ Distance(nxt, una) \in Seqs /\ Distance(nxt, una) + l < Mod
        BY <1>0, <1>2, DistanceInSeqs DEF SendNew, Seqs
    <2>2. Distance(Ahead(nxt, l), una) = Distance(nxt, una) + l
        BY <1>0, <2>1, DistanceGrows
    <2> QED BY <1>2, <2>2 DEF SendNew, Packet
<1>3. ASSUME NEW n \in 1 .. Window, Ack(n)
      PROVE  FlightBounded'
    <2>1. n \in Seqs /\ n <= Distance(nxt, una) /\ Distance(nxt, una) \in Seqs
        BY <1>0, <1>3, DistanceInSeqs DEF Ack, Seqs
    <2>2. Distance(nxt, Ahead(una, n)) = Distance(nxt, una) - n
        BY <1>0, <2>1, DistanceShrinks
    <2> QED BY <1>3, <2>1, <2>2 DEF Ack, Seqs
<1>4. ASSUME nxt' = nxt, una' = una
      PROVE  FlightBounded'
    BY <1>4
<1>5. CASE SynAgain \/ FinOrRst \/ Mark \/ Clear \/ PeerReset
    BY <1>4, <1>5 DEF SynAgain, FinOrRst, Mark, Clear, PeerReset, connVars
<1>6. ASSUME NEW late \in BOOLEAN, PureAck(late) \/ KeepAlive(late)
      PROVE  FlightBounded'
    BY <1>4, <1>6 DEF PureAck, KeepAlive, Packet
<1>7. ASSUME NEW late \in BOOLEAN, NEW l \in 1 .. Window, NEW from \in 0 .. Window,
             Retransmit(from, l, late)
      PROVE  FlightBounded'
    BY <1>4, <1>7 DEF Retransmit, Packet
<1>8. ASSUME NEW n \in 0 .. Window, LateAck(n)
      PROVE  FlightBounded'
    BY <1>4, <1>8 DEF LateAck, connVars
<1>9. ASSUME NEW idle \in BOOLEAN, NEW drained \in BOOLEAN, SendMessage(idle, drained)
      PROVE  FlightBounded'
    BY <1>4, <1>9 DEF SendMessage, connVars
<1>10. CASE UNCHANGED vars
    BY <1>4, <1>10 DEF vars, connVars
<1> QED
    BY <1>1, <1>2, <1>3, <1>5, <1>6, <1>7, <1>8, <1>9, <1>10 DEF Next

\* The inductive invariant holds.
LEMMA FlowInvariant == Spec => []FlowInv
<1>1. Init => FlightBounded
    <2>1. Distance(0, 0) = 0
        BY WindowFits, DistanceCases DEF Seqs
    <2> QED BY <2>1, WindowFits DEF Init, FlightBounded
<1>2. Init => TypeOK
    BY ZeroFits DEF Init, TypeOK
<1>3. FlowInv /\ [Next]_vars => FlowInv'
    BY TypeStep, FlightStep DEF FlowInv
<1> QED BY <1>1, <1>2, <1>3, PTL DEF Spec, FlowInv

\* Numbers in flight wrap at most once, and are less than Near apart.
LEMMA FlightCases ==
    ASSUME FlowInv, NEW a \in InFlight
    PROVE  /\ una \in Seqs /\ a \in Seqs /\ a <= Window
           /\ Ahead(una, a) = IF una + a < Mod THEN una + a ELSE una + a - Mod
<1>1. una \in Seqs /\ nxt \in Seqs /\ Distance(nxt, una) <= Window
    BY DEF FlowInv, TypeOK, FlightBounded
<1>2. a \in Seqs /\ a <= Window
    BY <1>1, DistanceInSeqs, WindowFits DEF InFlight, Seqs
<1> QED BY <1>1, <1>2, AheadCases

\* pias_is_seq_larger is right about any two numbers in flight.
THEOREM OrderedInFlight == Spec => []FlightOrdered
<1>1. FlowInv => FlightOrdered
    <2> SUFFICES ASSUME FlowInv, NEW a \in InFlight, NEW b \in InFlight
                 PROVE  IsSeqLarger(Ahead(una, a), Ahead(una, b)) <=> a > b
        BY DEF FlightOrdered
    <2> DEFINE s1 == Ahead(una, a)
               s2 == Ahead(una, b)
    <2>1. /\ una \in Seqs /\ a \in Seqs /\ b \in Seqs /\ a <= Window /\ b <= Window
          /\ s1 = IF una + a < Mod THEN una + a ELSE una + a - Mod
          /\ s2 = IF una + b < Mod THEN una + b ELSE una + b - Mod
        BY FlightCases
    <2> HIDE DEF s1, s2
    <2>2. IsSeqLarger(s1, s2) <=> a > b
        BY <2>1, NetworkAssumption, FlowAssumption DEF IsSeqLarger, Seqs
    <2> QED BY <2>2 DEF s1, s2
<1> QED BY <1>1, FlowInvariant, PTL

\* pias_seq_gap between numbers in flight is at most one byte short.
THEOREM GapsInFlight == Spec => []FlightGaps
<1>1. FlowInv => FlightGaps
    <2> SUFFICES ASSUME FlowInv, NEW a \in InFlight, NEW b \in InFlight, a > b
                 PROVE  /\ SeqGap(Ahead(una, a), Ahead(una, b))
                               = SeqGap(Ahead(una, b), Ahead(una, a))
                        /\ SeqGap(Ahead(una, a), Ahead(una, b)) \in {a - b - 1, a - b}
        BY DEF FlightGaps
    <2> DEFINE s1 == Ahead(una, a)
               s2 == Ahead(una, b)
    <2>1. /\ una \in Seqs /\ a \in Seqs /\ b \in Seqs /\ a <= Window /\ b <= Window
          /\ s1 = IF una + a < Mod THEN una + a ELSE una + a - Mod
          /\ s2 = IF una + b < Mod THEN una + b ELSE una + b - Mod
        BY FlightCases
    <2> HIDE DEF s1, s2
    <2>2. IsSeqLarger(s1, s2) /\ ~IsSeqLarger(s2, s1)
        BY <2>1, NetworkAssumption, FlowAssumption DEF IsSeqLarger, Seqs
    <2>3. SeqGap(s1, s2) = SeqGap(s2, s1)
        BY <2>1, <2>2, NetworkAssumption DEF SeqGap, Seqs
    <2>4. SeqGap(s1, s2) \in {a - b - 1, a - b}
        BY <2>1, <2>2, NetworkAssumption DEF SeqGap, Seqs
    <2> QED BY <2>3, <2>4 DEF s1, s2
<1> QED BY <1>1, FlowInvariant, PTL

-----------------------------------------------------------------------------
(* The flow's entry, for a sender whose segments are longer than one byte   *)
(* and whose initial sequence numbers lie below Near.                       *)

Regular == "oneByte" \notin Extras /\ "highIsn" \notin Extras

\* A connection that is being opened has sent its SYN only, and the entry
\* inserted by it has seen no acknowledgement.
SynInv ==
    conn = "syn" => /\ nxt = Ahead(una, 1) /\ una < Near
                    /\ (Own => last_ack = 0)

\* The count a packet found is not exceeded before the packet is marked.
PendInv == pend # None => bytes_sent <= pend

EntryInv ==
    FlowInv /\ SynInv /\ LastSeqTracked /\ LastAckTracked /\ BytesExact /\ PendInv

-----------------------------------------------------------------------------
(* Sequence numbers of the connection, counted from the last one that was   *)
(* acknowledged.                                                            *)

\* The sequence number before s.
Before(s) == Ahead(s, Mod - 1)

\* Numbers of a stretch slightly longer than the window are ordered.
LEMMA StretchOrdered ==
    ASSUME NEW s \in Seqs, NEW i \in 0 .. Window + 1, NEW j \in 0 .. Window + 1
    PROVE  IsSeqLarger(Ahead(s, i), Ahead(s, j)) <=> i > j
<1>1. i \in Seqs /\ j \in Seqs /\ i <= Near /\ j <= Near
    BY NetworkAssumption, FlowAssumption DEF Seqs
<1> DEFINE s1 == Ahead(s, i)
           s2 == Ahead(s, j)
<1>2. s1 = IF s + i < Mod THEN s + i ELSE s + i - Mod
    BY <1>1, AheadCases
<1>3. s2 = IF s + j < Mod THEN s + j ELSE s + j - Mod
    BY <1>1, AheadCases
<1> HIDE DEF s1, s2
<1>4. IsSeqLarger(s1, s2) <=> i > j
    BY <1>1, <1>2, <1>3, NetworkAssumption, FlowAssumption DEF IsSeqLarger, Seqs
<1> QED BY <1>4 DEF s1, s2

\* Going on twice is going on by the sum.
LEMMA AheadTwice ==
    ASSUME NEW s \in Seqs, NEW d \in Seqs, NEW e \in Seqs, d + e < Mod
    PROVE  Ahead(Ahead(s, d), e) = Ahead(s, d + e)
<1>1. d + e \in Seqs
    BY NetworkAssumption DEF Seqs
<1>2. /\ Ahead(s, d) = (IF s + d < Mod THEN s + d ELSE s + d - Mod)
      /\ Ahead(s, d) \in Seqs
    BY AheadCases
<1>3. Ahead(s, d + e) = IF s + (d + e) < Mod THEN s + (d + e) ELSE s + (d + e) - Mod
    BY <1>1, AheadCases
<1> DEFINE t == Ahead(s, d)
<1>4. Ahead(t, e) = IF t + e < Mod THEN t + e ELSE t + e - Mod
    BY <1>2, AheadCases
<1> QED BY <1>2, <1>3, <1>4, NetworkAssumption DEF Seqs

\* The next number after the one before s is s.
LEMMA BeforeAhead ==
    ASSUME NEW s \in Seqs
    PROVE  Before(s) \in Seqs /\ Ahead(Before(s), 1) = s
<1>1. /\ Ahead(s, Mod - 1) = (IF s + (Mod - 1) < Mod THEN s + (Mod - 1)
                                                   ELSE s + (Mod - 1) - Mod)
      /\ Ahead(s, Mod - 1) \in Seqs
    BY WindowFits, AheadCases
<1>2. Before(s) = IF s = 0 THEN Mod - 1 ELSE s - 1
    BY <1>1, NetworkAssumption DEF Seqs, Before
<1>3. Before(s) \in Seqs
    BY <1>1 DEF Before
<1> DEFINE b == Before(s)
<1>4. Ahead(b, 1) = IF b + 1 < Mod THEN b + 1 ELSE b + 1 - Mod
    BY <1>3, WindowFits, AheadCases
<1>5. b = IF s = 0 THEN Mod - 1 ELSE s - 1
    BY <1>2
<1> HIDE DEF b
<1>6. Ahead(b, 1) = s
    BY <1>4, <1>5, NetworkAssumption DEF Seqs
<1> QED BY <1>3, <1>6 DEF b

\* The number before the next one is s itself.
LEMMA AheadBefore ==
    ASSUME NEW s \in Seqs
    PROVE  Ahead(s, 1) \in Seqs /\ Before(Ahead(s, 1)) = s
<1>1. /\ Ahead(s, 1) = (IF s + 1 < Mod THEN s + 1 ELSE s + 1 - Mod)
      /\ Ahead(s, 1) \in Seqs
    BY WindowFits, AheadCases
<1> DEFINE t == Ahead(s, 1)
<1>2. Ahead(t, Mod - 1) = IF t + (Mod - 1) < Mod THEN t + (Mod - 1) ELSE t + (Mod - 1) - Mod
    BY <1>1, WindowFits, AheadCases
<1>3. Ahead(t, Mod - 1) = s
    BY <1>1, <1>2, NetworkAssumption DEF Seqs
<1> QED BY <1>1, <1>3 DEF Before

\* Going on from una by the distance leads to nxt.
LEMMA DistanceAhead ==
    ASSUME NEW s \in Seqs, NEW u \in Seqs
    PROVE  Ahead(u, Distance(s, u)) = s
<1>1. Distance(s, u) \in Seqs
    BY DistanceInSeqs
<1>2. Distance(s, u) = IF s >= u THEN s - u ELSE s - u + Mod
    BY DistanceCases
<1>3. Ahead(u, Distance(s, u)) = IF u + Distance(s, u) < Mod THEN u + Distance(s, u)
                                                            ELSE u + Distance(s, u) - Mod
    BY <1>1, AheadCases
<1> QED BY <1>1, <1>2, <1>3, NetworkAssumption DEF Seqs

\* The numbers the sender uses, by their place after the one before una.
LEMMA Places ==
    ASSUME FlowInv
    PROVE  /\ Before(una) \in Seqs /\ Distance(nxt, una) \in 0 .. Window
           /\ \A k \in 0 .. Window : Ahead(una, k) = Ahead(Before(una), k + 1)
           /\ nxt = Ahead(Before(una), Distance(nxt, una) + 1)
           /\ Before(nxt) = Ahead(Before(una), Distance(nxt, una))
           /\ una = Ahead(Before(una), 1)
           /\ \A k \in 0 .. Window : Distance(nxt, una) + k <= Window =>
                 Ahead(nxt, k) = Ahead(Before(una), Distance(nxt, una) + 1 + k)
<1> DEFINE b == Before(una)
           d == Distance(nxt, una)
<1>1. /\ una \in Seqs /\ nxt \in Seqs /\ d \in Seqs /\ d \in 0 .. Window
      /\ b \in Seqs /\ Ahead(b, 1) = una
    <2>1. una \in Seqs /\ nxt \in Seqs /\ d <= Window
        BY DEF FlowInv, TypeOK, FlightBounded
    <2>2. d \in Seqs
        BY <2>1, DistanceInSeqs
    <2> QED BY <2>1, <2>2, BeforeAhead, WindowFits DEF Seqs
<1>2. Window + 2 < Mod /\ Window \in Nat /\ 1 \in Seqs /\ Mod \in Nat
    BY NetworkAssumption, FlowAssumption, WindowFits
<1> HIDE DEF b, d
<1>3. ASSUME NEW k \in 0 .. Window
      PROVE  Ahead(una, k) = Ahead(b, k + 1)
    <2>1. k \in Seqs /\ 1 + k < Mod /\ 1 + k = k + 1
        BY <1>2 DEF Seqs
    <2>2. Ahead(Ahead(b, 1), k) = Ahead(b, 1 + k)
        BY <1>1, <1>2, <2>1, AheadTwice
    <2> QED BY <1>1, <2>1, <2>2
<1>4. nxt = Ahead(una, d) /\ nxt = Ahead(b, d + 1)
    BY <1>1, <1>3, DistanceAhead DEF d
<1>5. Before(nxt) = Ahead(b, d)
    <2>1. Ahead(b, d) \in Seqs
        BY <1>1, AheadCases
    <2>2. Ahead(Ahead(b, d), 1) = Ahead(b, d + 1)
        BY <1>1, <1>2, AheadTwice
    <2>3. Before(Ahead(Ahead(b, d), 1)) = Ahead(b, d)
        BY <2>1, AheadBefore
    <2> QED BY <1>4, <2>2, <2>3
<1>6. ASSUME NEW k \in 0 .. Window, d + k <= Window
      PROVE  Ahead(nxt, k) = Ahead(b, d + 1 + k)
    <2>1. k \in Seqs /\ d + 1 \in Seqs /\ (d + 1) + k < Mod
        BY <1>1, <1>2, <1>6 DEF Seqs
    <2>2. Ahead(Ahead(b, d + 1), k) = Ahead(b, d + 1 + k)
        BY <1>1, <2>1, AheadTwice
    <2> QED BY <1>4, <2>2
<1> QED BY <1>1, <1>3, <1>4, <1>5, <1>6 DEF b, d

-----------------------------------------------------------------------------
(* What a packet of the connection finds in its entry.                      *)

\* No number before nxt, retransmitted or of a keep-alive, is larger than the
\* last one.
LEMMA OldSeqs ==
    ASSUME FlowInv, LastSeqTracked, Own, conn = "open",
           NEW k \in 0 .. Distance(nxt, una)
    PROVE  ~IsSeqLarger(Ahead(Before(una), k), last_seq)
<1> DEFINE b == Before(una)
           d == Distance(nxt, una)
<1>1. b \in Seqs /\ d \in 0 .. Window /\ nxt = Ahead(b, d + 1) /\ Before(nxt) = Ahead(b, d)
    BY Places
<1>2. last_seq = Ahead(b, d) \/ last_seq = Ahead(b, d + 1)
    BY <1>1 DEF LastSeqTracked, Before
<1> HIDE DEF b, d
<1>3. k \in 0 .. Window + 1 /\ d \in 0 .. Window + 1 /\ d + 1 \in 0 .. Window + 1
      /\ ~(k > d) /\ ~(k > d + 1)
    BY <1>1, WindowFits DEF d
<1>4. ~IsSeqLarger(Ahead(b, k), Ahead(b, d)) /\ ~IsSeqLarger(Ahead(b, k), Ahead(b, d + 1))
    BY <1>1, <1>3, StretchOrdered
<1> QED BY <1>2, <1>4 DEF b

\* A new segment of more than one byte ends beyond the last number.
LEMMA NewSeqs ==
    ASSUME FlowInv, LastSeqTracked, Own, conn = "open",
           NEW l \in 2 .. Window, Distance(nxt, una) + l <= Window
    PROVE  /\ IsSeqLarger(Ahead(nxt, l - 1), last_seq)
           /\ Ahead(nxt, l - 1) = Before(Ahead(nxt, l))
<1> DEFINE b == Before(una)
           d == Distance(nxt, una)
<1>1. /\ b \in Seqs /\ d \in 0 .. Window /\ nxt = Ahead(b, d + 1) /\ Before(nxt) = Ahead(b, d)
      /\ \A k \in 0 .. Window : d + k <= Window => Ahead(nxt, k) = Ahead(b, d + 1 + k)
    BY Places
<1>2. last_seq = Ahead(b, d) \/ last_seq = Ahead(b, d + 1)
    BY <1>1 DEF LastSeqTracked, Before
<1>3. nxt \in Seqs /\ Window \in Nat /\ d + l <= Window
    BY WindowFits DEF FlowInv, TypeOK
<1> HIDE DEF b, d
<1>4. /\ l - 1 \in 0 .. Window /\ d + (l - 1) <= Window /\ d + 1 + (l - 1) = d + l
      /\ d + l \in 0 .. Window + 1 /\ d \in 0 .. Window + 1 /\ d + 1 \in 0 .. Window + 1
      /\ d + l > d /\ d + l > d + 1
    BY <1>1, <1>3
<1>5. Ahead(nxt, l - 1) = Ahead(b, d + l)
    BY <1>1, <1>4
<1>6. IsSeqLarger(Ahead(b, d + l), Ahead(b, d)) /\ IsSeqLarger(Ahead(b, d + l), Ahead(b, d + 1))
    BY <1>1, <1>4, StretchOrdered
<1>7. Ahead(nxt, l - 1) = Before(Ahead(nxt, l))
    <2>1. l - 1 \in Seqs /\ (l - 1) + 1 < Mod /\ (l - 1) + 1 = l /\ 1 \in Seqs
        BY WindowFits, NetworkAssumption, FlowAssumption DEF Seqs
    <2>2. Ahead(Ahead(nxt, l - 1), 1) = Ahead(nxt, l)
        BY <1>3, <2>1, AheadTwice
    <2>3. Ahead(nxt, l - 1) \in Seqs
        BY <1>3, <2>1, AheadCases
    <2> QED BY <2>2, <2>3, AheadBefore
<1> QED BY <1>2, <1>5, <1>6, <1>7

\* Retransmitted numbers are places before nxt, and so is a keep-alive's.
LEMMA RetransmitPlace ==
    ASSUME FlowInv, NEW from \in 0 .. Window, NEW l \in 1 .. Window,
           from + l <= Distance(nxt, una)
    PROVE  \E k \in 0 .. Distance(nxt, una) :
               Ahead(una, from + l - 1) = Ahead(Before(una), k)
<1>1. /\ Distance(nxt, una) \in 0 .. Window
      /\ \A k \in 0 .. Window : Ahead(una, k) = Ahead(Before(una), k + 1)
    BY Places
<1> DEFINE d == Distance(nxt, una)
<1> HIDE DEF d
<1>2. /\ from + l - 1 \in 0 .. Window /\ (from + l - 1) + 1 = from + l
      /\ from + l \in 0 .. d
    BY <1>1, WindowFits DEF d
<1>3. Ahead(una, from + l - 1) = Ahead(Before(una), from + l)
    BY <1>1, <1>2
<1> QED BY <1>2, <1>3 DEF d

LEMMA KeepAlivePlace ==
    ASSUME FlowInv
    PROVE  \E k \in 0 .. Distance(nxt, una) :
               Ahead(nxt, Mod - 1) = Ahead(Before(una), k)
<1>1. Distance(nxt, una) \in 0 .. Distance(nxt, una)
    BY Places
<1> QED BY <1>1, Places DEF Before

\* A retransmission or a keep-alive goes through the hook with an old number
\* and brings nothing new.
LEMMA OldPacket ==
    ASSUME FlowInv, LastSeqTracked, Own, NEW late \in BOOLEAN,
           \/ KeepAlive(late)
           \/ \E l \in 1 .. Window, from \in 0 .. Window : Retransmit(from, l, late)
    PROVE  \E seq, l : Packet(seq, l, 0, late) /\ ~IsSeqLarger(seq, last_seq)
<1>1. CASE KeepAlive(late)
    <2>1. Packet(Ahead(nxt, Mod - 1), 0, 0, late) /\ conn = "open"
        BY <1>1 DEF KeepAlive, Packet
    <2>2. PICK k \in 0 .. Distance(nxt, una) : Ahead(nxt, Mod - 1) = Ahead(Before(una), k)
        BY KeepAlivePlace
    <2>3. ~IsSeqLarger(Ahead(nxt, Mod - 1), last_seq)
        BY <2>1, <2>2, OldSeqs
    <2> QED BY <2>1, <2>3
<1>2. ASSUME NEW l \in 1 .. Window, NEW from \in 0 .. Window, Retransmit(from, l, late)
      PROVE  \E seq, m : Packet(seq, m, 0, late) /\ ~IsSeqLarger(seq, last_seq)
    <2>1. /\ Packet(Ahead(una, from + l - 1), l, 0, late) /\ conn = "open"
          /\ from + l <= Distance(nxt, una)
        BY <1>2 DEF Retransmit, Packet
    <2>2. PICK k \in 0 .. Distance(nxt, una) : Ahead(una, from + l - 1) = Ahead(Before(una), k)
        BY <2>1, RetransmitPlace
    <2>3. ~IsSeqLarger(Ahead(una, from + l - 1), last_seq)
        BY <2>1, <2>2, OldSeqs
    <2> QED BY <2>1, <2>3
<1> QED BY <1>1, <1>2

\* A new segment of a regular sender is counted.
LEMMA NewPacket ==
    ASSUME FlowInv, LastSeqTracked, Own, Regular, NEW late \in BOOLEAN,
           NEW l \in 1 .. Window, SendNew(l, late)
    PROVE  /\ CountNew(Ahead(nxt, l - 1), l) /\ IsSeqLarger(Ahead(nxt, l - 1), last_seq)
           /\ last_seq' = Before(nxt') /\ pend' = bytes_sent' /\ conn = "open"
           /\ fresh' = (fresh + l) % Mod
<1>1. l > 1 /\ conn = "open" /\ tracked /\ Distance(nxt, una) + l <= Window
    BY DEF SendNew, Packet, Own, Regular
<1>2. l \in 2 .. Window
    BY <1>1
<1>3. IsSeqLarger(Ahead(nxt, l - 1), last_seq) /\ Ahead(nxt, l - 1) = Before(Ahead(nxt, l))
    BY <1>1, <1>2, NewSeqs
<1>4. CountNew(Ahead(nxt, l - 1), l)
    BY <1>1, <1>3 DEF SendNew, Packet, CountTimeout, CountNothing
<1>5. fresh' = (fresh + l) % Mod /\ pend' = bytes_sent'
    BY <1>1, <1>3 DEF SendNew, Packet
<1> QED BY <1>1, <1>3, <1>4, <1>5 DEF SendNew, CountNew

-----------------------------------------------------------------------------
(* The steps.                                                               *)

AnyPacket(late) ==
    \/ PureAck(late) \/ KeepAlive(late)
    \/ \E l \in 1 .. Window : \/ SendNew(l, late)
                              \/ \E from \in 0 .. Window : Retransmit(from, l, late)

\* What every packet leaves alone.
LEMMA PacketFrame ==
    ASSUME NEW late \in BOOLEAN, AnyPacket(late)
    PROVE  /\ conn = "open" /\ pend = None
           /\ UNCHANGED <<conn, una, tracked, inherited, last_ack>>
           /\ pend' # pend => tracked /\ pend' = bytes_sent'
           /\ ~tracked => UNCHANGED <<bytes_sent, last_timeout_seq>>
BY DEF AnyPacket, PureAck, KeepAlive, SendNew, Retransmit, Packet, timeoutVars

\* The steps that concern neither the sequence numbers nor the connection.
Aside ==
    \/ Mark \/ UNCHANGED vars
    \/ \E idle, drained \in BOOLEAN : SendMessage(idle, drained)

\* The kinds of steps.
LEMMA StepKinds ==
    ASSUME [Next]_vars
    PROVE  \/ \E isn \in Seqs : Syn(isn)
           \/ SynAgain \/ FinOrRst \/ Clear \/ PeerReset \/ Aside
           \/ \E late \in BOOLEAN : AnyPacket(late)
           \/ \E n \in 1 .. Window : Ack(n)
           \/ \E n \in 0 .. Window : LateAck(n)
BY DEF Next, AnyPacket, Aside

\* An entry becomes the connection's own only when its SYN inserts it.
LEMMA OwnEntry ==
    ASSUME SynInv, [Next]_vars, Own', ~Own
    PROVE  /\ conn' = "syn" /\ nxt' = Ahead(una', 1) /\ last_seq' = una' /\ last_ack' = 0
           /\ bytes_sent' = 0 /\ fresh' = 0
<1> USE DEF Own
<1>1. ASSUME NEW isn \in Seqs, Syn(isn)
      PROVE  /\ conn' = "syn" /\ nxt' = Ahead(una', 1) /\ last_seq' = una' /\ last_ack' = 0
             /\ bytes_sent' = 0 /\ fresh' = 0
    BY <1>1 DEF Syn, InsertOnSyn, ResetEntry, entryVars, historyVars
<1>2. CASE SynAgain
    BY <1>2 DEF SynAgain, SynInv, InsertOnSyn, ResetEntry, entryVars, historyVars, connVars
<1>3. CASE FinOrRst \/ Clear
    BY <1>3 DEF FinOrRst, Clear, DeleteEntry
<1>4. CASE PeerReset
    BY <1>4 DEF PeerReset, entryVars, historyVars
<1>5. ASSUME NEW late \in BOOLEAN, AnyPacket(late)
      PROVE  FALSE
    BY <1>5, PacketFrame
<1>6. ASSUME NEW n, Ack(n) \/ LateAck(n)
      PROVE  FALSE
    BY <1>6 DEF Ack, LateAck, HookIn, historyVars
<1>7. CASE Aside
    <2>1. UNCHANGED <<tracked, inherited>>
        BY <1>7 DEF Aside, Mark, SendMessage, vars, entryVars, historyVars
    <2> QED BY <2>1
<1> QED
    BY <1>1, <1>2, <1>3, <1>4, <1>5, <1>6, <1>7, StepKinds

\* What an acknowledgement that is not overtaken, and one that is, does.
LEMMA AckTaken ==
    ASSUME EntryInv, Own, NEW n \in 1 .. Window, Ack(n)
    PROVE  last_ack' = una'
<1>1. /\ una \in Seqs /\ nxt \in Seqs /\ n \in Seqs /\ conn \in {"syn", "open"}
      /\ n <= Distance(nxt, una) /\ una' = Ahead(una, n)
      /\ last_ack' = IF IsSeqLarger(una', last_ack) THEN una' ELSE last_ack
    BY WindowFits DEF EntryInv, FlowInv, TypeOK, Own, Ack, HookIn
<1>2. CASE conn = "open"
    <2>1. last_ack = Ahead(una, 0)
        BY <1>1, <1>2, AheadCases, WindowFits DEF EntryInv, LastAckTracked, Seqs
    <2>2. IsSeqLarger(Ahead(una, n), Ahead(una, 0))
        BY <1>1, StretchOrdered, WindowFits
    <2> QED BY <1>1, <2>1, <2>2
<1>3. CASE conn = "syn"
    <2>1. nxt = Ahead(una, 1) /\ una < Near /\ last_ack = 0
        BY <1>3 DEF EntryInv, SynInv
    <2>2. Distance(una, una) = 0
        BY <1>1, DistanceCases DEF Seqs
    <2>3. Distance(nxt, una) = 1
        BY <1>1, <2>1, <2>2, DistanceGrows, NetworkAssumption, FlowAssumption DEF Seqs
    <2>4. n = 1 /\ una' = una + 1
        BY <1>1, <2>1, <2>3, AheadCases, NetworkAssumption DEF Seqs
    <2>5. IsSeqLarger(una', 0)
        BY <1>1, <2>1, <2>4, NetworkAssumption DEF IsSeqLarger, Seqs
    <2> QED BY <1>1, <2>1, <2>5
<1> QED BY <1>1, <1>2, <1>3

\* Going back by at most a window and on again leads to where one was.
LEMMA BackAndForth ==
    ASSUME NEW u \in Seqs, NEW n \in 0 .. Window
    PROVE  Ahead(u, Mod - n) \in Seqs /\ Ahead(Ahead(u, Mod - n), n) = u
<1> DEFINE a == u + (Mod - n)
           v == IF u < n THEN a ELSE u - n
<1>1. a \in 0 .. 2 * Mod - 1 /\ (a < Mod <=> u < n) /\ v \in Seqs /\ n \in Seqs
      /\ (u >= n => a - Mod = u - n)
    BY NetworkAssumption, FlowAssumption DEF Seqs
<1>2. a % Mod = v
    <2> HIDE DEF a
    <2>1. CASE u < n
        BY <1>1, <2>1, NetworkAssumption
    <2>2. CASE ~(u < n)
        <3>1. a \in Mod .. 2 * Mod - 1
            BY <1>1, <2>2, NetworkAssumption DEF Seqs
        <3>2. a % Mod = a - Mod
            BY <3>1, NetworkAssumption
        <3> QED BY <1>1, <2>2, <3>2 DEF Seqs
    <2> QED BY <2>1, <2>2
<1>3. Ahead(u, Mod - n) = v
    BY <1>2 DEF Ahead
<1>4. v = IF u < n THEN u + (Mod - n) ELSE u - n
    OBVIOUS
<1> HIDE DEF v
<1>5. Ahead(v, n) = IF v + n < Mod THEN v + n ELSE v + n - Mod
    BY <1>1, AheadCases
<1>6. Ahead(v, n) = u
    BY <1>1, <1>4, <1>5, NetworkAssumption, FlowAssumption DEF Seqs
<1> QED BY <1>1, <1>3, <1>6

LEMMA LateAckIgnored ==
    ASSUME EntryInv, Own, NEW n \in 0 .. Window, LateAck(n)
    PROVE  last_ack' = last_ack
<1>1. /\ una \in Seqs /\ last_ack = una /\ tracked
      /\ last_ack' = IF IsSeqLarger(Ahead(una, Mod - n), last_ack)
                         THEN Ahead(una, Mod - n) ELSE last_ack
    BY DEF EntryInv, FlowInv, TypeOK, Own, LastAckTracked, LateAck, HookIn
<1> DEFINE s == Ahead(una, Mod - n)
<1>2. s \in Seqs /\ Ahead(s, n) = una
    BY <1>1, BackAndForth
<1> HIDE DEF s
<1>3. Ahead(s, 0) = s
    BY <1>2, AheadCases, WindowFits DEF Seqs
<1>4. ~IsSeqLarger(Ahead(s, 0), Ahead(s, n))
    BY <1>2, StretchOrdered, WindowFits
<1> QED BY <1>1, <1>2, <1>3, <1>4 DEF s

\* What a step does to the entry of the connection that stays its own.
LEMMA SeqStep ==
    ASSUME EntryInv, Regular, [Next]_vars
    PROVE  LastSeqTracked'
<1> SUFFICES ASSUME Own', conn' # "closed"
             PROVE  last_seq' = Before(nxt') \/ last_seq' = nxt'
    BY DEF LastSeqTracked, Before
<1>1. CASE ~Own
    <2>1. nxt' = Ahead(una', 1) /\ last_seq' = una' /\ una' \in Seqs
        BY <1>1, OwnEntry, TypeStep DEF EntryInv, FlowInv, TypeOK
    <2> QED BY <2>1, AheadBefore
<1>2. CASE Own
    <2> USE DEF EntryInv
    <2>0. conn # "closed" => last_seq = Before(nxt) \/ last_seq = nxt
        BY <1>2 DEF LastSeqTracked, Before
    <2>1. ASSUME NEW isn \in Seqs, Syn(isn)
          PROVE  FALSE
        BY <1>2, <2>1 DEF Syn, InsertOnSyn, Own
    <2>2. CASE SynAgain
        BY <1>2, <2>0, <2>2 DEF SynAgain, InsertOnSyn, connVars, Own
    <2>3. CASE FinOrRst \/ Clear \/ PeerReset
        BY <2>3 DEF FinOrRst, Clear, PeerReset, DeleteEntry, Own
    <2>4. CASE Aside
        BY <2>0, <2>4 DEF Aside, Mark, SendMessage, vars, connVars, entryVars
    <2>5. ASSUME NEW late \in BOOLEAN, PureAck(late)
          PROVE  last_seq' = Before(nxt') \/ last_seq' = nxt'
        BY <1>2, <2>0, <2>5 DEF PureAck, Packet, CountNew, CountTimeout, CountNothing, Own
    <2>6. ASSUME NEW late \in BOOLEAN,
                 \/ KeepAlive(late)
                 \/ \E l \in 1 .. Window, from \in 0 .. Window : Retransmit(from, l, late)
          PROVE  last_seq' = Before(nxt') \/ last_seq' = nxt'
        <3>1. PICK seq, l : Packet(seq, l, 0, late) /\ ~IsSeqLarger(seq, last_seq)
            BY <1>2, <2>6, OldPacket
        <3>2. last_seq' = last_seq /\ conn = "open"
            BY <1>2, <3>1 DEF Packet, CountNew, CountTimeout, CountNothing, Own
        <3>3. nxt' = nxt
            BY <2>6 DEF KeepAlive, Retransmit
        <3> QED BY <2>0, <3>2, <3>3
    <2>7. ASSUME NEW late \in BOOLEAN, NEW l \in 1 .. Window, SendNew(l, late)
          PROVE  last_seq' = Before(nxt')
        BY <1>2, <2>7, NewPacket
    <2>8. ASSUME NEW n, Ack(n) \/ LateAck(n)
          PROVE  last_seq' = Before(nxt') \/ last_seq' = nxt'
        BY <2>0, <2>8 DEF Ack, LateAck, HookIn, connVars
    <2> QED
        BY <2>1, <2>2, <2>3, <2>4, <2>5, <2>6, <2>7, <2>8, StepKinds DEF AnyPacket
<1> QED BY <1>1, <1>2

LEMMA AckStep ==
    ASSUME EntryInv, Regular, [Next]_vars
    PROVE  LastAckTracked' /\ SynInv'
<1>1. CASE ~Own /\ Own'
    <2>1. conn' = "syn" /\ nxt' = Ahead(una', 1) /\ last_ack' = 0
        BY <1>1, OwnEntry DEF EntryInv
    <2>2. una' < Near
        <3>1. ASSUME NEW isn \in Seqs, Syn(isn)
              PROVE  una' < Near
            BY <3>1 DEF Syn, Regular
        <3>2. ASSUME conn = conn', una = una'
              PROVE  una' < Near
            BY <2>1, <3>2 DEF EntryInv, SynInv
        <3>3. CASE SynAgain \/ Clear
            BY <3>2, <3>3 DEF SynAgain, Clear, connVars
        <3>4. CASE FinOrRst \/ PeerReset
            BY <2>1, <3>4 DEF FinOrRst, PeerReset
        <3>5. CASE Aside
            BY <3>2, <3>5 DEF Aside, Mark, SendMessage, vars, connVars
        <3>6. ASSUME NEW late \in BOOLEAN, AnyPacket(late)
              PROVE  una' < Near
            BY <3>2, <3>6, PacketFrame
        <3>7. ASSUME NEW n, Ack(n) \/ LateAck(n)
              PROVE  FALSE
            BY <2>1, <3>7 DEF Ack, LateAck, connVars
        <3> QED BY <3>1, <3>3, <3>4, <3>5, <3>6, <3>7, StepKinds
    <2> QED BY <2>1, <2>2 DEF LastAckTracked, SynInv
<1>2. CASE Own \/ ~Own'
    <2> USE DEF EntryInv
    <2>1. ASSUME NEW isn \in Seqs, Syn(isn)
          PROVE  /\ conn' = "syn" /\ nxt' = Ahead(una', 1) /\ una' < Near /\ ~Own'
        BY <1>2, <2>1 DEF Syn, InsertOnSyn, Own, Regular
    <2>2. ASSUME UNCHANGED <<conn, una, nxt>>, Own' => last_ack' = last_ack
          PROVE  LastAckTracked' /\ SynInv'
        BY <1>2, <2>2 DEF LastAckTracked, SynInv
    <2>3. CASE SynAgain
        BY <1>2, <2>2, <2>3 DEF SynAgain, InsertOnSyn, connVars, Own
    <2>4. CASE Clear
        BY <2>2, <2>4 DEF Clear, DeleteEntry, connVars, Own
    <2>5. CASE FinOrRst \/ PeerReset
        BY <2>5 DEF FinOrRst, PeerReset, LastAckTracked, SynInv
    <2>6. CASE Aside
        BY <2>2, <2>6 DEF Aside, Mark, SendMessage, vars, connVars, entryVars
    <2>7. ASSUME NEW late \in BOOLEAN, AnyPacket(late)
          PROVE  LastAckTracked' /\ SynInv'
        <3>1. conn = "open" /\ UNCHANGED <<conn, una, tracked, inherited, last_ack>>
            BY <2>7, PacketFrame
        <3> QED BY <3>1 DEF LastAckTracked, SynInv, Own
    <2>8. ASSUME NEW n \in 1 .. Window, Ack(n)
          PROVE  LastAckTracked' /\ SynInv'
        <3>1. conn' = "open" /\ (Own' => Own)
            BY <1>2, <2>8 DEF Ack
        <3>2. Own => last_ack' = una'
            BY <2>8, AckTaken
        <3> QED BY <3>1, <3>2 DEF LastAckTracked, SynInv
    <2>9. ASSUME NEW n \in 0 .. Window, LateAck(n)
          PROVE  LastAckTracked' /\ SynInv'
        <3>1. UNCHANGED <<conn, una, nxt>> /\ (Own' => Own)
            BY <1>2, <2>9 DEF LateAck, connVars
        <3>2. Own => last_ack' = last_ack
            BY <2>9, LateAckIgnored
        <3> QED BY <2>2, <3>1, <3>2
    <2>10. CASE \E isn \in Seqs : Syn(isn)
        BY <2>1, <2>10 DEF LastAckTracked, SynInv
    <2> QED
        BY <2>3, <2>4, <2>5, <2>6, <2>7, <2>8, <2>9, <2>10, StepKinds
<1> QED BY <1>1, <1>2

\* A packet that brings nothing new leaves the counts equal, whether it is
\* ignored, found to be a timeout, or has the entry aged.
LEMMA OldCounts ==
    ASSUME EntryInv, Own, NEW late \in BOOLEAN, NEW seq, NEW l,
           Packet(seq, l, 0, late), IsSeqLarger(seq, last_seq) => l = 0
    PROVE  bytes_sent' = fresh'
<1>1. /\ bytes_sent = fresh /\ tracked
      /\ (bytes_sent + 0) % Mod = bytes_sent /\ (fresh + 0) % Mod = fresh
    <2>1. fresh \in Seqs /\ bytes_sent \in Seqs
        BY DEF EntryInv, FlowInv, TypeOK
    <2>2. Ahead(fresh, 0) = fresh /\ Ahead(bytes_sent, 0) = bytes_sent
        BY <2>1, AheadCases, WindowFits DEF Seqs
    <2> QED BY <2>2 DEF EntryInv, BytesExact, Own, Ahead
<1>2. \/ CountNew(seq, l) \/ CountTimeout(seq, late) \/ CountNothing(seq, late)
    BY <1>1 DEF Packet
<1>3. fresh' = IF ~IsSeqLarger(seq, last_seq) /\ bytes_sent' # bytes_sent
                   THEN 0 ELSE fresh
    BY <1>1 DEF Packet
<1>4. CASE CountNew(seq, l)
    BY <1>1, <1>3, <1>4 DEF CountNew
<1>5. CASE CountTimeout(seq, late)
    <2>1. bytes_sent' \in {0, bytes_sent} /\ ~IsSeqLarger(seq, last_seq)
        BY <1>5 DEF CountTimeout
    <2> QED BY <1>1, <1>3, <2>1
<1>6. CASE CountNothing(seq, late)
    BY <1>1, <1>3, <1>6 DEF CountNothing
<1> QED BY <1>2, <1>4, <1>5, <1>6

LEMMA BytesStep ==
    ASSUME EntryInv, Regular, [Next]_vars
    PROVE  BytesExact'
<1> SUFFICES ASSUME Own'
             PROVE  bytes_sent' = fresh'
    BY DEF BytesExact
<1>1. CASE ~Own
    BY <1>1, OwnEntry DEF EntryInv
<1>2. CASE Own
    <2>0. bytes_sent = fresh
        BY <1>2 DEF EntryInv, BytesExact
    <2>1. ASSUME NEW isn \in Seqs, Syn(isn)
          PROVE  FALSE
        BY <1>2, <2>1 DEF Syn, InsertOnSyn, Own
    <2>2. CASE SynAgain
        BY <1>2, <2>0, <2>2 DEF SynAgain, InsertOnSyn, Own
    <2>3. CASE FinOrRst \/ Clear
        BY <2>3 DEF FinOrRst, Clear, DeleteEntry, ResetEntry
    <2>4. CASE PeerReset
        BY <2>0, <2>4 DEF PeerReset, entryVars, historyVars
    <2>5. CASE Aside
        BY <2>0, <2>5 DEF Aside, Mark, SendMessage, vars, entryVars, historyVars
    <2>6. ASSUME NEW late \in BOOLEAN, PureAck(late)
          PROVE  bytes_sent' = fresh'
        <3>1. Packet(nxt, 0, 0, late)
            BY <2>6 DEF PureAck
        <3> QED BY <1>2, <3>1, OldCounts
    <2>7. ASSUME NEW late \in BOOLEAN,
                 \/ KeepAlive(late)
                 \/ \E l \in 1 .. Window, from \in 0 .. Window : Retransmit(from, l, late)
          PROVE  bytes_sent' = fresh'
        <3>1. PICK seq, l : Packet(seq, l, 0, late) /\ ~IsSeqLarger(seq, last_seq)
            BY <1>2, <2>7, OldPacket DEF EntryInv
        <3> QED BY <1>2, <3>1, OldCounts
    <2>8. ASSUME NEW late \in BOOLEAN, NEW l \in 1 .. Window, SendNew(l, late)
          PROVE  bytes_sent' = fresh'
        <3>1. CountNew(Ahead(nxt, l - 1), l) /\ fresh' = (fresh + l) % Mod
            BY <1>2, <2>8, NewPacket DEF EntryInv
        <3> QED BY <2>0, <3>1 DEF CountNew
    <2>9. ASSUME NEW n, Ack(n) \/ LateAck(n)
          PROVE  bytes_sent' = fresh'
        BY <2>0, <2>9 DEF Ack, LateAck, HookIn, historyVars
    <2> QED
        BY <2>1, <2>2, <2>3, <2>4, <2>5, <2>6, <2>7, <2>8, <2>9, StepKinds DEF AnyPacket
<1> QED BY <1>1, <1>2

LEMMA PendStep ==
    ASSUME EntryInv, [Next]_vars
    PROVE  PendInv'
<1> SUFFICES ASSUME pend' # None
             PROVE  bytes_sent' <= pend'
    BY DEF PendInv
<1>0. /\ bytes_sent' \in Seqs /\ bytes_sent \in Seqs /\ pend' \in Seqs
      /\ pend \in Seqs \cup {None} /\ (pend # None => bytes_sent <= pend)
    BY TypeStep DEF EntryInv, FlowInv, TypeOK, PendInv
<1>1. ASSUME UNCHANGED pend, bytes_sent' \in {0, bytes_sent}
      PROVE  bytes_sent' <= pend'
    BY <1>0, <1>1, WindowFits DEF Seqs
<1>2. CASE (\E isn \in Seqs : Syn(isn)) \/ SynAgain
    BY <1>2 DEF Syn, SynAgain, InsertOnSyn
<1>3. CASE FinOrRst \/ Clear
    BY <1>1, <1>3 DEF FinOrRst, Clear, DeleteEntry, ResetEntry, markVars
<1>4. CASE PeerReset
    BY <1>1, <1>4 DEF PeerReset, entryVars, markVars
<1>5. CASE Aside
    BY <1>1, <1>5 DEF Aside, Mark, SendMessage, vars, entryVars, markVars
<1>6. ASSUME NEW late \in BOOLEAN, AnyPacket(late)
      PROVE  bytes_sent' <= pend'
    BY <1>0, <1>6, PacketFrame DEF Seqs
<1>7. ASSUME NEW n, Ack(n) \/ LateAck(n)
      PROVE  bytes_sent' <= pend'
    BY <1>1, <1>7 DEF Ack, LateAck, HookIn, markVars
<1> QED
    BY <1>2, <1>3, <1>4, <1>5, <1>6, <1>7, StepKinds

-----------------------------------------------------------------------------
(* The theorems about the entry.                                            *)

LEMMA EntryInvariant ==
    ASSUME Regular
    PROVE  Spec => []EntryInv
<1>1. Init => SynInv /\ LastSeqTracked /\ LastAckTracked /\ BytesExact /\ PendInv
    BY DEF Init, SynInv, LastSeqTracked, LastAckTracked, BytesExact, PendInv, Own
<1>2. ASSUME EntryInv, [Next]_vars, FlowInv'
      PROVE  EntryInv'
    BY <1>2, SeqStep, AckStep, BytesStep, PendStep DEF EntryInv
<1>3. Spec => []FlowInv
    BY FlowInvariant
<1>4. FlowInv /\ SynInv /\ LastSeqTracked /\ LastAckTracked /\ BytesExact /\ PendInv
          => EntryInv
    BY DEF EntryInv
<1> QED BY <1>1, <1>2, <1>3, <1>4, PTL DEF Spec

\* netfilter.c:102-107: last_seq is the last number the connection has sent, or
\* the one before it while no pure acknowledgement followed: retransmissions,
\* keep-alives and the wrap of the sequence space do not move it.
THEOREM LastSeqRight ==
    ASSUME Regular
    PROVE  Spec => []LastSeqTracked
<1>1. EntryInv => LastSeqTracked
    BY DEF EntryInv
<1> QED BY <1>1, EntryInvariant, PTL

\* netfilter.c:200: last_ack is the largest acknowledgement received, although
\* overtaken ones arrive later.
THEOREM LastAckRight ==
    ASSUME Regular
    PROVE  Spec => []LastAckTracked
<1>1. EntryInv => LastAckTracked
    BY DEF EntryInv
<1> QED BY <1>1, EntryInvariant, PTL

\* netfilter.c:107, 123 and jprobe.c:50: bytes_sent counts every new byte once
\* since it was last reset, by the aging or by a message after an idle time.
THEOREM BytesCounted ==
    ASSUME Regular
    PROVE  Spec => []BytesExact
<1>1. EntryInv => BytesExact
    BY DEF EntryInv
<1> QED BY <1>1, EntryInvariant, PTL

\* netfilter.c:110: a timeout is found only while the connection has data that
\* is not acknowledged.
THEOREM TimeoutsReal ==
    ASSUME Regular
    PROVE  Spec => TimeoutMeansOutstanding
<1>1. ASSUME EntryInv, [Next]_vars
      PROVE  [last_timeout_seq' # last_timeout_seq /\ Own /\ tracked' => una # nxt]_vars
    <2> SUFFICES ASSUME last_timeout_seq' # last_timeout_seq, Own, tracked', una = nxt
                 PROVE  FALSE
        OBVIOUS
    <2>1. CASE (\E isn \in Seqs : Syn(isn)) \/ SynAgain
        BY <2>1 DEF Syn, SynAgain, InsertOnSyn, Own, timeoutVars
    <2>2. CASE FinOrRst \/ Clear \/ PeerReset
        BY <2>2 DEF FinOrRst, Clear, DeleteEntry, PeerReset, entryVars, timeoutVars
    <2>3. CASE Aside
        BY <2>3 DEF Aside, Mark, SendMessage, vars, entryVars, timeoutVars
    <2>4. ASSUME NEW late \in BOOLEAN, AnyPacket(late)
          PROVE  FALSE
        <3>1. conn = "open" /\ IsSeqLarger(last_seq, last_ack)
            <4>1. \E seq, l, new : Packet(seq, l, new, late)
                BY <2>4 DEF AnyPacket, PureAck, KeepAlive, SendNew, Retransmit
            <4> QED BY <4>1 DEF Packet, CountNew, CountTimeout, CountNothing, timeoutVars
        <3>2. last_ack = una /\ una \in Seqs /\ (last_seq = Before(una) \/ last_seq = una)
            BY <1>1, <3>1 DEF EntryInv, FlowInv, TypeOK, LastAckTracked, LastSeqTracked, Before
        <3>3. Before(una) \in Seqs /\ Ahead(Before(una), 1) = una
            BY <3>2, BeforeAhead
        <3>4. Ahead(Before(una), 0) = Before(una)
            BY <3>3, AheadCases, WindowFits DEF Seqs
        <3>5. 0 \in 0 .. Window + 1 /\ 1 \in 0 .. Window + 1
            BY WindowFits
        <3>6. ~IsSeqLarger(Before(una), una) /\ ~IsSeqLarger(una, una)
            <4> DEFINE b == Before(una)
            <4> HIDE DEF b
            <4>1. ~IsSeqLarger(Ahead(b, 0), Ahead(b, 1)) /\ ~IsSeqLarger(Ahead(b, 1), Ahead(b, 1))
                BY <3>3, <3>5, StretchOrdered DEF b
            <4> QED BY <3>3, <3>4, <4>1 DEF b
        <3> QED BY <3>1, <3>2, <3>6
    <2>5. ASSUME NEW n, Ack(n) \/ LateAck(n)
          PROVE  FALSE
        BY <2>5 DEF Ack, LateAck, HookIn, timeoutVars
    <2> QED
        BY <1>1, <2>1, <2>2, <2>3, <2>4, <2>5, StepKinds
<1> QED BY <1>1, EntryInvariant, PTL DEF Spec, TimeoutMeansOutstanding

\* netfilter.c:134-136: idle resets, clears and acknowledgements that come between
\* the release of the lock and the unlocked read of bytes_sent never lower the
\* priority of the packet.
THEOREM MarkRaisesOnly ==
    ASSUME Regular
    PROVE  Spec => MarkNeverLower
<1>1. ASSUME EntryInv, [Next]_vars
      PROVE  [pend # None /\ pend' = None /\ tracked => mark' <= Priority(pend)]_vars
    <2> SUFFICES ASSUME pend # None, pend' = None, tracked
                 PROVE  mark' <= Priority(pend)
        OBVIOUS
    <2>1. Mark
        <3>1. ~(\E isn \in Seqs : Syn(isn)) /\ ~SynAgain /\ ~FinOrRst /\ ~PeerReset
            BY DEF Syn, SynAgain, FinOrRst, PeerReset
        <3>2. \A late \in BOOLEAN : ~AnyPacket(late)
            BY PacketFrame
        <3>3. ~Clear /\ \A n : ~Ack(n) /\ ~LateAck(n)
            BY DEF Clear, Ack, LateAck, HookIn, markVars
        <3> QED
            BY <1>1, <3>1, <3>2, <3>3, StepKinds DEF Aside, SendMessage, vars, markVars
    <2>2. bytes_sent \in Seqs /\ pend \in Seqs /\ bytes_sent <= pend
        BY <1>1 DEF EntryInv, FlowInv, TypeOK, PendInv
    <2>3. Priority(bytes_sent) <= Priority(pend)
        BY <2>2, PriorityMonotone DEF PriorityFalls
    <2> QED BY <2>1, <2>3 DEF Mark
<1> QED BY <1>1, EntryInvariant, PTL DEF Spec, MarkNeverLower
=============================================================================
