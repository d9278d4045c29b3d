------------------------------ MODULE PiasFlow ------------------------------
(***************************************************************************)
(* One TCP connection of a host seen by the PIAS kernel module: the        *)
(* outgoing and incoming Netfilter hooks (PIAS/netfilter.c) and the        *)
(* tcp_sendmsg probe (PIAS/jprobe.c), which keep the flow's entry in the   *)
(* table and mark its packets with a priority.                             *)
(*                                                                         *)
(* The connection itself is the environment: a sender with at most Window  *)
(* unacknowledged bytes, which sends, retransmits and is acknowledged.     *)
(* Times are seen only through the two comparisons the code makes, whether *)
(* a gap reaches PIAS_RTO_MIN and whether it exceeds PIAS_IDLE_TIME; both  *)
(* outcomes are always possible.  Byte counts and sequence numbers are u32 *)
(* in the code and wrap at Mod here.                                       *)
(*                                                                         *)
(* The connection ends at a socket of this host, whose lock keeps its      *)
(* outgoing packets apart, and from a reset by its peer: none of these     *)
(* comes while a packet waits for its mark (pend).  What needs no lock of  *)
(* the socket does come then: the hook for incoming packets, the probe,    *)
(* which precedes the lock, and the operator's clear.  Packets that the    *)
(* host only forwards have no such lock, and are not modelled.             *)
(***************************************************************************)
EXTENDS PiasNetwork

CONSTANTS Window,        \* unacknowledged bytes of the sender
          TimeoutThresh, \* PIAS_TIMEOUT_THRESH
          MaxGap,        \* PIAS_TIMEOUT_SEQ_GAP
          Aging,         \* PIAS_ENABLE_AGING
          Extras         \* further behaviours of the connection, see below

ASSUME FlowAssumption ==
    /\ Window \in Nat \ {0} /\ Window < Mod - Near - 1 /\ Window < Near
    /\ TimeoutThresh \in Nat \ {0} /\ MaxGap \in Nat
    /\ Aging \in BOOLEAN
    /\ Extras \subseteq {"oneByte", "highIsn", "peerReset"}

None == -1  \* no packet waits for its mark

VARIABLES conn,     \* the connection: "closed", "syn" or "open"
          nxt,      \* snd_nxt: the next sequence number to send
          una,      \* the oldest unacknowledged sequence number
          span,     \* acknowledged bytes of this connection, up to Window
          tracked,  \* is there an entry for the 4-tuple in the table?
          last_seq, last_ack, bytes_sent, timeouts, last_timeout_seq,
          copied,   \* is last_copy_time set?
          pend,     \* bytes_sent when the spin lock of the entry was released
          mark,     \* the priority of the last marked packet
          fresh,    \* history: new bytes sent since the count was last reset
          inherited, \* history: does the entry stem from an earlier connection?
          run       \* history: timeouts in a row that are at most MaxGap apart

connVars == <<conn, nxt, una, span>>
timeoutVars == <<timeouts, last_timeout_seq, run>>
historyVars == <<fresh, inherited>>
entryVars == <<tracked, last_seq, last_ack, bytes_sent, copied, historyVars, timeoutVars>>
markVars == <<pend, mark>>
vars == <<connVars, entryVars, markVars>>

Prios == 0 .. PrioNum - 1

TypeOK ==
    /\ conn \in {"closed", "syn", "open"}
    /\ nxt \in Seqs /\ una \in Seqs /\ span \in 0 .. Window
    /\ tracked \in BOOLEAN /\ copied \in BOOLEAN /\ inherited \in BOOLEAN
    /\ last_seq \in Seqs /\ last_ack \in Seqs /\ last_timeout_seq \in Seqs
    /\ bytes_sent \in Seqs /\ fresh \in Seqs
    /\ timeouts \in 0 .. TimeoutThresh /\ run \in 0 .. TimeoutThresh
    /\ pend \in Seqs \cup {None} /\ mark \in Prios

\* PIAS_Init_Info; an absent entry is represented by the same values.
ResetEntry ==
    /\ last_ack' = 0 /\ bytes_sent' = 0 /\ copied' = FALSE /\ fresh' = 0 /\ inherited' = FALSE
    /\ timeouts' = 0 /\ last_timeout_seq' = 0 /\ run' = 0

Init ==
    /\ conn = "closed" /\ nxt = 0 /\ una = 0 /\ span = 0
    /\ tracked = FALSE /\ last_seq = 0 /\ last_ack = 0 /\ bytes_sent = 0
    /\ copied = FALSE /\ fresh = 0 /\ inherited = FALSE
    /\ timeouts = 0 /\ last_timeout_seq = 0 /\ run = 0
    /\ pend = None /\ mark = 0

-----------------------------------------------------------------------------
(* The hook for outgoing packets.                                          *)

\* A SYN inserts an entry, unless an equal one exists or kmalloc fails.  The
\* equal one is that of this connection, if it is the SYN that is sent again, or
\* what an earlier connection of the same 4-tuple has left behind.
InsertOnSyn(isn) ==
    /\ \/ /\ tracked
          /\ inherited' = (inherited \/ conn = "closed")
          /\ UNCHANGED <<tracked, last_seq, last_ack, bytes_sent, copied, fresh, timeoutVars>>
       \/ ~tracked /\ UNCHANGED entryVars
       \/ ~tracked /\ tracked' = TRUE /\ last_seq' = isn /\ ResetEntry
    /\ mark' = Priority(0) /\ pend' = None

Syn(isn) ==
    /\ conn = "closed" /\ pend = None
    /\ isn < Near \/ "highIsn" \in Extras
    /\ conn' = "syn" /\ nxt' = Ahead(isn, 1) /\ una' = isn /\ span' = 0
    /\ InsertOnSyn(isn)

SynAgain ==
    /\ conn = "syn" /\ pend = None
    /\ InsertOnSyn(una)
    /\ UNCHANGED connVars

\* PIAS_Delete_Table, and the Clear operation on the whole table.
DeleteEntry ==
    /\ tracked' = FALSE /\ last_seq' = 0
    /\ ResetEntry

\* FIN or RST: the mark is that of the bytes the deleted entry had, at least 1.
FinOrRst ==
    /\ conn # "closed" /\ pend = None
    /\ conn' = "closed" /\ UNCHANGED <<nxt, una, span>>
    /\ DeleteEntry
    /\ mark' = Priority(IF ~tracked THEN 0 ELSE IF bytes_sent = 0 THEN 1 ELSE bytes_sent)
    /\ UNCHANGED pend

\* The largest sequence number grew: new payload.
CountNew(seq, len) ==
    /\ IsSeqLarger(seq, last_seq)
    /\ last_seq' = seq
    /\ bytes_sent' = (bytes_sent + len) % Mod
    /\ UNCHANGED timeoutVars

\* last_timeout_seq is assigned before it is compared with seq.
Consecutive(seq) ==
    TimeoutThresh = 1 \/ SeqGap(seq, seq) <= MaxGap

Close(s1, s2) == Distance(s1, s2) <= MaxGap \/ Distance(s2, s1) <= MaxGap

CountedNoReset(n) == n  \* faulty variant: the count does not start again

\* What the count of timeouts in a row becomes, back to 0 at the threshold.
Counted(n) == IF n >= TimeoutThresh THEN 0 ELSE n

CountTimeoutAlways(seq, late) ==  \* faulty variant: acknowledged data counts
    /\ ~IsSeqLarger(seq, last_seq) /\ late
    /\ last_timeout_seq' = seq
    /\ timeouts' = IF Consecutive(seq) THEN Counted(timeouts + 1) ELSE 1
    /\ bytes_sent' = IF Consecutive(seq) /\ timeouts' = 0 /\ Aging THEN 0 ELSE bytes_sent
    /\ run' = Counted(IF run > 0 /\ Close(seq, last_timeout_seq) THEN run + 1 ELSE 1)
    /\ UNCHANGED last_seq

\* No progress for PIAS_RTO_MIN while data is unacknowledged: a timeout.
CountTimeout(seq, late) ==
    /\ ~IsSeqLarger(seq, last_seq) /\ late /\ IsSeqLarger(last_seq, last_ack)
    /\ last_timeout_seq' = seq
    /\ timeouts' = IF Consecutive(seq) THEN Counted(timeouts + 1) ELSE 1
    /\ bytes_sent' = IF Consecutive(seq) /\ timeouts' = 0 /\ Aging THEN 0 ELSE bytes_sent
    /\ run' = Counted(IF run > 0 /\ Close(seq, last_timeout_seq) THEN run + 1 ELSE 1)
    /\ UNCHANGED last_seq

CountNothingTakesSeq(seq, late) ==  \* faulty variant: last_seq follows any packet
    /\ ~IsSeqLarger(seq, last_seq) /\ ~(late /\ IsSeqLarger(last_seq, last_ack))
    /\ last_seq' = seq
    /\ UNCHANGED <<bytes_sent, timeoutVars>>

CountNothing(seq, late) ==
    /\ ~IsSeqLarger(seq, last_seq) /\ ~(late /\ IsSeqLarger(last_seq, last_ack))
    /\ UNCHANGED <<last_seq, bytes_sent, timeoutVars>>

\* Any other packet: seq is that of its last payload byte, or of the packet
\* when it has none; new says how many of its bytes are sent for the first time.
Packet(seq, len, new, late) ==
    /\ conn = "open" /\ pend = None
    /\ \/ /\ tracked
          /\ CountNew(seq, len) \/ CountTimeout(seq, late) \/ CountNothing(seq, late)
          /\ fresh' = IF ~IsSeqLarger(seq, last_seq) /\ bytes_sent' # bytes_sent
                          THEN 0 ELSE (fresh + new) % Mod
          /\ pend' = bytes_sent'
          /\ UNCHANGED mark
       \/ /\ ~tracked
          /\ mark' = Priority(0)
          /\ UNCHANGED <<last_seq, bytes_sent, fresh, pend, timeoutVars>>
    /\ UNCHANGED <<tracked, last_ack, copied, inherited, una, span, conn>>

SendNew(len, late) ==
    /\ len > 1 \/ "oneByte" \in Extras
    /\ Distance(nxt, una) + len <= Window
    /\ Packet(Ahead(nxt, len - 1), len, len, late)
    /\ nxt' = Ahead(nxt, len)

Retransmit(from, len, late) ==
    /\ from + len <= Distance(nxt, una)
    /\ Packet(Ahead(una, from + len - 1), len, 0, late)
    /\ UNCHANGED nxt

PureAck(late) ==
    /\ Packet(nxt, 0, 0, late)
    /\ UNCHANGED nxt

KeepAlive(late) ==
    /\ nxt = una
    /\ Packet(Ahead(nxt, Mod - 1), 0, 0, late)
    /\ UNCHANGED nxt

\* pias_priority(ptr->info.bytes_sent), read after the lock has been released;
\* the entry may have been freed, and the value is then whatever is there.
Mark ==
    /\ pend # None
    /\ \/ tracked /\ mark' = Priority(bytes_sent)
       \/ ~tracked /\ mark' \in Prios
    /\ pend' = None
    /\ UNCHANGED <<connVars, entryVars>>

-----------------------------------------------------------------------------
(* The hook for incoming packets, tcp_sendmsg and the table operations.    *)

HookInTakesAny(ack) ==  \* faulty variant: overtaken acknowledgements count
    /\ last_ack' = IF tracked THEN ack ELSE last_ack
    /\ UNCHANGED <<tracked, last_seq, bytes_sent, copied, historyVars, timeoutVars, markVars>>

HookIn(ack) ==
    /\ last_ack' = IF tracked /\ IsSeqLarger(ack, last_ack) THEN ack ELSE last_ack
    /\ UNCHANGED <<tracked, last_seq, bytes_sent, copied, historyVars, timeoutVars, markVars>>

\* An acknowledgement of n more bytes.
Ack(n) ==
    /\ conn # "closed" /\ n <= Distance(nxt, una)
    /\ HookIn(Ahead(una, n))
    /\ una' = Ahead(una, n) /\ conn' = "open" /\ UNCHANGED nxt
    /\ span' = IF conn = "syn" THEN 0 ELSE IF span + n > Window THEN Window ELSE span + n

\* A duplicate, or one that was overtaken by up to Window bytes of others.
LateAck(n) ==
    /\ conn = "open" /\ n <= span
    /\ HookIn(Ahead(una, Mod - n))
    /\ UNCHANGED connVars

\* A message starts when everything was sent and the sender has been idle.
SendMessage(idle, drained) ==
    /\ tracked
    /\ IF copied /\ idle /\ drained THEN bytes_sent' = 0 /\ fresh' = 0
                                    ELSE UNCHANGED <<bytes_sent, fresh>>
    /\ copied' = TRUE
    /\ UNCHANGED <<connVars, tracked, last_seq, last_ack, inherited, timeoutVars, markVars>>

\* The operator clears the flow table.
Clear ==
    /\ DeleteEntry
    /\ UNCHANGED <<connVars, markVars>>

\* The peer resets the connection: no packet goes out, the entry remains.
PeerReset ==
    /\ "peerReset" \in Extras /\ conn # "closed" /\ pend = None
    /\ conn' = "closed"
    /\ UNCHANGED <<nxt, una, span, entryVars, markVars>>

-----------------------------------------------------------------------------
Next ==
    \/ \E isn \in Seqs : Syn(isn)
    \/ SynAgain \/ FinOrRst \/ Mark \/ Clear \/ PeerReset
    \/ \E late \in BOOLEAN :
        \/ PureAck(late) \/ KeepAlive(late)
        \/ \E len \in 1 .. Window : \/ SendNew(len, late)
                                    \/ \E from \in 0 .. Window : Retransmit(from, len, late)
    \/ \E n \in 1 .. Window : Ack(n)
    \/ \E n \in 0 .. Window : LateAck(n)
    \/ \E idle, drained \in BOOLEAN : SendMessage(idle, drained)

Spec == Init /\ [][Next]_vars

-----------------------------------------------------------------------------
(* Properties.                                                             *)

\* How far the sender is ahead of what has been acknowledged.
InFlight == 0 .. Distance(nxt, una)

\* Of two sequence numbers in flight the one sent later is larger, wherever
\* in the flight the sequence space wraps: pias_is_seq_larger, on which every
\* decision of the hooks rests, agrees with the order of sending.
FlightOrdered ==
    \A a, b \in InFlight :
        IsSeqLarger(Ahead(una, a), Ahead(una, b)) <=> a > b

\* pias_seq_gap between numbers in flight is the same in both directions and
\* at most one byte short.
FlightGaps ==
    \A a, b \in InFlight :
        a > b => LET s1 == Ahead(una, a)
                     s2 == Ahead(una, b)
                 IN  SeqGap(s1, s2) = SeqGap(s2, s1) /\ SeqGap(s1, s2) \in {a - b - 1, a - b}

\* Is the entry that of the present connection?
Own == tracked /\ ~inherited

\* last_seq is the largest sequence number sent (flow.h:16), through
\* retransmissions, pure acknowledgements and the wrap of sequence numbers.
LastSeqTracked ==
    Own /\ conn # "closed" => last_seq \in {Ahead(nxt, Mod - 1), nxt}

\* last_ack is the largest acknowledgement received (flow.h:17) once there is
\* one, although overtaken acknowledgements arrive later.
LastAckTracked == Own /\ conn = "open" => last_ack = una

\* bytes_sent is the number of bytes sent since the last reset (flow.h:18):
\* every payload byte counts once and retransmitted ones do not.
BytesExact == Own => bytes_sent = fresh

\* timeouts counts the timeouts in a row whose sequence numbers are at most
\* PIAS_TIMEOUT_SEQ_GAP apart (flow.h:19, params.c:12, netfilter.c:113).
TimeoutsCounted == tracked => timeouts = run

\* Only a flow with unacknowledged data is found to time out: neither pure
\* acknowledgements nor keep-alives of an idle connection age it.
TimeoutMeansOutstanding ==
    [][last_timeout_seq' # last_timeout_seq /\ Own /\ tracked' => una # nxt]_vars

\* Idle resets, clears and acknowledgements that come before the unlocked read of
\* bytes_sent can raise the packet's priority, but never lower it.
MarkNeverLower ==
    [][pend # None /\ pend' = None /\ tracked => mark' <= Priority(pend)]_vars
=============================================================================
