----------------------------- MODULE FlowTable -----------------------------
(***************************************************************************)
(* The client's table of flow times and its report (client/statistics.c)   *)
(* after the set-up of ClientSetup: a row per descriptor, filled when a    *)
(* request is sent, stamped when the response is in, emptied when it       *)
(* fails; and the statistics that are computed from the rows at the end.   *)
(* Who calls what in which order is Client's; here every flow is requested *)
(* and ended once, at any time.                                            *)
(***************************************************************************)
EXTENDS ClientSetup, SequencesExt

CONSTANTS Backup,     \* rows the table has beyond the flows asked for
          MaxFlows,   \* entries of flows_size
          Thresholds, \* <<100K, 10M>>: where the second and third groups begin
          SToUs,      \* microseconds in a second, scaled
          IntMax,     \* the largest int
          MaxTime     \* bound: the last moment of the clock

ASSUME TableAssumption ==
    /\ Backup \in Nat /\ MaxFlows \in Nat \ {0} /\ MaxTime \in Nat
    /\ SToUs \in Nat \ {0} /\ IntMax \in Nat \ {0}
    /\ Thresholds \in Seq(Nat)

Groups == 1 .. Len(Thresholds) + 1
NoTime == [sec |-> 0, usec |-> 0]
NoRow == [fd |-> 0, size |-> 0, req |-> NoTime, fct |-> 0]

VARIABLES rows,      \* flows_time
          errors,    \* error: the flows that failed, by kind
          result,    \* what print_results prints, per group
          now,       \* the wall clock, in microseconds
          active,    \* descriptors whose request is sent
          drawn,     \* history: the random numbers and the sizes they gave
          began,     \* history: the moment of every flow's request
          answered   \* history: size and duration of the answered flows

tableVars == <<rows, errors, result>>
historyVars == <<drawn, began, answered>>
vars == <<setupVars, tableVars, now, active, historyVars>>

TypeOK ==
    /\ SetupTypeOK
    /\ DOMAIN rows = 0 .. Cardinality(DOMAIN rows) - 1
    /\ \A i \in DOMAIN rows : rows[i].fd \in {0, i} /\ rows[i].size \in Nat
    /\ errors \in [conn : Nat, size : Nat]
    /\ result = <<>> \/ DOMAIN result = Groups
    /\ active \subseteq socks /\ now \in 0 .. MaxTime

MaxEntriesExact(n) == n  \* faulty variant: no spare rows

\* init_flow_time_table(&time_table, flow_conf.flows_num + BACKUP)
MaxEntries(n) == n + Backup

Init ==
    /\ InitSetup
    /\ rows = [i \in 0 .. MaxEntries(conf.flows) - 1 |-> NoRow]
    /\ errors = [conn |-> 0, size |-> 0]
    /\ result = <<>>
    /\ now = 0 /\ active = {}
    /\ drawn = {} /\ began = <<>> /\ answered = <<>>

SetUp ==
    /\ SetupStep
    /\ UNCHANGED <<tableVars, now, active, historyVars>>

-----------------------------------------------------------------------------
TimeOfDay == [sec |-> now \div SToUs, usec |-> now % SToUs]

\* The difference is a long, and returned as an int, which wraps at IntMax.
AsInt(n) == ((n + IntMax + 1) % (2 * (IntMax + 1))) - (IntMax + 1)

GetTimeDiff(start, end) == AsInt((end.sec - start.sec) * SToUs + (end.usec - start.usec))

\* A descriptor beyond the table: twice the rows.
Extended(fd) ==
    LET n == Cardinality(DOMAIN rows)
    IN  IF fd < n THEN rows
        ELSE [i \in 0 .. 2 * n - 1 |-> IF i < n THEN rows[i] ELSE NoRow]

\* Time that passes while no flow is active changes no duration.
Tick ==
    /\ phase = "run" /\ active # {} /\ now < MaxTime
    /\ now' = now + 1
    /\ UNCHANGED <<setupVars, tableVars, active, historyVars>>

\* get_flow_size, and add_flow_time_entry, which asserts that the row is empty.
Request(fd) ==
    /\ phase = "run" /\ fd \in socks \ active /\ fd \notin DOMAIN began
    /\ fd \in DOMAIN rows => rows[fd].fd = 0
    /\ \E x \in RandRange :
        /\ drawn' = drawn \cup {[x |-> x, size |-> GenRandomCdf(x)]}
        /\ rows' = [Extended(fd) EXCEPT
                      ![fd] = [fd |-> fd, size |-> GenRandomCdf(x), req |-> TimeOfDay, fct |-> 0]]
    /\ active' = active \cup {fd}
    /\ began' = [g \in DOMAIN began \cup {fd} |-> IF g = fd THEN now ELSE began[g]]
    /\ UNCHANGED <<setupVars, errors, result, now, answered>>

Ends(fd) ==
    /\ phase = "run" /\ fd \in active
    /\ active' = active \ {fd} /\ left' = left - 1
    /\ UNCHANGED <<cdfVars, phase, argVars, ipVars, tried, result, now, drawn, began>>

\* set_resp_time, which asserts that the row is in use; the socket is closed.
Answer(fd) ==
    /\ Ends(fd) /\ rows[fd].fd # 0
    /\ rows' = [rows EXCEPT ![fd].fct = GetTimeDiff(rows[fd].req, TimeOfDay)]
    /\ fds' = fds \ {fd} /\ socks' = socks \ {fd}
    /\ answered' = Append(answered, [size |-> rows[fd].size, time |-> now - began[fd]])
    /\ UNCHANGED errors

FailKeepsRow(fd, kind) ==  \* faulty variant: the row of the flow stays
    /\ Ends(fd)
    /\ errors' = [errors EXCEPT ![kind] = @ + 1]
    /\ fds' = IF kind = "conn" THEN fds ELSE fds \ {fd}
    /\ socks' = IF kind = "conn" THEN socks ELSE socks \ {fd}
    /\ UNCHANGED <<rows, answered>>

\* incre_error_flows and del_flow_time_entry; only del_flow, called for a
\* response of the wrong size, closes the socket.
Fail(fd, kind) ==
    /\ Ends(fd)
    /\ errors' = [errors EXCEPT ![kind] = @ + 1]
    /\ rows' = [rows EXCEPT ![fd].fd = 0]
    /\ fds' = IF kind = "conn" THEN fds ELSE fds \ {fd}
    /\ socks' = IF kind = "conn" THEN socks ELSE socks \ {fd}
    /\ UNCHANGED answered

-----------------------------------------------------------------------------
(* print_statistics and print_results.                                     *)

\* get_group_index: the first threshold the size is below.
GetGroupIndex(size) ==
    LET below == {g \in DOMAIN Thresholds : size < Thresholds[g]}
    IN  IF below = {} THEN Len(Thresholds) + 1 ELSE Min(below)

RowsOf(g) == {i \in DOMAIN rows : rows[i].fd # 0 /\ GetGroupIndex(rows[i].size) = g}

AsUnsigned(n) == n % (2 * (IntMax + 1))

UnsortedFct(g) ==  \* faulty variant: without qsort
    [k \in 1 .. Cardinality(RowsOf(g)) |-> AsUnsigned(rows[SetToSeq(RowsOf(g))[k]].fct)]

\* flows_fct[g] after qsort, which compares the values as unsigned ints.
SortedFct(g) ==
    LET n == Cardinality(RowsOf(g))
        fct == [i \in RowsOf(g) |-> AsUnsigned(rows[i].fct)]
        order == CHOOSE f \in [1 .. n -> RowsOf(g)] :
                    IsInjective(f) /\ \A j, k \in 1 .. n : j < k => fct[f[j]] <= fct[f[k]]
    IN  [k \in 1 .. n |-> fct[order[k]]]

\* flows_fct[g][(int)(counter * 0.99)], counted from 1
Percentile(n) == (n * 99) \div 100 + 1

\* A group without flows keeps the zeros of memset and calloc.
ResultOf(g) ==
    LET n == Cardinality(RowsOf(g))
        total == SumFunction([i \in RowsOf(g) |-> rows[i].fct])
    IN  IF n = 0 THEN [counter |-> 0, avgFct |-> 0, fct99 |-> 0]
        ELSE [counter |-> n, avgFct |-> total \div n, fct99 |-> SortedFct(g)[Percentile(n)]]

PrintStatistics ==
    /\ phase = "run" /\ left = 0
    /\ Enter("done")
    /\ result' = [g \in Groups |-> ResultOf(g)]
    /\ UNCHANGED <<cdfVars, argVars, ipVars, connVars, rows, errors, now, active, historyVars>>

-----------------------------------------------------------------------------
Next ==
    \/ SetUp \/ Tick \/ PrintStatistics
    \/ \E fd \in socks :
        Request(fd) \/ Answer(fd) \/ Fail(fd, "conn") \/ Fail(fd, "size")

Spec == Init /\ [][Next]_vars

-----------------------------------------------------------------------------
(* Properties.                                                             *)

\* The groups as the report labels them: statistics.c:180-186.
Labelled(g, size) ==
    /\ g > 1 => size >= Thresholds[g - 1]
    /\ g <= Len(Thresholds) => size < Thresholds[g]

\* client.h:22, network.h:34: the arrays the client indexes without a test
\* are large enough: a row and a size for every descriptor it can get, also
\* when connections fail and leak theirs, and room for every source address.
InBounds ==
    /\ TypeOK
    /\ Len(ips) <= MaxIps
    /\ \A fd \in socks : fd \in DOMAIN rows /\ fd < MaxFlows

\* README.md:10: a drawn size is below the size of a line exactly as often as
\* the line says, whatever the table's capacity was when it was loaded.
SizesFollowFile ==
    \A d \in drawn : \A i \in DOMAIN file : d.size < file[i].value <=> d.x < file[i].cdf

\* The answered flows that belong into a group.
AnsweredIn(g) == {k \in DOMAIN answered : Labelled(g, answered[k].size)}

\* README.md:18: every requested flow is an error or was answered, the groups count
\* the answered flows and no other, and the rows of a group hold their durations,
\* each as often as it occurred.
ReportCounts ==
    phase = "done" =>
        /\ Len(answered) + errors.conn + errors.size = Cardinality(DOMAIN began)
        /\ \A g \in Groups :
            /\ result[g].counter = Cardinality(AnsweredIn(g))
            /\ \A t \in 0 .. MaxTime :
                Cardinality({i \in RowsOf(g) : rows[i].fct = t})
                  = Cardinality({k \in AnsweredIn(g) : answered[k].time = t})

\* README.md:18: every requested flow is in one line of the report, their average
\* duration is right, and the 99th percentile is one of the durations, which at
\* most 1% of them exceed.
ReportRight ==
    phase = "done" =>
        /\ SumFunction([g \in Groups |-> result[g].counter]) + errors.conn + errors.size
             = Cardinality(DOMAIN began)
        /\ \A g \in Groups :
            LET mine == AnsweredIn(g)
                upTo(v) == {k \in mine : answered[k].time <= v}
            IN  mine # {} =>
                    /\ result[g].avgFct =
                         SumFunction([k \in mine |-> answered[k].time]) \div Cardinality(mine)
                    /\ 100 * Cardinality(upTo(result[g].fct99)) >= 99 * Cardinality(mine)
                    /\ \E k \in mine : answered[k].time = result[g].fct99
=============================================================================
