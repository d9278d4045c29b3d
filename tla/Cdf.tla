-------------------------------- MODULE Cdf --------------------------------
(***************************************************************************)
(* The flow size distribution (client/cdf.c): load_cdf reads the file line *)
(* by line into a table that doubles when it is full, and gen_random_cdf   *)
(* turns a random number into a size by interpolating between two lines.   *)
(*                                                                         *)
(* Probabilities are integers from 0 to MaxCdf, the scaled MAX_CDF.        *)
(***************************************************************************)
EXTENDS Integers, Sequences, FiniteSets, FiniteSetsExt

CONSTANTS Files,       \* the contents conf/cdf may have: sequences of lines
          TableEntry,  \* CDF_TABLE_ENTRY, the table's first capacity
          MaxCdf,      \* MAX_CDF, scaled
          Draws        \* the random numbers rand_range may produce

Line == [value : Nat, cdf : Nat]

ASSUME CdfAssumption ==
    /\ TableEntry \in Nat \ {0} /\ MaxCdf \in Nat \ {0}
    /\ Draws \subseteq 0 .. MaxCdf
    /\ \A f \in Files : f # <<>> /\ f \in Seq(Line)

VARIABLES file,  \* the contents of conf/cdf
          dist   \* req_size_dist

cdfVars == <<file, dist>>

Unset == [value |-> -1, cdf |-> -1]  \* a slot malloc has not initialised

CdfTypeOK ==
    /\ file \in Files
    /\ dist.num \in Nat /\ dist.max \in Nat
    /\ dist.entries \in [1 .. dist.max -> Line \cup {Unset}]

InitCdf ==
    /\ file \in Files
    /\ dist = [entries |-> [i \in 1 .. TableEntry |-> Unset],
               num |-> 0, max |-> TableEntry, minCdf |-> 0, maxCdf |-> MaxCdf]

GrownLate(d) ==  \* faulty variant: grows one line too late
    IF d.num <= d.max THEN d
    ELSE [d EXCEPT !.max = 2 * @,
                   !.entries = [i \in 1 .. 2 * d.max |->
                                  IF i <= d.num THEN d.entries[i] ELSE Unset]]

\* A full table moves to one of twice the size.
Grown(d) ==
    IF d.num < d.max THEN d
    ELSE [d EXCEPT !.max = 2 * @,
                   !.entries = [i \in 1 .. 2 * d.max |->
                                  IF i <= d.num THEN d.entries[i] ELSE Unset]]

\* A write behind the last slot is lost to the table.
Stored(d, e) ==
    [d EXCEPT !.entries = [i \in DOMAIN @ |-> IF i = d.num + 1 THEN e ELSE @[i]],
              !.num = @ + 1,
              !.minCdf = Min({@, e.cdf}), !.maxCdf = Max({@, e.cdf})]

LineRead == file[dist.num + 1]

ReadLine ==
    /\ dist.num < Len(file) /\ LineRead.cdf <= MaxCdf
    /\ dist' = Stored(Grown(dist), LineRead)
    /\ UNCHANGED file

\* "The cdf entry is larger than 1": the program exits.
RejectsLine == dist.num < Len(file) /\ LineRead.cdf > MaxCdf

Loaded == dist.num = Len(file)

-----------------------------------------------------------------------------
Interpolate(x, x1, y1, x2, y2) ==
    IF x1 = x2 THEN (y1 + y2) \div 2 ELSE y1 + ((x - x1) * (y2 - y1)) \div (x2 - x1)

\* What memory holds for line i; line 0 is the origin.
Entry(i) ==
    CASE i = 0 -> [value |-> 0, cdf |-> 0]
      [] i \in DOMAIN dist.entries -> dist.entries[i]
      [] OTHER -> Unset

\* The size for the random number x; get_flow_size truncates it to an int.
GenRandomCdf(x) ==
    LET hits == {i \in 1 .. dist.num : x <= Entry(i).cdf}
    IN  IF hits = {} THEN Entry(dist.num).value
        ELSE LET e == Entry(Min(hits))  d == Entry(Min(hits) - 1)
             IN  Interpolate(x, d.cdf, d.value, e.cdf, e.value)

\* rand_range(min_cdf, max_cdf)
RandRange == Draws \cap (dist.minCdf .. dist.maxCdf)
=============================================================================
