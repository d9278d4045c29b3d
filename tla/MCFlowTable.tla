---------------------------- MODULE MCFlowTable ----------------------------
(* FlowTable for TLC: three size files, two interface lists, four calls.   *)
EXTENDS FlowTable

\* conf/cdf in small; a file of which numbers below the first and beyond the last
\* line are drawn; and one that load_cdf rejects.
MCFiles ==
    {<<[value |-> 4, cdf |-> 0], [value |-> 8, cdf |-> 3], [value |-> 20, cdf |-> 4]>>,
     <<[value |-> 4, cdf |-> 2], [value |-> 8, cdf |-> 3]>>,
     <<[value |-> 4, cdf |-> 0], [value |-> 8, cdf |-> 5]>>}

If(n, i) == [name |-> n, inet |-> i]
MCInterfaces ==
    {<<If("other", TRUE), If("dev", FALSE), If("dev", TRUE), If("alias", TRUE)>>,
     <<If("other", TRUE)>>}

Args(c, t, s) == [flows |-> 3, concurrent |-> c, threads |-> t, server |-> s]
MCConfigs == {Args(2, 2, TRUE), Args(2, 1, TRUE), Args(1, 1, FALSE), Args(1, 3, TRUE)}

MCThresholds == <<6, 10>>
=============================================================================
