----------------------------- MODULE MCPiasFlow -----------------------------
(* PiasFlow for TLC: evenly spaced demotion thresholds.                    *)
EXTENDS PiasFlow

MCThresh == [i \in 0 .. PrioNum - 2 |-> 2 * i + 2]
=============================================================================
