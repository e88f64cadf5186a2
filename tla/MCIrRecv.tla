------------------------------ MODULE MCIrRecv ------------------------------
(* Instances of IrRecv for TLC.                                            *)
EXTENDS IrRecv

\* Pulses as far off as match still allows, and exact.
OffByBias == {-149, 0, 149}
Exact     == {0}

\* A pulse too far off for anything, a mark, and an AGC mark out of place.
Bad == {1000, 560, 9000}
None == {}
=============================================================================
