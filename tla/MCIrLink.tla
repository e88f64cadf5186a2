------------------------------ MODULE MCIrLink ------------------------------
(* Instances of IrLink for TLC.                                            *)
EXTENDS IrLink

\* The least and the most of what LinkConstants lets an edge be late by, and
\* then of what it lets a space be longer by.
Lags   == {0, 117}
Delays == {0, 64}
=============================================================================
