-------------------------- MODULE MCBonitoAnomaly --------------------------
(***************************************************************************)
(* Small instances of BonitoAnomaly for TLC.                               *)
(***************************************************************************)
EXTENDS BonitoAnomaly

CONSTANTS f1, f2, g1, g2

\* In thousandths of a millisecond: none, one that rounds to 0.01 ms (and its mean with others to
\* 0.00 ms), a middle value and an outlier.
Assorted == {0, 6, 59010, 120000}
\* A query at 10 ms, and the same query at 30 ms.
FastSlow == {10000, 30000}
=============================================================================
