--------------------------- MODULE MCNativeSolver ---------------------------
(***************************************************************************)
(* NativeSolver for TLC: 1.0 is 100 raw units, the root keeps one of two   *)
(* decimals.  Zero, single units, values the truncation cuts, and values   *)
(* whose square, product, double or quotient exceeds MAX.                  *)
(***************************************************************************)
EXTENDS NativeSolver

MCCoefficients == {0, 1, 2, 7, 30, 99, 100, 105, 119, 250, 333, 480, 1000, 1201, 2400}

=============================================================================
