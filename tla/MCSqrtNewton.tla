---------------------------- MODULE MCSqrtNewton ----------------------------
(***************************************************************************)
(* SqrtNewton for TLC: every number of a word of eleven bits.              *)
(***************************************************************************)
EXTENDS SqrtNewton

MCNumbers == 0 .. LIMIT

=============================================================================
