---------------------------- MODULE MCDevilLaws ----------------------------
(***************************************************************************)
(* DevilLaws for TLC: all pairs of ten vectors of three components, and    *)
(* the joins of all pairs of the 31 ascending sequences of labels 1 .. 5.  *)
(* Some sums of vectors, and the sum of the values of label 5, exceed MAX. *)
(***************************************************************************)
EXTENDS DevilLaws

MCSize    == 3
MCVectors == {<<0, 0, 0>>, <<1, 0, 7>>, <<7, 3, 1>>, <<4, 4, 4>>, <<12, 0, 0>>,
              <<3, 50, 2>>, <<0, 1, 99>>, <<60, 20, 20>>, <<40, 40, 40>>, <<100, 100, 0>>}
MCNameTags   == <<2, 5, 6>>
MCLabellings == {SetToSortSeq(s, LAMBDA a, b : a < b) : s \in SUBSET (1 .. 5) \ {{}}}
MCValueA(label) == 10 + label
MCValueB(label) == IF label = 5 THEN 95 ELSE 20 * label

MCAddresses == {User}

=============================================================================
