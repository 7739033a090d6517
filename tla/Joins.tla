------------------------------- MODULE Joins -------------------------------
(***************************************************************************)
(* The label instructions of the DeVIL machine: LUNION, JUPD, JADD, JFLT.  *)
(*                                                                         *)
(* Each walks the labels A of the operand on top of the stack and keeps a  *)
(* cursor j into the labels B of the other one; both are expected to       *)
(* ascend.  A fold over the positions of A carries the cursor.             *)
(***************************************************************************)
EXTENDS Stack

\* What the joins expect of labels.
Ascending(s) == \A i, j \in DOMAIN s : i < j => s[i] < s[j]

\* Fold step(_, i) over the positions i of labels A.
Walk(A, step(_, _), base) == FoldLeft(step, base, [i \in DOMAIN A |-> i])

\* The walk has no label of B left, or the next one is beyond the label a.
\* Seeded fault: equal labels do not match.
AheadOfEqual(B, j, a) == j > Len(B) \/ a <= B[j]
Ahead(B, j, a) == j > Len(B) \/ a < B[j]

\* The next label of B is one that A skipped.
Behind(B, j, a) == j <= Len(B) /\ B[j] < a

-----------------------------------------------------------------------------
(***************************************************************************)
(* Joins of two vectors: where the labels match, the value of A becomes    *)
(* op(value of A, value of B).  A label of B that A skipped is an error.   *)
(***************************************************************************)
JoinStep(A, B, vb, op(_, _), acc, i) ==
    CASE ~ acc.ok \/ Ahead(B, acc.j, A[i]) -> acc
      [] acc.ok /\ Behind(B, acc.j, A[i]) -> [acc EXCEPT !.ok = FALSE]
      [] OTHER -> [acc EXCEPT !.j = @ + 1, !.data[i] = op(@, vb[acc.j])]

Join(A, B, va, vb, op(_, _)) ==
    Walk(A, LAMBDA acc, i : JoinStep(A, B, vb, op, acc, i), [ok |-> TRUE, j |-> 1, data |-> va])

\* Positions: the vector of B, the labels of A, the labels of B.  Equal label
\* positions mean equal labels and plain addition of the next operand.
JoinTop(m, pb, la, lb, op(_, _)) ==
    LET va == Top(m)       vb == At(m, pb)
        A  == At(m, la)    B  == At(m, lb)
        joined == Join(A.data, B.data, va.data, vb.data, op)
    IN  IF la = lb THEN Add(m, 1)
        ELSE When(/\ la >= 2 /\ lb >= 2
                  /\ Below(m, pb) /\ Reaches(m, la) /\ Reaches(m, lb)
                  /\ va.kind = "Vector" /\ vb.kind = "Vector"
                  /\ A.kind = "Labels" /\ B.kind = "Labels"
                  /\ Len(va.data) = Len(A.data) /\ Len(vb.data) = Len(B.data)
                  /\ joined.ok /\ AllRepresentable(joined.data),
                  SetTop(m, Vector(joined.data)))

SecondOf(x, y) == y
Jadd(m, pb, la, lb) == JoinTop(m, pb, la, lb, Plus)

\* Seeded faults: the positions of the labels are swapped, and the matching
\* values are added where they should be replaced.
JupdSwapped(m, pb, la, lb) == JoinTop(m, pb, lb, la, SecondOf)
JupdAdding(m, pb, la, lb) == JoinTop(m, pb, la, lb, Plus)
Jupd(m, pb, la, lb) == JoinTop(m, pb, la, lb, SecondOf)

-----------------------------------------------------------------------------
(***************************************************************************)
(* The filter keeps the values whose labels match; the code removes the    *)
(* others in place, and truncates what follows the last match.             *)
(***************************************************************************)
\* Seeded fault: the cursor stays at the label that matched.
FilterStepStuck(A, B, va, acc, i) ==
    CASE ~ acc.ok \/ Ahead(B, acc.j, A[i]) -> acc
      [] acc.ok /\ Behind(B, acc.j, A[i]) -> [acc EXCEPT !.ok = FALSE]
      [] OTHER -> [acc EXCEPT !.data = Append(@, va[i])]

FilterStep(A, B, va, acc, i) ==
    CASE ~ acc.ok \/ Ahead(B, acc.j, A[i]) -> acc
      [] acc.ok /\ Behind(B, acc.j, A[i]) -> [acc EXCEPT !.ok = FALSE]
      [] OTHER -> [acc EXCEPT !.j = @ + 1, !.data = Append(@, va[i])]

Filtered(A, B, va) ==
    Walk(A, LAMBDA acc, i : FilterStep(A, B, va, acc, i), [ok |-> TRUE, j |-> 1, data |-> << >>])

Jflt(m, la, lb) ==
    LET va == Top(m)  A == At(m, la)  B == At(m, lb)
        kept == Filtered(A.data, B.data, va.data)
    IN  IF la = lb THEN {m}
        ELSE When(/\ la >= 2 /\ lb >= 2
                  /\ Reaches(m, la) /\ Reaches(m, lb)
                  /\ va.kind = "Vector" /\ A.kind = "Labels" /\ B.kind = "Labels"
                  /\ Len(va.data) = Len(A.data)
                  /\ kept.ok,
                  SetTop(m, Vector(kept.data)))

-----------------------------------------------------------------------------
(***************************************************************************)
(* The union of the labels on top with others: before a label of A come    *)
(* the smaller labels of B.  When those are the last of B, the loop that   *)
(* copies them ends without adding the label of A.                         *)
(***************************************************************************)
\* Seeded fault: an equal label of B is not consumed.
UnionStepRepeating(A, B, acc, i) ==
    LET rest    == SubSeq(B, acc.j, Len(B))
        smaller == SelectSeq(rest, LAMBDA b : b < A[i])
    IN  [j |-> acc.j + Len(smaller), data |-> Append(acc.data \o smaller, A[i])]

UnionStep(A, B, acc, i) ==
    LET rest    == SubSeq(B, acc.j, Len(B))
        next    == SelectInSeq(rest, LAMBDA b : b >= A[i])   \* 0: all are smaller
        smaller == SubSeq(rest, 1, next - 1)
    IN  CASE rest = << >> -> [acc EXCEPT !.data = Append(@, A[i])]
          [] rest # << >> /\ next = 0 -> [j |-> Len(B) + 1, data |-> acc.data \o rest]
          [] OTHER -> [j    |-> acc.j + Len(smaller) + (IF rest[next] = A[i] THEN 1 ELSE 0),
                       data |-> Append(acc.data \o smaller, A[i])]

United(A, B) ==
    Walk(A, LAMBDA acc, i : UnionStep(A, B, acc, i), [j |-> 1, data |-> << >>]).data

Lunion(m, pos) ==
    When(Below(m, pos) /\ Top(m).kind = "Labels" /\ At(m, pos).kind = "Labels",
         SetTop(m, Labels(United(Top(m).data, At(m, pos).data))))

=============================================================================
