------------------------------- MODULE Stack -------------------------------
(***************************************************************************)
(* The operand stack and the registers of the DeVIL machine: struct Stack  *)
(* of contracts/devil/src/program.rs, one operator per method.             *)
(*                                                                         *)
(* A machine is a record [stack, registry].  An operation maps a machine   *)
(* to the set of machines it may leave: a singleton when the method        *)
(* returns Ok, and the empty set when it returns Err or panics.  Which     *)
(* error it is does not matter: each of them reverts the transaction with  *)
(* the same "Program error".                                               *)
(*                                                                         *)
(* Positions count from the top of the stack, which is the last element.   *)
(***************************************************************************)
EXTENDS Amount, SequencesExt

\* Operands.  A scalar and a label hold their value as the only datum.
NoOperand   == [kind |-> "None", data |-> << >>]
Vector(d)   == [kind |-> "Vector", data |-> d]
Labels(d)   == [kind |-> "Labels", data |-> d]
Scalar(x)   == [kind |-> "Scalar", data |-> <<x>>]
LabelOf(x)  == [kind |-> "Label", data |-> <<x>>]

IsAmounts(v) == v.kind \in {"Vector", "Scalar"}

\* Every word is a u128, like an Amount.
Operand ==
    {v \in [kind : {"None", "Vector", "Labels", "Scalar", "Label"}, data : Seq(Amounts)] :
        v.kind \in {"Scalar", "Label"} => Len(v.data) = 1}
Machine == [stack : Seq(Operand), registry : Seq(Operand)]

NewStack(registers) == [stack |-> << >>, registry |-> [r \in 1 .. registers |-> NoOperand]]

-----------------------------------------------------------------------------
(***************************************************************************)
(* Addressing.                                                             *)
(***************************************************************************)
Depth(m)   == Len(m.stack)
Top(m)     == m.stack[Depth(m)]
At(m, pos) == m.stack[Depth(m) - pos]

\* get_stack_index and get_stack_offset return Ok.  The second refuses an
\* empty stack even for a count of zero.
Reaches(m, pos)  == pos < Depth(m)
HasTop(m, count)  == Depth(m) > 0 /\ count <= Depth(m)

\* Operations with another operand take it from the stack below the top.
Below(m, pos) == pos > 0 /\ Reaches(m, pos)

TopN(m, n)    == SubSeq(m.stack, Depth(m) - n + 1, Depth(m))
Push(m, v)    == [m EXCEPT !.stack = Append(@, v)]
PushAll(m, s) == [m EXCEPT !.stack = @ \o s]
Drop(m, n)    == [m EXCEPT !.stack = SubSeq(@, 1, Depth(m) - n)]
SetTop(m, v)  == [m EXCEPT !.stack[Depth(m)] = v]

\* The outcome of a method: m when its checks pass, nothing otherwise.
When(checks, m) == IF checks THEN {m} ELSE {}

-----------------------------------------------------------------------------
(***************************************************************************)
(* Moving operands between the stack and the registers.                    *)
(***************************************************************************)
HasRegister(m, reg) == reg < Len(m.registry)

Ldd(m, pos) == When(Reaches(m, pos), Push(m, At(m, pos)))
\* Seeded fault: LDR moves the value out, like LDM.
LdrMoving(m, reg) == When(HasRegister(m, reg),
                          [Push(m, m.registry[reg + 1]) EXCEPT !.registry[reg + 1] = NoOperand])
Ldr(m, reg) == When(HasRegister(m, reg), Push(m, m.registry[reg + 1]))
Ldm(m, reg) == When(HasRegister(m, reg),
                    [Push(m, m.registry[reg + 1]) EXCEPT !.registry[reg + 1] = NoOperand])
Str(m, reg) == When(HasRegister(m, reg) /\ Depth(m) > 0,
                    [Drop(m, 1) EXCEPT !.registry[reg + 1] = Top(m)])

Popn(m, count) == When(HasTop(m, count), Drop(m, count))
Swap(m, pos)   == When(Below(m, pos),
                       [m EXCEPT !.stack[Depth(m)] = At(m, pos),
                                 !.stack[Depth(m) - pos] = Top(m)])

Imms(m, x) == {Push(m, Scalar(x))}
Imml(m, x) == {Push(m, LabelOf(x))}

-----------------------------------------------------------------------------
(***************************************************************************)
(* Packing and unpacking.                                                  *)
(***************************************************************************)

\* The components of a Vector are scalars, those of Labels are labels.
Items(v) == [i \in DOMAIN v.data |-> IF v.kind = "Vector" THEN Scalar(v.data[i])
                                                          ELSE LabelOf(v.data[i])]
HasItems(v) == v.kind \in {"Vector", "Labels"}

Pack(m, count, kind, packed(_)) ==
    When(/\ HasTop(m, count)
         /\ \A i \in 1 .. count : TopN(m, count)[i].kind = kind,
         Push(Drop(m, count), packed([i \in 1 .. count |-> TopN(m, count)[i].data[1]])))

\* Seeded fault: the whole stack cannot be packed.
PkvShort(m, count) == IF count < Depth(m) THEN Pack(m, count, "Scalar", Vector) ELSE {}
Pkv(m, count) == Pack(m, count, "Scalar", Vector)
Pkl(m, count) == Pack(m, count, "Label", Labels)

Unpk(m) == When(Depth(m) > 0 /\ HasItems(Top(m)), PushAll(Drop(m, 1), Items(Top(m))))

\* T 1 unpacks; otherwise count vectors of equal length turn into as many
\* vectors of length count.
\* Seeded fault: the columns are taken from the top of the stack down.
TransposedRowsReversed(vs) ==
    [row \in DOMAIN vs[1].data |->
        Vector([col \in DOMAIN vs |-> vs[Len(vs) + 1 - col].data[row]])]
TransposedRows(vs) ==
    [row \in DOMAIN vs[1].data |-> Vector([col \in DOMAIN vs |-> vs[col].data[row]])]
Transpose(m, count) ==
    IF count = 1 THEN Unpk(m)
    ELSE When(/\ count > 0
              /\ HasTop(m, count)
              /\ \A v \in ToSet(TopN(m, count)) :
                    /\ v.kind = "Vector"
                    /\ Len(v.data) = Len(TopN(m, count)[1].data),
              PushAll(Drop(m, count), TransposedRows(TopN(m, count))))

Extend(m, kind, x) == When(Depth(m) > 0 /\ Top(m).kind = kind,
                           SetTop(m, [Top(m) EXCEPT !.data = Append(@, x)]))
Vpush(m, x) == Extend(m, "Vector", x)
Lpush(m, x) == Extend(m, "Labels", x)

Shrink(m, kind) == When(Depth(m) > 0 /\ Top(m).kind = kind /\ Top(m).data # << >>,
                        Push(SetTop(m, [Top(m) EXCEPT !.data = Front(@)]),
                             Last(Items(Top(m)))))
Vpop(m) == Shrink(m, "Vector")
Lpop(m) == Shrink(m, "Labels")

-----------------------------------------------------------------------------
(***************************************************************************)
(* Arithmetic on the top of the stack.                                     *)
(***************************************************************************)
AllRepresentable(d) == \A i \in DOMAIN d : Representable(d[i])

\* Two vectors of one length, two scalars, or a vector and a scalar.
Conforms(x, y) == IsAmounts(x) /\ x.kind = y.kind /\ Len(x.data) = Len(y.data)
Scales(x, y)   == x.kind = "Vector" /\ y.kind = "Scalar"

Combined(x, y, op(_, _)) ==
    [i \in DOMAIN x.data |-> op(x.data[i], y.data[IF Scales(x, y) THEN 1 ELSE i])]

\* impl_devil_binary_op!: position 0 is the top itself.
Binary(m, pos, op(_, _)) ==
    When(/\ Reaches(m, pos)
         /\ Conforms(Top(m), At(m, pos)) \/ Scales(Top(m), At(m, pos))
         /\ AllRepresentable(Combined(Top(m), At(m, pos), op)),
         SetTop(m, [Top(m) EXCEPT !.data = Combined(Top(m), At(m, pos), op)]))
Add(m, pos)     == Binary(m, pos, Plus)
Sub(m, pos)     == Binary(m, pos, Minus)
SsbTop(m, pos)  == Binary(m, pos, Ssb)
Mul(m, pos)     == Binary(m, pos, Times)
Div(m, pos)     == Binary(m, pos, Over)

\* min and max refuse position 0 and mixed kinds.
Select(m, pos, op(_, _)) ==
    When(Below(m, pos) /\ Conforms(Top(m), At(m, pos)),
         SetTop(m, [Top(m) EXCEPT !.data = Combined(Top(m), At(m, pos), op)]))
MinTop(m, pos) == Select(m, pos, Lesser)
MaxTop(m, pos) == Select(m, pos, Greater)

SqrtTop(m) ==
    LET roots == [i \in DOMAIN Top(m).data |-> Sqrt(Top(m).data[i])]
    IN  When(Depth(m) > 0 /\ IsAmounts(Top(m)) /\ AllRepresentable(roots),
             SetTop(m, [Top(m) EXCEPT !.data = roots]))

\* The aggregates replace the vector by a scalar.
Aggregate(m, op(_, _), base) ==
    LET total == FoldLeft(op, base, Top(m).data)
    IN  When(Depth(m) > 0 /\ Top(m).kind = "Vector" /\ Representable(total),
             SetTop(m, Scalar(total)))
Vsum(m) == Aggregate(m, Plus, 0)
Vmin(m) == Aggregate(m, Lesser, MAX)
Vmax(m) == Aggregate(m, Greater, 0)

Constant(m, pos, x) ==
    When(Reaches(m, pos) /\ HasItems(At(m, pos)),
         Push(m, Vector([i \in DOMAIN At(m, pos).data |-> x])))
Zeros(m, pos) == Constant(m, pos, 0)
Ones(m, pos)  == Constant(m, pos, ONE)

=============================================================================
