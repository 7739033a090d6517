----------------------------- MODULE DevilProofs ----------------------------
(***************************************************************************)
(* Proofs about the machine of DeVIL.                                      *)
(*                                                                         *)
(* First the operators, whatever their arguments: each operation maps a    *)
(* machine to machines, the walks of the joins compute what they should,   *)
(* the assembler puts the words of a program one behind the other.  Then   *)
(* the type invariant, for every code, machine and storage, and from it    *)
(* what the contract promises to those who use it.  Last, which step a     *)
(* word of the code stands for.                                            *)
(***************************************************************************)
EXTENDS Devil, Vil, SequenceTheorems, FiniteSetTheorems, WellFoundedInduction, TLAPS

-----------------------------------------------------------------------------
(***************************************************************************)
(* Sequences and operands.                                                 *)
(***************************************************************************)

\* A function on an initial segment of the positions is a sequence.
LEMMA FunctionIsSeq ==
    ASSUME NEW S, NEW n \in Nat, NEW f \in [1 .. n -> S]
    PROVE  f \in Seq(S) /\ Len(f) = n /\ DOMAIN f = 1 .. n
<1>1. f \in Seq(S)
  BY SeqDef
<1> QED BY <1>1

\* What each constructor needs.
LEMMA OperandsAre ==
    /\ NoOperand \in Operand
    /\ \A d \in Seq(Amounts) : Vector(d) \in Operand /\ Labels(d) \in Operand
    /\ \A x \in Amounts : Scalar(x) \in Operand /\ LabelOf(x) \in Operand
<1>1. << >> \in Seq(Amounts)
  OBVIOUS
<1>2. \A x \in Amounts : <<x>> \in Seq(Amounts) /\ Len(<<x>>) = 1
  OBVIOUS
<1> QED BY <1>1, <1>2 DEF NoOperand, Vector, Labels, Scalar, LabelOf, Operand

\* An operand with other data of the same type, of one word if it must be.
LEMMA OperandData ==
    ASSUME NEW v \in Operand
    PROVE  /\ v.data \in Seq(Amounts)
           /\ v.kind \in {"Scalar", "Label"} => Len(v.data) = 1
           /\ \A d \in Seq(Amounts) :
                 Len(d) = Len(v.data) \/ v.kind \in {"Vector", "Labels"}
                     => [v EXCEPT !.data = d] \in Operand
BY DEF Operand

-----------------------------------------------------------------------------
(***************************************************************************)
(* Addressing.                                                             *)
(***************************************************************************)

LEMMA DepthType == \A m \in Machine : m.stack \in Seq(Operand) /\ Depth(m) \in Nat
BY DEF Machine, Depth

\* An operand within reach is one.
LEMMA AtType ==
    ASSUME NEW m \in Machine, NEW pos \in Nat, Reaches(m, pos)
    PROVE  At(m, pos) \in Operand
<1>1. Depth(m) - pos \in 1 .. Len(m.stack)
  BY DepthType DEF Reaches, Depth
<1> QED BY <1>1, DepthType, ElementOfSeq DEF At

LEMMA TopType ==
    ASSUME NEW m \in Machine, Depth(m) > 0
    PROVE  Top(m) \in Operand
<1>1. Depth(m) \in 1 .. Len(m.stack)
  BY DepthType DEF Depth
<1> QED BY <1>1, DepthType, ElementOfSeq DEF Top

LEMMA TopNType ==
    ASSUME NEW m \in Machine, NEW n \in Nat, n <= Depth(m)
    PROVE  /\ TopN(m, n) \in Seq(Operand)
           /\ Len(TopN(m, n)) = n
<1>1. \A i \in Depth(m) - n + 1 .. Depth(m) : m.stack[i] \in Operand
  BY DepthType, ElementOfSeq DEF Depth
<1>2. Depth(m) - n + 1 \in Int /\ Depth(m) \in Int
  BY DepthType
<1>3. TopN(m, n) \in Seq(Operand)
  BY <1>1, <1>2, SubSeqProperties DEF TopN
<1>4. Len(TopN(m, n)) = IF Depth(m) - n + 1 <= Depth(m)
                        THEN Depth(m) - (Depth(m) - n + 1) + 1 ELSE 0
  BY <1>1, <1>2, SubSeqProperties DEF TopN
<1> QED BY <1>3, <1>4, DepthType

-----------------------------------------------------------------------------
(***************************************************************************)
(* Pushing, dropping, replacing the top.                                   *)
(***************************************************************************)

LEMMA PushType ==
    ASSUME NEW m \in Machine, NEW v \in Operand
    PROVE  Push(m, v) \in Machine
<1>1. Append(m.stack, v) \in Seq(Operand)
  BY DepthType, AppendProperties
<1> QED BY <1>1 DEF Push, Machine

LEMMA PushAllType ==
    ASSUME NEW m \in Machine, NEW s \in Seq(Operand)
    PROVE  PushAll(m, s) \in Machine
<1>1. m.stack \o s \in Seq(Operand)
  BY DepthType, ConcatProperties
<1> QED BY <1>1 DEF PushAll, Machine

LEMMA DropType ==
    ASSUME NEW m \in Machine, NEW n \in Nat, n <= Depth(m)
    PROVE  /\ Drop(m, n) \in Machine
           /\ Depth(Drop(m, n)) = Depth(m) - n
<1>1. \A i \in 1 .. Depth(m) - n : m.stack[i] \in Operand
  BY DepthType, ElementOfSeq DEF Depth
<1>2. Depth(m) - n \in Int
  BY DepthType
<1>3. SubSeq(m.stack, 1, Depth(m) - n) \in Seq(Operand)
  BY <1>1, <1>2, SubSeqProperties
<1>4. Len(SubSeq(m.stack, 1, Depth(m) - n)) =
          IF 1 <= Depth(m) - n THEN Depth(m) - n - 1 + 1 ELSE 0
  BY <1>1, <1>2, SubSeqProperties
<1>5. Drop(m, n).stack = SubSeq(m.stack, 1, Depth(m) - n)
  BY DEF Drop, Machine
<1>6. Drop(m, n) \in Machine
  BY <1>3 DEF Drop, Machine
<1>7. Depth(Drop(m, n)) = IF 1 <= Depth(m) - n THEN Depth(m) - n - 1 + 1 ELSE 0
  BY <1>4, <1>5 DEF Depth
<1>8. Depth(Drop(m, n)) = Depth(m) - n
  BY <1>7, DepthType
<1> QED BY <1>6, <1>8

LEMMA SetTopType ==
    ASSUME NEW m \in Machine, Depth(m) > 0, NEW v \in Operand
    PROVE  /\ SetTop(m, v) \in Machine
           /\ Depth(SetTop(m, v)) = Depth(m)
<1>1. Depth(m) \in 1 .. Len(m.stack)
  BY DepthType DEF Depth
<1>2. /\ [m.stack EXCEPT ![Depth(m)] = v] \in Seq(Operand)
      /\ Len([m.stack EXCEPT ![Depth(m)] = v]) = Len(m.stack)
  BY <1>1, DepthType, ExceptSeq
<1>3. SetTop(m, v) = [m EXCEPT !.stack = [m.stack EXCEPT ![Depth(m)] = v]]
  BY DEF SetTop, Machine
<1> QED BY <1>2, <1>3 DEF Machine, Depth

-----------------------------------------------------------------------------
(***************************************************************************)
(* Moving operands: every outcome is a machine.                            *)
(***************************************************************************)

LEMMA WhenType ==
    ASSUME NEW checks \in BOOLEAN, NEW m, checks => m \in Machine
    PROVE  When(checks, m) \subseteq Machine
BY DEF When

LEMMA LddType ==
    ASSUME NEW m \in Machine, NEW pos \in Nat
    PROVE  Ldd(m, pos) \subseteq Machine
BY AtType, PushType DEF Ldd, When

\* A register of the machine, and the machine with another operand in it.
LEMMA RegisterType ==
    ASSUME NEW m \in Machine, NEW reg \in Nat, HasRegister(m, reg)
    PROVE  /\ m.registry[reg + 1] \in Operand
           /\ \A v \in Operand : [m EXCEPT !.registry[reg + 1] = v] \in Machine
<1>1. m.registry \in Seq(Operand)
  BY DEF Machine
<1>2. reg + 1 \in 1 .. Len(m.registry)
  BY <1>1 DEF HasRegister
<1>3. m.registry[reg + 1] \in Operand
  BY <1>1, <1>2, ElementOfSeq
<1>4. ASSUME NEW v \in Operand
      PROVE  [m EXCEPT !.registry[reg + 1] = v] \in Machine
  <2>1. [m.registry EXCEPT ![reg + 1] = v] \in Seq(Operand)
    BY <1>1, <1>2, ExceptSeq
  <2> QED BY <2>1 DEF Machine
<1> QED BY <1>3, <1>4

LEMMA LdrType ==
    ASSUME NEW m \in Machine, NEW reg \in Nat
    PROVE  Ldr(m, reg) \subseteq Machine
BY RegisterType, PushType DEF Ldr, When

LEMMA LdmType ==
    ASSUME NEW m \in Machine, NEW reg \in Nat
    PROVE  Ldm(m, reg) \subseteq Machine
<1> SUFFICES ASSUME HasRegister(m, reg)
             PROVE  [Push(m, m.registry[reg + 1]) EXCEPT !.registry[reg + 1] = NoOperand]
                        \in Machine
  BY DEF Ldm, When
<1> DEFINE pushed == Push(m, m.registry[reg + 1])
<1>1. pushed \in Machine
  BY RegisterType, PushType
<1>2. pushed.registry = m.registry
  BY DEF Push, Machine
<1>3. HasRegister(pushed, reg)
  BY <1>2 DEF HasRegister
<1>4. [pushed EXCEPT !.registry[reg + 1] = NoOperand] \in Machine
  <2> HIDE DEF pushed
  <2> QED BY <1>1, <1>3, RegisterType, OperandsAre
<1> QED BY <1>4

LEMMA StrType ==
    ASSUME NEW m \in Machine, NEW reg \in Nat
    PROVE  Str(m, reg) \subseteq Machine
<1> SUFFICES ASSUME HasRegister(m, reg), Depth(m) > 0
             PROVE  [Drop(m, 1) EXCEPT !.registry[reg + 1] = Top(m)] \in Machine
  BY DEF Str, When
<1> DEFINE dropped == Drop(m, 1)
<1>1. dropped \in Machine
  BY DropType, DepthType
<1>2. dropped.registry = m.registry
  BY DEF Drop, Machine
<1>3. HasRegister(dropped, reg)
  BY <1>2 DEF HasRegister
<1>4. [dropped EXCEPT !.registry[reg + 1] = Top(m)] \in Machine
  <2> HIDE DEF dropped
  <2> QED BY <1>1, <1>3, RegisterType, TopType
<1> QED BY <1>4

LEMMA PopnType ==
    ASSUME NEW m \in Machine, NEW count \in Nat
    PROVE  Popn(m, count) \subseteq Machine
BY DropType DEF Popn, When, HasTop

LEMMA SwapType ==
    ASSUME NEW m \in Machine, NEW pos \in Nat
    PROVE  Swap(m, pos) \subseteq Machine
<1> SUFFICES ASSUME Below(m, pos)
             PROVE  [m EXCEPT !.stack[Depth(m)] = At(m, pos),
                              !.stack[Depth(m) - pos] = Top(m)] \in Machine
  BY DEF Swap, When
<1>1. /\ Depth(m) \in 1 .. Len(m.stack)
      /\ Depth(m) - pos \in 1 .. Len(m.stack)
      /\ Reaches(m, pos) /\ Depth(m) > 0
  BY DepthType DEF Below, Reaches, Depth
<1>2. At(m, pos) \in Operand /\ Top(m) \in Operand
  BY <1>1, AtType, TopType
<1> DEFINE once == [m.stack EXCEPT ![Depth(m)] = At(m, pos)]
           twice == [once EXCEPT ![Depth(m) - pos] = Top(m)]
<1>3. once \in Seq(Operand) /\ Len(once) = Len(m.stack)
  BY <1>1, <1>2, DepthType, ExceptSeq
<1>4. twice \in Seq(Operand)
  <2> HIDE DEF once
  <2> QED BY <1>1, <1>2, <1>3, ExceptSeq
<1>5. [m EXCEPT !.stack[Depth(m)] = At(m, pos), !.stack[Depth(m) - pos] = Top(m)]
          = [m EXCEPT !.stack = twice]
  BY DEF Machine
<1> HIDE DEF twice
<1> QED BY <1>4, <1>5 DEF Machine

LEMMA ImmediateType ==
    ASSUME NEW m \in Machine, NEW x \in Amounts
    PROVE  Imms(m, x) \subseteq Machine /\ Imml(m, x) \subseteq Machine
BY OperandsAre, PushType DEF Imms, Imml

-----------------------------------------------------------------------------
(***************************************************************************)
(* Packing and unpacking.                                                  *)
(***************************************************************************)

LEMMA ItemsType ==
    ASSUME NEW v \in Operand
    PROVE  /\ Items(v) \in Seq(Operand)
           /\ Len(Items(v)) = Len(v.data)
<1>1. v.data \in Seq(Amounts)
  BY OperandData
<1>2. DOMAIN v.data = 1 .. Len(v.data) /\ Len(v.data) \in Nat
  BY <1>1
<1>3. ASSUME NEW i \in 1 .. Len(v.data)
      PROVE  v.data[i] \in Amounts
  BY <1>1, ElementOfSeq
<1>4. Items(v) \in [1 .. Len(v.data) -> Operand]
  BY <1>2, <1>3, OperandsAre DEF Items
<1> QED BY <1>2, <1>4, FunctionIsSeq

\* The first words of the top operands, when each has one.
LEMMA PackType ==
    ASSUME NEW m \in Machine, NEW count \in Nat, NEW kind \in {"Scalar", "Label"},
           count <= Depth(m), \A i \in 1 .. count : TopN(m, count)[i].kind = kind
    PROVE  /\ [i \in 1 .. count |-> TopN(m, count)[i].data[1]] \in Seq(Amounts)
           /\ Drop(m, count) \in Machine
<1>1. ASSUME NEW i \in 1 .. count
      PROVE  TopN(m, count)[i].data[1] \in Amounts
  <2>1. TopN(m, count)[i] \in Operand
    BY TopNType, ElementOfSeq
  <2>2. TopN(m, count)[i].kind \in {"Scalar", "Label"}
    OBVIOUS
  <2>3. /\ TopN(m, count)[i].data \in Seq(Amounts)
        /\ Len(TopN(m, count)[i].data) = 1
    BY <2>1, <2>2, OperandData
  <2> QED BY <2>3, ElementOfSeq
<1>2. [i \in 1 .. count |-> TopN(m, count)[i].data[1]] \in [1 .. count -> Amounts]
  BY <1>1
<1> QED BY <1>2, FunctionIsSeq, DropType

LEMMA PkvType ==
    ASSUME NEW m \in Machine, NEW count \in Nat
    PROVE  Pkv(m, count) \subseteq Machine
<1> SUFFICES ASSUME HasTop(m, count), \A i \in 1 .. count : TopN(m, count)[i].kind = "Scalar"
             PROVE  Push(Drop(m, count), Vector([i \in 1 .. count |-> TopN(m, count)[i].data[1]]))
                        \in Machine
  BY DEF Pkv, Pack, When
<1> QED BY PackType, PushType, OperandsAre DEF HasTop

LEMMA PklType ==
    ASSUME NEW m \in Machine, NEW count \in Nat
    PROVE  Pkl(m, count) \subseteq Machine
<1> SUFFICES ASSUME HasTop(m, count), \A i \in 1 .. count : TopN(m, count)[i].kind = "Label"
             PROVE  Push(Drop(m, count), Labels([i \in 1 .. count |-> TopN(m, count)[i].data[1]]))
                        \in Machine
  BY DEF Pkl, Pack, When
<1> QED BY PackType, PushType, OperandsAre DEF HasTop

LEMMA UnpkType ==
    ASSUME NEW m \in Machine
    PROVE  Unpk(m) \subseteq Machine
<1> SUFFICES ASSUME Depth(m) > 0
             PROVE  PushAll(Drop(m, 1), Items(Top(m))) \in Machine
  BY DEF Unpk, When
<1>1. Drop(m, 1) \in Machine
  BY DepthType, DropType
<1> QED BY <1>1, TopType, ItemsType, PushAllType

LEMMA TransposeType ==
    ASSUME NEW m \in Machine, NEW count \in Nat
    PROVE  Transpose(m, count) \subseteq Machine
<1> DEFINE vs == TopN(m, count)
<1>1. SUFFICES ASSUME count > 0, count <= Depth(m),
                      \A v \in ToSet(vs) : Len(v.data) = Len(vs[1].data)
               PROVE  PushAll(Drop(m, count), TransposedRows(vs)) \in Machine
  BY UnpkType DEF Transpose, When, HasTop
<1>2. vs \in Seq(Operand) /\ Len(vs) = count /\ DOMAIN vs = 1 .. count
  BY <1>1, TopNType
<1> HIDE DEF vs
<1>3. \A i \in 1 .. count : vs[i] \in Operand /\ vs[i] \in ToSet(vs)
  BY <1>2, ElementOfSeq DEF ToSet
<1>4. \A i \in 1 .. count : vs[i].data \in Seq(Amounts) /\ Len(vs[i].data) = Len(vs[1].data)
  BY <1>1, <1>3, OperandData
<1>5. /\ vs[1].data \in Seq(Amounts) /\ Len(vs[1].data) \in Nat
      /\ DOMAIN vs[1].data = 1 .. Len(vs[1].data)
  BY <1>1, <1>4
<1>6. ASSUME NEW row \in 1 .. Len(vs[1].data)
      PROVE  Vector([col \in DOMAIN vs |-> vs[col].data[row]]) \in Operand
  <2>1. \A col \in 1 .. count : vs[col].data[row] \in Amounts
    BY <1>4, <1>6, ElementOfSeq
  <2>2. [col \in 1 .. count |-> vs[col].data[row]] \in [1 .. count -> Amounts]
    BY <2>1
  <2> QED BY <1>2, <2>2, FunctionIsSeq, OperandsAre
<1>7. TransposedRows(vs) \in [1 .. Len(vs[1].data) -> Operand]
  BY <1>5, <1>6 DEF TransposedRows
<1>8. TransposedRows(vs) \in Seq(Operand)
  BY <1>5, <1>7, FunctionIsSeq
<1>9. Drop(m, count) \in Machine
  BY <1>1, DropType
<1> QED BY <1>8, <1>9, PushAllType

\* One word more.
LEMMA ExtendType ==
    ASSUME NEW m \in Machine, NEW kind \in {"Vector", "Labels"}, NEW x \in Amounts
    PROVE  Extend(m, kind, x) \subseteq Machine
<1> SUFFICES ASSUME Depth(m) > 0, Top(m).kind = kind
             PROVE  SetTop(m, [Top(m) EXCEPT !.data = Append(@, x)]) \in Machine
  BY DEF Extend, When
<1>1. Append(Top(m).data, x) \in Seq(Amounts)
  BY TopType, OperandData, AppendProperties
<1>2. [Top(m) EXCEPT !.data = Append(Top(m).data, x)] \in Operand
  BY <1>1, TopType, OperandData
<1> QED BY <1>2, SetTopType

\* One word less, pushed as an operand of its own.
LEMMA ShrinkType ==
    ASSUME NEW m \in Machine, NEW kind \in {"Vector", "Labels"}
    PROVE  Shrink(m, kind) \subseteq Machine
<1> SUFFICES ASSUME Depth(m) > 0, Top(m).kind = kind, Top(m).data # << >>
             PROVE  Push(SetTop(m, [Top(m) EXCEPT !.data = Front(@)]), Last(Items(Top(m))))
                        \in Machine
  BY DEF Shrink, When
<1> DEFINE d == Top(m).data
<1>1. Top(m) \in Operand /\ d \in Seq(Amounts) /\ Len(d) \in Nat \ {0}
  BY TopType, OperandData, EmptySeq
<1>2. SubSeq(d, 1, Len(d) - 1) \in Seq(Amounts)
  <2>1. \A i \in 1 .. Len(d) - 1 : d[i] \in Amounts
    BY <1>1, ElementOfSeq
  <2>2. Len(d) - 1 \in Int
    BY <1>1
  <2> QED BY <2>1, <2>2, SubSeqProperties
<1>3. [Top(m) EXCEPT !.data = Front(d)] \in Operand
  BY <1>1, <1>2, OperandData DEF Front
<1>4. Last(Items(Top(m))) \in Operand
  BY <1>1, ItemsType, ElementOfSeq DEF Last
<1> QED BY <1>3, <1>4, SetTopType, PushType

-----------------------------------------------------------------------------
(***************************************************************************)
(* Arithmetic.  The check that every component is representable is what    *)
(* makes the result an operand.                                            *)
(***************************************************************************)

\* The top with other words, all of them representable.
LEMMA WithDataType ==
    ASSUME NEW m \in Machine, Depth(m) > 0, NEW d,
           d = [i \in DOMAIN Top(m).data |-> d[i]], AllRepresentable(d)
    PROVE  SetTop(m, [Top(m) EXCEPT !.data = d]) \in Machine
<1>1. Top(m) \in Operand
  BY TopType
<1>2. /\ Top(m).data \in Seq(Amounts) /\ Len(Top(m).data) \in Nat
      /\ DOMAIN Top(m).data = 1 .. Len(Top(m).data)
  BY <1>1, OperandData
<1>3. DOMAIN d = 1 .. Len(Top(m).data)
  BY <1>2
<1>4. d \in [1 .. Len(Top(m).data) -> Amounts]
  BY <1>2, <1>3 DEF AllRepresentable, Representable
<1>5. d \in Seq(Amounts) /\ Len(d) = Len(Top(m).data)
  BY <1>2, <1>4, FunctionIsSeq
<1>6. [Top(m) EXCEPT !.data = d] \in Operand
  BY <1>1, <1>5, OperandData
<1> QED BY <1>6, SetTopType

LEMMA AddType ==
    ASSUME NEW m \in Machine, NEW pos \in Nat
    PROVE  Add(m, pos) \subseteq Machine
<1> DEFINE d == Combined(Top(m), At(m, pos), Plus)
<1> SUFFICES ASSUME Reaches(m, pos), AllRepresentable(d)
             PROVE  SetTop(m, [Top(m) EXCEPT !.data = d]) \in Machine
  BY DEF Add, Binary, When
<1>1. Depth(m) > 0
  BY DepthType DEF Reaches
<1>2. d = [i \in DOMAIN Top(m).data |-> d[i]]
  BY DEF Combined
<1> HIDE DEF d
<1> QED BY <1>1, <1>2, WithDataType

LEMMA SubType ==
    ASSUME NEW m \in Machine, NEW pos \in Nat
    PROVE  Sub(m, pos) \subseteq Machine
<1> DEFINE d == Combined(Top(m), At(m, pos), Minus)
<1> SUFFICES ASSUME Reaches(m, pos), AllRepresentable(d)
             PROVE  SetTop(m, [Top(m) EXCEPT !.data = d]) \in Machine
  BY DEF Sub, Binary, When
<1>1. Depth(m) > 0
  BY DepthType DEF Reaches
<1>2. d = [i \in DOMAIN Top(m).data |-> d[i]]
  BY DEF Combined
<1> HIDE DEF d
<1> QED BY <1>1, <1>2, WithDataType

LEMMA SsbTopType ==
    ASSUME NEW m \in Machine, NEW pos \in Nat
    PROVE  SsbTop(m, pos) \subseteq Machine
<1> DEFINE d == Combined(Top(m), At(m, pos), Ssb)
<1> SUFFICES ASSUME Reaches(m, pos), AllRepresentable(d)
             PROVE  SetTop(m, [Top(m) EXCEPT !.data = d]) \in Machine
  BY DEF SsbTop, Binary, When
<1>1. Depth(m) > 0
  BY DepthType DEF Reaches
<1>2. d = [i \in DOMAIN Top(m).data |-> d[i]]
  BY DEF Combined
<1> HIDE DEF d
<1> QED BY <1>1, <1>2, WithDataType

LEMMA MulType ==
    ASSUME NEW m \in Machine, NEW pos \in Nat
    PROVE  Mul(m, pos) \subseteq Machine
<1> DEFINE d == Combined(Top(m), At(m, pos), Times)
<1> SUFFICES ASSUME Reaches(m, pos), AllRepresentable(d)
             PROVE  SetTop(m, [Top(m) EXCEPT !.data = d]) \in Machine
  BY DEF Mul, Binary, When
<1>1. Depth(m) > 0
  BY DepthType DEF Reaches
<1>2. d = [i \in DOMAIN Top(m).data |-> d[i]]
  BY DEF Combined
<1> HIDE DEF d
<1> QED BY <1>1, <1>2, WithDataType

LEMMA DivType ==
    ASSUME NEW m \in Machine, NEW pos \in Nat
    PROVE  Div(m, pos) \subseteq Machine
<1> DEFINE d == Combined(Top(m), At(m, pos), Over)
<1> SUFFICES ASSUME Reaches(m, pos), AllRepresentable(d)
             PROVE  SetTop(m, [Top(m) EXCEPT !.data = d]) \in Machine
  BY DEF Div, Binary, When
<1>1. Depth(m) > 0
  BY DepthType DEF Reaches
<1>2. d = [i \in DOMAIN Top(m).data |-> d[i]]
  BY DEF Combined
<1> HIDE DEF d
<1> QED BY <1>1, <1>2, WithDataType

\* The lesser and the greater of two amounts is an amount.
LEMMA SelectedAreAmounts ==
    ASSUME NEW x \in Operand, NEW y \in Operand, Conforms(x, y)
    PROVE  /\ AllRepresentable(Combined(x, y, Lesser))
           /\ AllRepresentable(Combined(x, y, Greater))
<1>1. ~ Scales(x, y)
  BY DEF Conforms, Scales
<1>2. /\ x.data \in Seq(Amounts) /\ y.data \in Seq(Amounts) /\ Len(x.data) = Len(y.data)
  BY OperandData DEF Conforms
<1>3. \A i \in DOMAIN x.data : x.data[i] \in Amounts /\ y.data[i] \in Amounts
  BY <1>2, ElementOfSeq
<1> QED BY <1>1, <1>3 DEF AllRepresentable, Representable, Combined, Lesser, Greater

LEMMA MinTopType ==
    ASSUME NEW m \in Machine, NEW pos \in Nat
    PROVE  MinTop(m, pos) \subseteq Machine
<1> DEFINE d == Combined(Top(m), At(m, pos), Lesser)
<1> SUFFICES ASSUME Below(m, pos), Conforms(Top(m), At(m, pos))
             PROVE  SetTop(m, [Top(m) EXCEPT !.data = d]) \in Machine
  BY DEF MinTop, Select, When
<1>1. Depth(m) > 0 /\ Top(m) \in Operand /\ At(m, pos) \in Operand
  BY DepthType, TopType, AtType DEF Below, Reaches
<1>2. AllRepresentable(d)
  BY <1>1, SelectedAreAmounts
<1>3. d = [i \in DOMAIN Top(m).data |-> d[i]]
  BY DEF Combined
<1> HIDE DEF d
<1> QED BY <1>1, <1>2, <1>3, WithDataType

LEMMA MaxTopType ==
    ASSUME NEW m \in Machine, NEW pos \in Nat
    PROVE  MaxTop(m, pos) \subseteq Machine
<1> DEFINE d == Combined(Top(m), At(m, pos), Greater)
<1> SUFFICES ASSUME Below(m, pos), Conforms(Top(m), At(m, pos))
             PROVE  SetTop(m, [Top(m) EXCEPT !.data = d]) \in Machine
  BY DEF MaxTop, Select, When
<1>1. Depth(m) > 0 /\ Top(m) \in Operand /\ At(m, pos) \in Operand
  BY DepthType, TopType, AtType DEF Below, Reaches
<1>2. AllRepresentable(d)
  BY <1>1, SelectedAreAmounts
<1>3. d = [i \in DOMAIN Top(m).data |-> d[i]]
  BY DEF Combined
<1> HIDE DEF d
<1> QED BY <1>1, <1>2, <1>3, WithDataType

LEMMA SqrtTopType ==
    ASSUME NEW m \in Machine
    PROVE  SqrtTop(m) \subseteq Machine
<1> DEFINE roots == [i \in DOMAIN Top(m).data |-> Sqrt(Top(m).data[i])]
<1> SUFFICES ASSUME Depth(m) > 0, AllRepresentable(roots)
             PROVE  SetTop(m, [Top(m) EXCEPT !.data = roots]) \in Machine
  BY DEF SqrtTop, When
<1>1. roots = [i \in DOMAIN Top(m).data |-> roots[i]]
  OBVIOUS
<1> HIDE DEF roots
<1> QED BY <1>1, WithDataType

\* A scalar in place of the top.
LEMMA TotalType ==
    ASSUME NEW m \in Machine, Depth(m) > 0, NEW total, Representable(total)
    PROVE  SetTop(m, Scalar(total)) \in Machine
BY SetTopType, OperandsAre DEF Representable

LEMMA AggregateType ==
    ASSUME NEW m \in Machine
    PROVE  Vsum(m) \subseteq Machine /\ Vmin(m) \subseteq Machine /\ Vmax(m) \subseteq Machine
<1>1. Vsum(m) \subseteq Machine
  BY TotalType DEF Vsum, Aggregate, When
<1>2. Vmin(m) \subseteq Machine
  BY TotalType DEF Vmin, Aggregate, When
<1>3. Vmax(m) \subseteq Machine
  BY TotalType DEF Vmax, Aggregate, When
<1> QED BY <1>1, <1>2, <1>3

\* Zero and one are amounts.
LEMMA UnitsAreAmounts == 0 \in Amounts /\ ONE \in Amounts
<1>1. SCALE \in Nat
  BY AmountAssumption DEF SCALE
<1> QED BY <1>1, AmountAssumption DEF Amounts, ONE

LEMMA ConstantType ==
    ASSUME NEW m \in Machine, NEW pos \in Nat, NEW x \in Amounts
    PROVE  Constant(m, pos, x) \subseteq Machine
<1> DEFINE d == At(m, pos).data
<1> SUFFICES ASSUME Reaches(m, pos)
             PROVE  Push(m, Vector([i \in DOMAIN d |-> x])) \in Machine
  BY DEF Constant, When
<1>1. d \in Seq(Amounts)
  BY AtType, OperandData
<1>2. Len(d) \in Nat /\ [i \in DOMAIN d |-> x] \in [1 .. Len(d) -> Amounts]
  BY <1>1
<1> HIDE DEF d
<1> QED BY <1>2, FunctionIsSeq, OperandsAre, PushType

-----------------------------------------------------------------------------
(***************************************************************************)
(* Folds.  A fold is a recursive function on sets of positions; here it    *)
(* becomes a function of the number of positions passed, which induction   *)
(* on the naturals can reason about.                                       *)
(***************************************************************************)

\* Induction up to a bound.
LEMMA UpTo ==
    ASSUME NEW n \in Nat, NEW S, 0 \in S, \A k \in 1 .. n : k - 1 \in S => k \in S
    PROVE  0 .. n \subseteq S
<1> DEFINE Out == {k \in 0 .. n : k \notin S}
<1> DEFINE Less == {ss \in Nat \X Nat : ss[1] < ss[2]}
<1> SUFFICES ASSUME Out # {} PROVE FALSE
  OBVIOUS
<1>1. IsWellFoundedOn(Less, Nat)
  BY NatLessThanWellFounded DEF OpToRel
<1>2. Out \subseteq Nat
  OBVIOUS
<1>3. PICK k \in Out : \A j \in Out : ~ (<<j, k>> \in Less)
  <2> HIDE DEF Out, Less
  <2> QED BY <1>1, <1>2, WFMin
<1>4. k \in 1 .. n
  OBVIOUS
<1>5. <<k - 1, k>> \in Less
  BY <1>4
<1>6. k - 1 \notin Out
  BY <1>3, <1>5
<1> QED BY <1>4, <1>6

\* The largest of some positions.
LEMMA MaxProperty ==
    ASSUME NEW n \in Nat, NEW s \in SUBSET (1 .. n), s # {}
    PROVE  Max(s) \in s /\ \A y \in s : Max(s) >= y
<1> DEFINE Reached == {k \in Nat : \A r \in SUBSET (1 .. k) :
                                      r # {} => \E x \in r : \A y \in r : x >= y}
<1>1. 0 \in Reached
  <2>1. 1 .. 0 = {}
    OBVIOUS
  <2> QED BY <2>1
<1>2. ASSUME NEW k \in 1 .. n, k - 1 \in Reached PROVE k \in Reached
  <2> SUFFICES ASSUME NEW r \in SUBSET (1 .. k), r # {}
               PROVE  \E x \in r : \A y \in r : x >= y
    OBVIOUS
  <2>1. CASE k \in r
    BY <2>1
  <2>2. CASE k \notin r
    <3>1. r \in SUBSET (1 .. k - 1)
      BY <2>2
    <3> QED BY <1>2, <3>1
  <2> QED BY <2>1, <2>2
<1>3. 0 .. n \subseteq Reached
  <2> HIDE DEF Reached
  <2> QED BY <1>1, <1>2, UpTo
<1>4. n \in Reached
  <2> HIDE DEF Reached
  <2> QED BY <1>3
<1>5. \E x \in s : \A y \in s : x >= y
  BY <1>4
<1> QED BY <1>5 DEF Max

\* The largest of the first k positions is the k-th.
LEMMA MaxOfPrefix ==
    ASSUME NEW n \in Nat, NEW k \in 1 .. n
    PROVE  Max(1 .. k) = k /\ (1 .. k) \ {Max(1 .. k)} = 1 .. k - 1
<1> DEFINE s == 1 .. k
<1>0. s \in SUBSET (1 .. k) /\ k \in s
  OBVIOUS
<1> HIDE DEF s
<1>1. Max(s) \in s /\ \A y \in s : Max(s) >= y
  <2>1. s # {} /\ k \in Nat
    BY <1>0
  <2> QED BY <1>0, <2>1, MaxProperty
<1> USE DEF s
<1>2. Max(1 .. k) = k
  BY <1>1
<1> QED BY <1>2

\* The equation of a fold over the positions, the last one outermost.
IsFold(h, n, base, g) ==
    \A s \in SUBSET (1 .. n) :
        h[s] = IF s = {} THEN base ELSE g[<<h[s \ {Max(s)}], Max(s)>>]

\* A fold is a recursive function on the sets of positions, and it exists.
LEMMA FoldExists ==
    ASSUME NEW n \in Nat, NEW U, NEW base \in U, NEW g \in [U \X (1 .. n) -> U]
    PROVE  \E h \in [SUBSET (1 .. n) -> U] : IsFold(h, n, base, g)
<1> DEFINE Solves(k, h) == h = [s \in SUBSET (1 .. k) |->
                      IF s = {} THEN base ELSE g[<<h[s \ {Max(s)}], Max(s)>>]]
           Solved == {k \in 0 .. n : \E h \in [SUBSET (1 .. k) -> U] : Solves(k, h)}
<1>1. 0 \in Solved
  <2> DEFINE h == [s \in SUBSET (1 .. 0) |-> base]
  <2>1. \A s \in SUBSET (1 .. 0) : s = {}
    OBVIOUS
  <2>2. h \in [SUBSET (1 .. 0) -> U]
    OBVIOUS
  <2>3. Solves(0, h)
    BY <2>1
  <2> QED BY <2>2, <2>3
<1>2. ASSUME NEW k \in 1 .. n, k - 1 \in Solved PROVE k \in Solved
  <2>1. PICK h \in [SUBSET (1 .. k - 1) -> U] : Solves(k - 1, h)
    BY <1>2
  <2> DEFINE e == [s \in SUBSET (1 .. k) |-> IF k \in s THEN g[<<h[s \ {k}], k>>] ELSE h[s]]
  <2>2. \A s \in SUBSET (1 .. k) : /\ k \in s => s \ {k} \in SUBSET (1 .. k - 1)
                                   /\ k \notin s => s \in SUBSET (1 .. k - 1)
    OBVIOUS
  <2>3. e \in [SUBSET (1 .. k) -> U]
    BY <2>2
  <2>4. ASSUME NEW s \in SUBSET (1 .. k)
        PROVE  e[s] = IF s = {} THEN base ELSE g[<<e[s \ {Max(s)}], Max(s)>>]
    <3>1. CASE k \in s
      <4>1. Max(s) \in s /\ \A y \in s : Max(s) >= y
        <5>1. s # {} /\ k \in Nat
          BY <3>1
        <5> QED BY <5>1, MaxProperty
      <4>2. Max(s) = k
        <5>1. Max(s) \in 1 .. k /\ Max(s) >= k
          <6> HIDE DEF e, Solves, Solved
          <6> QED BY <3>1, <4>1
        <5> QED BY <5>1
      <4>3. s \ {k} \in SUBSET (1 .. k) /\ k \notin s \ {k}
        OBVIOUS
      <4>4. e[s \ {k}] = h[s \ {k}]
        BY <4>3
      <4> QED BY <3>1, <4>2, <4>4
    <3>2. CASE k \notin s /\ s = {}
      <4>1. {} \in SUBSET (1 .. k - 1)
        OBVIOUS
      <4>2. h[{}] = base
        BY <2>1, <4>1
      <4> QED BY <3>2, <4>2
    <3>3. CASE k \notin s /\ s # {}
      <4>1. s \in SUBSET (1 .. k - 1)
        BY <3>3
      <4>2. Max(s) \in s
        <5>1. k \in Nat
          OBVIOUS
        <5> QED BY <3>3, <5>1, MaxProperty
      <4>3. s \ {Max(s)} \in SUBSET (1 .. k - 1)
        BY <4>1
      <4>4. h[s] = g[<<h[s \ {Max(s)}], Max(s)>>]
        BY <2>1, <4>1, <3>3
      <4>5. e[s] = h[s] 
        BY <3>3
      <4>6. s \ {Max(s)} \in SUBSET (1 .. k) /\ k \notin s \ {Max(s)}
        BY <4>1, <3>3
      <4>7. e[s \ {Max(s)}] = h[s \ {Max(s)}]
        BY <4>6
      <4> QED BY <3>3, <4>4, <4>5, <4>7
    <3> QED BY <3>1, <3>2, <3>3
  <2>5. Solves(k, e)
    <3> DEFINE r == [s \in SUBSET (1 .. k) |->
                      IF s = {} THEN base ELSE g[<<e[s \ {Max(s)}], Max(s)>>]]
    <3>1. e = [s \in SUBSET (1 .. k) |-> e[s]]
      OBVIOUS
    <3> HIDE DEF e
    <3>2. e = r
      BY <3>1, <2>4
    <3> QED BY <3>2
  <2> HIDE DEF e, Solves
  <2> QED BY <2>3, <2>5
<1>3. 0 .. n \subseteq Solved
  <2> HIDE DEF Solved
  <2> QED BY <1>1, <1>2, UpTo
<1>4. n \in Solved
  <2> HIDE DEF Solved
  <2> QED BY <1>3
<1> QED BY <1>4 DEF IsFold

\* What the walk has after each position: f[k] after the first k.
IsWalk(f, n, base, g) == f[0] = base /\ \A k \in 1 .. n : f[k] = g[<<f[k - 1], k>>]

\* The recursive function of a fold, along the prefixes of the positions.
Climbs(h, n, U, base, g) ==
    /\ h[{}] = base
    /\ \A k \in 1 .. n : h[1 .. k - 1] \in U => h[1 .. k] = g[<<h[1 .. k - 1], k>>]

Walks(n, U, base, g, last) ==
    \E f \in [0 .. n -> U] : IsWalk(f, n, base, g) /\ f[n] = last

\* A fold is a walk over the positions.
LEMMA FoldPrefixes ==
    ASSUME NEW n \in Nat, NEW U, NEW base \in U, NEW g \in [U \X (1 .. n) -> U], NEW h,
           Climbs(h, n, U, base, g)
    PROVE  Walks(n, U, base, g, h[1 .. n])
<1> DEFINE Typed == {k \in 0 .. n : h[1 .. k] \in U}
           f     == [k \in 0 .. n |-> h[1 .. k]]
<1>1. 1 .. 0 = {}
  OBVIOUS
<1>2. 0 \in Typed
  BY <1>1 DEF Climbs
<1>3. ASSUME NEW k \in 1 .. n, k - 1 \in Typed PROVE k \in Typed
  <2>1. h[1 .. k] = g[<<h[1 .. k - 1], k>>] /\ h[1 .. k - 1] \in U
    BY <1>3 DEF Climbs
  <2> QED BY <2>1
<1>4. 0 .. n \subseteq Typed
  <2> HIDE DEF Typed
  <2> QED BY <1>2, <1>3, UpTo
<1>5. f \in [0 .. n -> U]
  BY <1>4
<1>6. IsWalk(f, n, base, g)
  BY <1>1, <1>4 DEF IsWalk, Climbs
<1>7. f[n] = h[1 .. n]
  OBVIOUS
<1> HIDE DEF f
<1> QED BY <1>5, <1>6, <1>7 DEF Walks

\* The filter, label by label: f[k] is what it has after k labels of A.
FilterClosed(A, L, va, U) ==
    /\ [ok |-> TRUE, j |-> 1, data |-> << >>] \in U
    /\ \A acc \in U, i \in 1 .. Len(A) : FilterStep(A, L, va, acc, i) \in U
IsFilter(A, L, va, f) ==
    /\ f[0] = [ok |-> TRUE, j |-> 1, data |-> << >>]
    /\ \A k \in 1 .. Len(A) : f[k] = FilterStep(A, L, va, f[k - 1], k)
    /\ Filtered(A, L, va) = f[Len(A)]
LEMMA FilteredPrefixes ==
    ASSUME NEW A, Len(A) \in Nat, DOMAIN A = 1 .. Len(A), NEW L, NEW va, NEW U,
           FilterClosed(A, L, va, U)
    PROVE  \E f \in [0 .. Len(A) -> U] : IsFilter(A, L, va, f)
<1> DEFINE n    == Len(A)
           at   == [i \in DOMAIN A |-> i]
           base == [ok |-> TRUE, j |-> 1, data |-> << >>]
           g    == [p \in U \X (1 .. n) |-> FilterStep(A, L, va, p[1], p[2])]
           Solves(h) == h = [s \in SUBSET (1 .. n) |->
                                IF s = {} THEN base
                                ELSE FilterStep(A, L, va, h[s \ {Max(s)}], at[Max(s)])]
           h    == CHOOSE h : Solves(h)
<1>1. Filtered(A, L, va) = h[1 .. n]
  <2>1. DOMAIN at = 1 .. n
    OBVIOUS
  <2>2. Filtered(A, L, va) =
          (CHOOSE e : e = [s \in SUBSET (DOMAIN at) |->
                IF s = {} THEN base
                ELSE FilterStep(A, L, va, e[s \ {Max(s)}], at[Max(s)])])[DOMAIN at]
    BY DEF Filtered, Walk, FoldLeft, MapThenFoldSet
  <2> QED BY <2>1, <2>2
<1>2. \A s \in SUBSET (1 .. n) : s # {} => Max(s) \in 1 .. n /\ at[Max(s)] = Max(s)
  BY MaxProperty
<1>3. n \in Nat /\ base \in U /\ g \in [U \X (1 .. n) -> U]
  BY DEF FilterClosed
<1>4. \E r : Solves(r)
  <2>1. \E r \in [SUBSET (1 .. n) -> U] : IsFold(r, n, base, g)
    <3> HIDE DEF g, base, n, at, Solves, h
    <3> QED BY <1>3, FoldExists
  <2>2. PICK r \in [SUBSET (1 .. n) -> U] : IsFold(r, n, base, g)
    <3> HIDE DEF g, base, n, at, Solves, h
    <3> QED BY <2>1
  <2>3. \A s \in SUBSET (1 .. n) : s # {} =>
           g[<<r[s \ {Max(s)}], Max(s)>>] =
               FilterStep(A, L, va, r[s \ {Max(s)}], at[Max(s)])
    BY <1>2
  <2>4. Solves(r)
    BY <2>2, <2>3 DEF IsFold
  <2> QED BY <2>4
<1>5. Solves(h)
  <2> HIDE DEF Solves
  <2> QED BY <1>4
<1> HIDE DEF h
<1>6. h[{}] = base
  BY <1>5
<1>7. ASSUME NEW k \in 1 .. n
      PROVE  h[1 .. k] = FilterStep(A, L, va, h[1 .. k - 1], k)
  <2>1. 1 .. k \in SUBSET (1 .. n) /\ 1 .. k # {}
    <3>1. k \in 1 .. k
      OBVIOUS
    <3>2. 1 .. k \subseteq 1 .. n
      BY <1>3
    <3> QED BY <3>1, <3>2
  <2>2. h[1 .. k] = FilterStep(A, L, va, h[(1 .. k) \ {Max(1 .. k)}], at[Max(1 .. k)])
    BY <1>5, <2>1
  <2>3. Max(1 .. k) = k /\ (1 .. k) \ {Max(1 .. k)} = 1 .. k - 1
    BY <1>3, MaxOfPrefix
  <2> QED BY <1>2, <2>1, <2>2, <2>3
<1>8. \E f \in [0 .. n -> U] : IsWalk(f, n, base, g) /\ f[n] = h[1 .. n]
  <2>1. Climbs(h, n, U, base, g)
    BY <1>6, <1>7 DEF Climbs
  <2> HIDE DEF g, base, n, at, Solves
  <2>2. Walks(n, U, base, g, h[1 .. n])
    BY <2>1, <1>3, FoldPrefixes
  <2> QED BY <2>2 DEF Walks
<1>9. PICK f \in [0 .. n -> U] : IsWalk(f, n, base, g) /\ f[n] = h[1 .. n]
  <2> HIDE DEF g, base, n, at, Solves
  <2> QED BY <1>8
<1>10. \A k \in 1 .. n : f[k] = FilterStep(A, L, va, f[k - 1], k)
  <2>1. \A k \in 1 .. n : k - 1 \in 0 .. n
    OBVIOUS
  <2> QED BY <2>1, <1>9 DEF IsWalk
<1> QED BY <1>1, <1>9, <1>10 DEF IsWalk, IsFilter

\* The join that adds.
JaddClosed(A, L, va, vb, U) ==
    /\ [ok |-> TRUE, j |-> 1, data |-> va] \in U
    /\ \A acc \in U, i \in 1 .. Len(A) : JoinStep(A, L, vb, Plus, acc, i) \in U
IsJadd(A, L, va, vb, f) ==
    /\ f[0] = [ok |-> TRUE, j |-> 1, data |-> va]
    /\ \A k \in 1 .. Len(A) : f[k] = JoinStep(A, L, vb, Plus, f[k - 1], k)
    /\ Join(A, L, va, vb, Plus) = f[Len(A)]
LEMMA JaddPrefixes ==
    ASSUME NEW A, Len(A) \in Nat, DOMAIN A = 1 .. Len(A), NEW L, NEW va, NEW vb, NEW U,
           JaddClosed(A, L, va, vb, U)
    PROVE  \E f \in [0 .. Len(A) -> U] : IsJadd(A, L, va, vb, f)
<1> DEFINE n    == Len(A)
           at   == [i \in DOMAIN A |-> i]
           base == [ok |-> TRUE, j |-> 1, data |-> va]
           g    == [p \in U \X (1 .. n) |-> JoinStep(A, L, vb, Plus, p[1], p[2])]
           Solves(h) == h = [s \in SUBSET (1 .. n) |->
                                IF s = {} THEN base
                                ELSE JoinStep(A, L, vb, Plus, h[s \ {Max(s)}], at[Max(s)])]
           h    == CHOOSE h : Solves(h)
<1>1. Join(A, L, va, vb, Plus) = h[1 .. n]
  <2>1. DOMAIN at = 1 .. n
    OBVIOUS
  <2>2. Join(A, L, va, vb, Plus) =
          (CHOOSE e : e = [s \in SUBSET (DOMAIN at) |->
                IF s = {} THEN base
                ELSE JoinStep(A, L, vb, Plus, e[s \ {Max(s)}], at[Max(s)])])[DOMAIN at]
    BY DEF Join, Walk, FoldLeft, MapThenFoldSet
  <2> QED BY <2>1, <2>2
<1>2. \A s \in SUBSET (1 .. n) : s # {} => Max(s) \in 1 .. n /\ at[Max(s)] = Max(s)
  BY MaxProperty
<1>3. n \in Nat /\ base \in U /\ g \in [U \X (1 .. n) -> U]
  BY DEF JaddClosed
<1>4. \E r : Solves(r)
  <2>1. \E r \in [SUBSET (1 .. n) -> U] : IsFold(r, n, base, g)
    <3> HIDE DEF g, base, n, at, Solves, h
    <3> QED BY <1>3, FoldExists
  <2>2. PICK r \in [SUBSET (1 .. n) -> U] : IsFold(r, n, base, g)
    <3> HIDE DEF g, base, n, at, Solves, h
    <3> QED BY <2>1
  <2>3. \A s \in SUBSET (1 .. n) : s # {} =>
           g[<<r[s \ {Max(s)}], Max(s)>>] =
               JoinStep(A, L, vb, Plus, r[s \ {Max(s)}], at[Max(s)])
    BY <1>2
  <2>4. Solves(r)
    BY <2>2, <2>3 DEF IsFold
  <2> QED BY <2>4
<1>5. Solves(h)
  <2> HIDE DEF Solves
  <2> QED BY <1>4
<1> HIDE DEF h
<1>6. h[{}] = base
  BY <1>5
<1>7. ASSUME NEW k \in 1 .. n
      PROVE  h[1 .. k] = JoinStep(A, L, vb, Plus, h[1 .. k - 1], k)
  <2>1. 1 .. k \in SUBSET (1 .. n) /\ 1 .. k # {}
    <3>1. k \in 1 .. k
      OBVIOUS
    <3>2. 1 .. k \subseteq 1 .. n
      BY <1>3
    <3> QED BY <3>1, <3>2
  <2>2. h[1 .. k] = JoinStep(A, L, vb, Plus, h[(1 .. k) \ {Max(1 .. k)}], at[Max(1 .. k)])
    BY <1>5, <2>1
  <2>3. Max(1 .. k) = k /\ (1 .. k) \ {Max(1 .. k)} = 1 .. k - 1
    BY <1>3, MaxOfPrefix
  <2> QED BY <1>2, <2>1, <2>2, <2>3
<1>8. \E f \in [0 .. n -> U] : IsWalk(f, n, base, g) /\ f[n] = h[1 .. n]
  <2>1. Climbs(h, n, U, base, g)
    BY <1>6, <1>7 DEF Climbs
  <2> HIDE DEF g, base, n, at, Solves
  <2>2. Walks(n, U, base, g, h[1 .. n])
    BY <2>1, <1>3, FoldPrefixes
  <2> QED BY <2>2 DEF Walks
<1>9. PICK f \in [0 .. n -> U] : IsWalk(f, n, base, g) /\ f[n] = h[1 .. n]
  <2> HIDE DEF g, base, n, at, Solves
  <2> QED BY <1>8
<1>10. \A k \in 1 .. n : f[k] = JoinStep(A, L, vb, Plus, f[k - 1], k)
  <2>1. \A k \in 1 .. n : k - 1 \in 0 .. n
    OBVIOUS
  <2> QED BY <2>1, <1>9 DEF IsWalk
<1> QED BY <1>1, <1>9, <1>10 DEF IsWalk, IsJadd

\* The join that replaces.
JupdClosed(A, L, va, vb, U) ==
    /\ [ok |-> TRUE, j |-> 1, data |-> va] \in U
    /\ \A acc \in U, i \in 1 .. Len(A) : JoinStep(A, L, vb, SecondOf, acc, i) \in U
IsJupd(A, L, va, vb, f) ==
    /\ f[0] = [ok |-> TRUE, j |-> 1, data |-> va]
    /\ \A k \in 1 .. Len(A) : f[k] = JoinStep(A, L, vb, SecondOf, f[k - 1], k)
    /\ Join(A, L, va, vb, SecondOf) = f[Len(A)]
LEMMA JupdPrefixes ==
    ASSUME NEW A, Len(A) \in Nat, DOMAIN A = 1 .. Len(A), NEW L, NEW va, NEW vb, NEW U,
           JupdClosed(A, L, va, vb, U)
    PROVE  \E f \in [0 .. Len(A) -> U] : IsJupd(A, L, va, vb, f)
<1> DEFINE n    == Len(A)
           at   == [i \in DOMAIN A |-> i]
           base == [ok |-> TRUE, j |-> 1, data |-> va]
           g    == [p \in U \X (1 .. n) |-> JoinStep(A, L, vb, SecondOf, p[1], p[2])]
           Solves(h) == h = [s \in SUBSET (1 .. n) |->
                                IF s = {} THEN base
                                ELSE JoinStep(A, L, vb, SecondOf, h[s \ {Max(s)}], at[Max(s)])]
           h    == CHOOSE h : Solves(h)
<1>1. Join(A, L, va, vb, SecondOf) = h[1 .. n]
  <2>1. DOMAIN at = 1 .. n
    OBVIOUS
  <2>2. Join(A, L, va, vb, SecondOf) =
          (CHOOSE e : e = [s \in SUBSET (DOMAIN at) |->
                IF s = {} THEN base
                ELSE JoinStep(A, L, vb, SecondOf, e[s \ {Max(s)}], at[Max(s)])])[DOMAIN at]
    BY DEF Join, Walk, FoldLeft, MapThenFoldSet
  <2> QED BY <2>1, <2>2
<1>2. \A s \in SUBSET (1 .. n) : s # {} => Max(s) \in 1 .. n /\ at[Max(s)] = Max(s)
  BY MaxProperty
<1>3. n \in Nat /\ base \in U /\ g \in [U \X (1 .. n) -> U]
  BY DEF JupdClosed
<1>4. \E r : Solves(r)
  <2>1. \E r \in [SUBSET (1 .. n) -> U] : IsFold(r, n, base, g)
    <3> HIDE DEF g, base, n, at, Solves, h
    <3> QED BY <1>3, FoldExists
  <2>2. PICK r \in [SUBSET (1 .. n) -> U] : IsFold(r, n, base, g)
    <3> HIDE DEF g, base, n, at, Solves, h
    <3> QED BY <2>1
  <2>3. \A s \in SUBSET (1 .. n) : s # {} =>
           g[<<r[s \ {Max(s)}], Max(s)>>] =
               JoinStep(A, L, vb, SecondOf, r[s \ {Max(s)}], at[Max(s)])
    BY <1>2
  <2>4. Solves(r)
    BY <2>2, <2>3 DEF IsFold
  <2> QED BY <2>4
<1>5. Solves(h)
  <2> HIDE DEF Solves
  <2> QED BY <1>4
<1> HIDE DEF h
<1>6. h[{}] = base
  BY <1>5
<1>7. ASSUME NEW k \in 1 .. n
      PROVE  h[1 .. k] = JoinStep(A, L, vb, SecondOf, h[1 .. k - 1], k)
  <2>1. 1 .. k \in SUBSET (1 .. n) /\ 1 .. k # {}
    <3>1. k \in 1 .. k
      OBVIOUS
    <3>2. 1 .. k \subseteq 1 .. n
      BY <1>3
    <3> QED BY <3>1, <3>2
  <2>2. h[1 .. k] = JoinStep(A, L, vb, SecondOf, h[(1 .. k) \ {Max(1 .. k)}], at[Max(1 .. k)])
    BY <1>5, <2>1
  <2>3. Max(1 .. k) = k /\ (1 .. k) \ {Max(1 .. k)} = 1 .. k - 1
    BY <1>3, MaxOfPrefix
  <2> QED BY <1>2, <2>1, <2>2, <2>3
<1>8. \E f \in [0 .. n -> U] : IsWalk(f, n, base, g) /\ f[n] = h[1 .. n]
  <2>1. Climbs(h, n, U, base, g)
    BY <1>6, <1>7 DEF Climbs
  <2> HIDE DEF g, base, n, at, Solves
  <2>2. Walks(n, U, base, g, h[1 .. n])
    BY <2>1, <1>3, FoldPrefixes
  <2> QED BY <2>2 DEF Walks
<1>9. PICK f \in [0 .. n -> U] : IsWalk(f, n, base, g) /\ f[n] = h[1 .. n]
  <2> HIDE DEF g, base, n, at, Solves
  <2> QED BY <1>8
<1>10. \A k \in 1 .. n : f[k] = JoinStep(A, L, vb, SecondOf, f[k - 1], k)
  <2>1. \A k \in 1 .. n : k - 1 \in 0 .. n
    OBVIOUS
  <2> QED BY <2>1, <1>9 DEF IsWalk
<1> QED BY <1>1, <1>9, <1>10 DEF IsWalk, IsJupd

\* The union.
UnionClosed(A, L, U) ==
    /\ [j |-> 1, data |-> << >>] \in U
    /\ \A acc \in U, i \in 1 .. Len(A) : UnionStep(A, L, acc, i) \in U
IsUnion(A, L, f) ==
    /\ f[0] = [j |-> 1, data |-> << >>]
    /\ \A k \in 1 .. Len(A) : f[k] = UnionStep(A, L, f[k - 1], k)
    /\ United(A, L) = f[Len(A)].data
LEMMA UnitedPrefixes ==
    ASSUME NEW A, Len(A) \in Nat, DOMAIN A = 1 .. Len(A), NEW L, NEW U,
           UnionClosed(A, L, U)
    PROVE  \E f \in [0 .. Len(A) -> U] : IsUnion(A, L, f)
<1> DEFINE n    == Len(A)
           at   == [i \in DOMAIN A |-> i]
           base == [j |-> 1, data |-> << >>]
           g    == [p \in U \X (1 .. n) |-> UnionStep(A, L, p[1], p[2])]
           Solves(h) == h = [s \in SUBSET (1 .. n) |->
                                IF s = {} THEN base
                                ELSE UnionStep(A, L, h[s \ {Max(s)}], at[Max(s)])]
           h    == CHOOSE h : Solves(h)
<1>1. United(A, L) = h[1 .. n].data
  <2>1. DOMAIN at = 1 .. n
    OBVIOUS
  <2>2. United(A, L) =
          (CHOOSE e : e = [s \in SUBSET (DOMAIN at) |->
                IF s = {} THEN base
                ELSE UnionStep(A, L, e[s \ {Max(s)}], at[Max(s)])])[DOMAIN at].data
    BY DEF United, Walk, FoldLeft, MapThenFoldSet
  <2> QED BY <2>1, <2>2
<1>2. \A s \in SUBSET (1 .. n) : s # {} => Max(s) \in 1 .. n /\ at[Max(s)] = Max(s)
  BY MaxProperty
<1>3. n \in Nat /\ base \in U /\ g \in [U \X (1 .. n) -> U]
  BY DEF UnionClosed
<1>4. \E r : Solves(r)
  <2>1. \E r \in [SUBSET (1 .. n) -> U] : IsFold(r, n, base, g)
    <3> HIDE DEF g, base, n, at, Solves, h
    <3> QED BY <1>3, FoldExists
  <2>2. PICK r \in [SUBSET (1 .. n) -> U] : IsFold(r, n, base, g)
    <3> HIDE DEF g, base, n, at, Solves, h
    <3> QED BY <2>1
  <2>3. \A s \in SUBSET (1 .. n) : s # {} =>
           g[<<r[s \ {Max(s)}], Max(s)>>] =
               UnionStep(A, L, r[s \ {Max(s)}], at[Max(s)])
    BY <1>2
  <2>4. Solves(r)
    BY <2>2, <2>3 DEF IsFold
  <2> QED BY <2>4
<1>5. Solves(h)
  <2> HIDE DEF Solves
  <2> QED BY <1>4
<1> HIDE DEF h
<1>6. h[{}] = base
  BY <1>5
<1>7. ASSUME NEW k \in 1 .. n
      PROVE  h[1 .. k] = UnionStep(A, L, h[1 .. k - 1], k)
  <2>1. 1 .. k \in SUBSET (1 .. n) /\ 1 .. k # {}
    <3>1. k \in 1 .. k
      OBVIOUS
    <3>2. 1 .. k \subseteq 1 .. n
      BY <1>3
    <3> QED BY <3>1, <3>2
  <2>2. h[1 .. k] = UnionStep(A, L, h[(1 .. k) \ {Max(1 .. k)}], at[Max(1 .. k)])
    BY <1>5, <2>1
  <2>3. Max(1 .. k) = k /\ (1 .. k) \ {Max(1 .. k)} = 1 .. k - 1
    BY <1>3, MaxOfPrefix
  <2> QED BY <1>2, <2>1, <2>2, <2>3
<1>8. \E f \in [0 .. n -> U] : IsWalk(f, n, base, g) /\ f[n] = h[1 .. n]
  <2>1. Climbs(h, n, U, base, g)
    BY <1>6, <1>7 DEF Climbs
  <2> HIDE DEF g, base, n, at, Solves
  <2>2. Walks(n, U, base, g, h[1 .. n])
    BY <2>1, <1>3, FoldPrefixes
  <2> QED BY <2>2 DEF Walks
<1>9. PICK f \in [0 .. n -> U] : IsWalk(f, n, base, g) /\ f[n] = h[1 .. n]
  <2> HIDE DEF g, base, n, at, Solves
  <2> QED BY <1>8
<1>10. \A k \in 1 .. n : f[k] = UnionStep(A, L, f[k - 1], k)
  <2>1. \A k \in 1 .. n : k - 1 \in 0 .. n
    OBVIOUS
  <2> QED BY <2>1, <1>9 DEF IsWalk
<1> QED BY <1>1, <1>9, <1>10 DEF IsWalk, IsUnion

-----------------------------------------------------------------------------
(***************************************************************************)
(* What the joins compute has a type, so they map machines to machines.    *)
(***************************************************************************)

\* What the filter carries.
FilterStates(L) == [ok : BOOLEAN, j : 1 .. Len(L) + 1, data : Seq(Amounts)]

LEMMA FilterIsClosed ==
    ASSUME NEW A \in Seq(Amounts), NEW L \in Seq(Amounts), NEW va \in Seq(Amounts),
           Len(va) = Len(A)
    PROVE  FilterClosed(A, L, va, FilterStates(L))
<1> DEFINE base == [ok |-> TRUE, j |-> 1, data |-> << >>]
<1>1. base \in FilterStates(L)
  BY DEF FilterStates
<1>2. ASSUME NEW acc \in FilterStates(L), NEW i \in 1 .. Len(A)
      PROVE  FilterStep(A, L, va, acc, i) \in FilterStates(L)
  <2>1. va[i] \in Amounts
    BY ElementOfSeq
  <2>2. Append(acc.data, va[i]) \in Seq(Amounts)
    BY <2>1, AppendProperties DEF FilterStates
  <2>3. ~ Ahead(L, acc.j, A[i]) => acc.j + 1 \in 1 .. Len(L) + 1
    BY DEF Ahead, FilterStates
  <2> QED BY <2>2, <2>3 DEF FilterStep, FilterStates
<1> QED BY <1>1, <1>2 DEF FilterClosed

LEMMA FilteredType ==
    ASSUME NEW A \in Seq(Amounts), NEW L \in Seq(Amounts), NEW va \in Seq(Amounts),
           Len(va) = Len(A)
    PROVE  Filtered(A, L, va) \in FilterStates(L)
<1>1. Len(A) \in Nat /\ DOMAIN A = 1 .. Len(A)
  OBVIOUS
<1> QED BY <1>1, FilterIsClosed, FilteredPrefixes DEF IsFilter

\* What a join of two vectors carries.
JoinStates(L, n) == [ok : BOOLEAN, j : 1 .. Len(L) + 1, data : [1 .. n -> Nat]]

LEMMA JoinStepType ==
    ASSUME NEW A, NEW L \in Seq(Amounts), NEW vb \in Seq(Amounts), Len(vb) = Len(L),
           NEW n, NEW i \in 1 .. n, NEW acc \in JoinStates(L, n)
    PROVE  /\ JoinStep(A, L, vb, Plus, acc, i) \in JoinStates(L, n)
           /\ JoinStep(A, L, vb, SecondOf, acc, i) \in JoinStates(L, n)
<1>1. ~ Ahead(L, acc.j, A[i]) => acc.j + 1 \in 1 .. Len(L) + 1 /\ acc.j \in 1 .. Len(vb)
  BY DEF Ahead, JoinStates
<1>2. ~ Ahead(L, acc.j, A[i]) => vb[acc.j] \in Nat
  <2>1. \A w \in Amounts : w \in Nat
    BY AmountAssumption DEF Amounts
  <2> QED BY <1>1, <2>1, ElementOfSeq
<1>3. acc.data[i] \in Nat /\ acc.data \in [1 .. n -> Nat]
  BY DEF JoinStates
<1>4. \A w \in Nat : [acc.data EXCEPT ![i] = w] \in [1 .. n -> Nat]
  BY <1>3
<1>5. ASSUME NEW w \in Nat, ~ Ahead(L, acc.j, A[i])
      PROVE  [acc EXCEPT !.j = @ + 1, !.data[i] = w] \in JoinStates(L, n)
  BY <1>1, <1>4, <1>5 DEF JoinStates
<1>6. [acc EXCEPT !.ok = FALSE] \in JoinStates(L, n)
  BY DEF JoinStates
<1>7. JoinStep(A, L, vb, Plus, acc, i) \in JoinStates(L, n)
  <2>1. ~ Ahead(L, acc.j, A[i]) => acc.data[i] + vb[acc.j] \in Nat
    BY <1>2, <1>3
  <2> QED BY <2>1, <1>5, <1>6 DEF JoinStep, Plus
<1>8. JoinStep(A, L, vb, SecondOf, acc, i) \in JoinStates(L, n)
  BY <1>2, <1>5, <1>6 DEF JoinStep, SecondOf
<1> QED BY <1>7, <1>8

LEMMA JoinsAreClosed ==
    ASSUME NEW A \in Seq(Amounts), NEW L \in Seq(Amounts),
           NEW va \in Seq(Amounts), Len(va) = Len(A),
           NEW vb \in Seq(Amounts), Len(vb) = Len(L)
    PROVE  /\ JaddClosed(A, L, va, vb, JoinStates(L, Len(A)))
           /\ JupdClosed(A, L, va, vb, JoinStates(L, Len(A)))
<1>1. [ok |-> TRUE, j |-> 1, data |-> va] \in JoinStates(L, Len(A))
  <2>1. \A w \in Amounts : w \in Nat
    BY AmountAssumption DEF Amounts
  <2>2. va \in [1 .. Len(A) -> Nat]
    BY <2>1
  <2> QED BY <2>2 DEF JoinStates
<1>2. JaddClosed(A, L, va, vb, JoinStates(L, Len(A)))
  BY <1>1, JoinStepType DEF JaddClosed
<1>3. JupdClosed(A, L, va, vb, JoinStates(L, Len(A)))
  BY <1>1, JoinStepType DEF JupdClosed
<1> QED BY <1>2, <1>3

LEMMA JoinedType ==
    ASSUME NEW A \in Seq(Amounts), NEW L \in Seq(Amounts),
           NEW va \in Seq(Amounts), Len(va) = Len(A),
           NEW vb \in Seq(Amounts), Len(vb) = Len(L)
    PROVE  /\ Join(A, L, va, vb, Plus) \in JoinStates(L, Len(A))
           /\ Join(A, L, va, vb, SecondOf) \in JoinStates(L, Len(A))
<1>1. Len(A) \in Nat /\ DOMAIN A = 1 .. Len(A)
  OBVIOUS
<1>2. Join(A, L, va, vb, Plus) \in JoinStates(L, Len(A))
  <2>1. \E f \in [0 .. Len(A) -> JoinStates(L, Len(A))] : IsJadd(A, L, va, vb, f)
    BY <1>1, JoinsAreClosed, JaddPrefixes
  <2> QED BY <1>1, <2>1 DEF IsJadd
<1>3. Join(A, L, va, vb, SecondOf) \in JoinStates(L, Len(A))
  <2>1. \E f \in [0 .. Len(A) -> JoinStates(L, Len(A))] : IsJupd(A, L, va, vb, f)
    BY <1>1, JoinsAreClosed, JupdPrefixes
  <2> QED BY <1>1, <2>1 DEF IsJupd
<1> QED BY <1>2, <1>3

\* The smallest of some positions.
LEMMA MinProperty ==
    ASSUME NEW n \in Nat, NEW s \in SUBSET (1 .. n), s # {}
    PROVE  Min(s) \in s /\ \A y \in s : Min(s) <= y
<1> DEFINE Less == {ss \in Nat \X Nat : ss[1] < ss[2]}
<1>1. IsWellFoundedOn(Less, Nat)
  BY NatLessThanWellFounded DEF OpToRel
<1>2. s \subseteq Nat
  OBVIOUS
<1>3. \E x \in s : \A y \in s : ~ (<<y, x>> \in Less)
  <2> HIDE DEF Less
  <2> QED BY <1>1, <1>2, WFMin
<1>4. \E x \in s : \A y \in s : x <= y
  <2>1. PICK x \in s : \A y \in s : ~ (<<y, x>> \in Less)
    BY <1>3
  <2>2. ASSUME NEW y \in s PROVE x <= y
    <3>1. x \in Nat /\ y \in Nat
      BY <1>2
    <3>2. ~ (<<y, x>> \in Less)
      BY <2>1
    <3> QED BY <3>1, <3>2
  <2> QED BY <2>2
<1> QED BY <1>4 DEF Min

\* What the union carries.
UnionStates(L) == [j : 1 .. Len(L) + 1, data : Seq(Amounts)]

LEMMA UnionStepType ==
    ASSUME NEW A \in Seq(Amounts), NEW L \in Seq(Amounts), NEW i \in 1 .. Len(A),
           NEW acc \in UnionStates(L)
    PROVE  UnionStep(A, L, acc, i) \in UnionStates(L)
<1> DEFINE rest    == SubSeq(L, acc.j, Len(L))
           next    == SelectInSeq(rest, LAMBDA b : b >= A[i])
           smaller == SubSeq(rest, 1, next - 1)
<1>1. acc.j \in 1 .. Len(L) + 1 /\ acc.data \in Seq(Amounts) /\ A[i] \in Amounts
  BY ElementOfSeq DEF UnionStates
<1>2. /\ rest \in Seq(Amounts)
      /\ Len(rest) = IF acc.j <= Len(L) THEN Len(L) - acc.j + 1 ELSE 0
  <2>1. \A k \in acc.j .. Len(L) : L[k] \in Amounts
    BY <1>1, ElementOfSeq
  <2> QED BY <1>1, <2>1, SubSeqProperties
<1>3. next \in 0 .. Len(rest)
  <2> DEFINE I == {k \in 1 .. Len(rest) : rest[k] >= A[i]}
  <2>1. next = IF I # {} THEN Min(I) ELSE 0
    BY DEF SelectInSeq
  <2>2. Len(rest) \in Nat
    BY <1>2
  <2>3. I \in SUBSET (1 .. Len(rest))
    OBVIOUS
  <2>4. I # {} => Min(I) \in 1 .. Len(rest)
    <3> HIDE DEF I, rest
    <3> QED BY <2>2, <2>3, MinProperty
  <2>5. next \in 0 .. Len(rest)
    <3> HIDE DEF I, next, rest
    <3> QED BY <2>1, <2>2, <2>4
  <2> QED BY <2>5
<1>4. /\ smaller \in Seq(Amounts)
      /\ Len(smaller) = IF next >= 1 THEN next - 1 ELSE 0
  <2> HIDE DEF rest, next
  <2>1. \A k \in 1 .. next - 1 : rest[k] \in Amounts
    BY <1>2, <1>3, ElementOfSeq
  <2>2. next - 1 \in Int
    BY <1>2, <1>3
  <2> QED BY <2>1, <2>2, SubSeqProperties, <1>2, <1>3
<1>5. /\ Append(acc.data, A[i]) \in Seq(Amounts)
      /\ acc.data \o rest \in Seq(Amounts)
      /\ Append(acc.data \o smaller, A[i]) \in Seq(Amounts)
  <2> HIDE DEF rest, smaller
  <2> QED BY <1>1, <1>2, <1>4, AppendProperties, ConcatProperties
<1>6. CASE rest = << >>
  BY <1>1, <1>5, <1>6 DEF UnionStep, UnionStates
<1>7. CASE rest # << >> /\ next = 0
  BY <1>1, <1>5, <1>7 DEF UnionStep, UnionStates
<1>8. CASE rest # << >> /\ next # 0
  <2>1. acc.j <= Len(L) /\ Len(rest) = Len(L) - acc.j + 1
    <3> HIDE DEF rest
    <3> QED BY <1>2, <1>3, <1>8
  <2>2. acc.j + Len(smaller) + (IF rest[next] = A[i] THEN 1 ELSE 0) \in 1 .. Len(L) + 1
    <3> HIDE DEF rest, next, smaller
    <3>1. next \in 1 .. Len(rest) /\ Len(smaller) = next - 1
      BY <1>2, <1>3, <1>4, <1>8
    <3>2. acc.j \in Nat /\ acc.j >= 1 /\ Len(L) \in Nat /\ acc.j + next <= Len(L) + 1
      BY <1>1, <2>1, <3>1
    <3> QED BY <3>1, <3>2
  <2> QED BY <1>5, <1>8, <2>2 DEF UnionStep, UnionStates
<1> HIDE DEF rest, next, smaller
<1> QED BY <1>6, <1>7, <1>8

LEMMA UnitedType ==
    ASSUME NEW A \in Seq(Amounts), NEW L \in Seq(Amounts)
    PROVE  United(A, L) \in Seq(Amounts)
<1>1. Len(A) \in Nat /\ DOMAIN A = 1 .. Len(A)
  OBVIOUS
<1>2. [j |-> 1, data |-> << >>] \in UnionStates(L)
  BY DEF UnionStates
<1>3. UnionClosed(A, L, UnionStates(L))
  BY <1>2, UnionStepType DEF UnionClosed
<1> QED BY <1>1, <1>3, UnitedPrefixes DEF IsUnion, UnionStates

\* The label instructions map a machine to machines.
LEMMA JfltType ==
    ASSUME NEW m \in Machine, NEW la \in Nat, NEW lb \in Nat
    PROVE  Jflt(m, la, lb) \subseteq Machine
<1> DEFINE A == At(m, la)
           L == At(m, lb)
           kept == Filtered(A.data, L.data, Top(m).data)
<1> SUFFICES ASSUME Reaches(m, la), Reaches(m, lb), Len(Top(m).data) = Len(A.data)
             PROVE  SetTop(m, Vector(kept.data)) \in Machine
  BY DEF Jflt, When
<1>1. Depth(m) > 0 /\ Top(m) \in Operand /\ A \in Operand /\ L \in Operand
  BY DepthType, AtType, TopType DEF Reaches
<1>2. A.data \in Seq(Amounts) /\ L.data \in Seq(Amounts) /\ Top(m).data \in Seq(Amounts)
  BY <1>1, OperandData
<1>3. kept \in FilterStates(L.data)
  <2> HIDE DEF A, L
  <2> QED BY <1>2, FilteredType
<1>4. kept.data \in Seq(Amounts)
  <2> HIDE DEF kept
  <2> QED BY <1>3 DEF FilterStates
<1> HIDE DEF kept
<1> QED BY <1>1, <1>4, OperandsAre, SetTopType

\* The result of a join, when it is representable.
LEMMA RepresentableType ==
    ASSUME NEW n \in Nat, NEW d \in [1 .. n -> Nat], AllRepresentable(d)
    PROVE  d \in Seq(Amounts)
<1>1. d \in [1 .. n -> Amounts]
  BY DEF AllRepresentable, Representable
<1> QED BY <1>1, FunctionIsSeq

LEMMA JaddType ==
    ASSUME NEW m \in Machine, NEW pb \in Nat, NEW la \in Nat, NEW lb \in Nat
    PROVE  Jadd(m, pb, la, lb) \subseteq Machine
<1> DEFINE A == At(m, la).data
           L == At(m, lb).data
           va == Top(m).data
           vb == At(m, pb).data
           joined == Join(A, L, va, vb, Plus)
<1>1. CASE la = lb
  BY <1>1, AddType DEF Jadd, JoinTop
<1>2. CASE la # lb
  <2> SUFFICES ASSUME Below(m, pb), Reaches(m, la), Reaches(m, lb),
                      Len(va) = Len(A), Len(vb) = Len(L), AllRepresentable(joined.data)
               PROVE  SetTop(m, Vector(joined.data)) \in Machine
    BY <1>2 DEF Jadd, JoinTop, When
  <2>1. /\ Depth(m) > 0
        /\ Top(m) \in Operand /\ At(m, pb) \in Operand
        /\ At(m, la) \in Operand /\ At(m, lb) \in Operand
    BY DepthType, AtType, TopType DEF Reaches, Below
  <2>2. A \in Seq(Amounts) /\ L \in Seq(Amounts) /\ va \in Seq(Amounts) /\ vb \in Seq(Amounts)
    BY <2>1, OperandData
  <2>3. joined \in JoinStates(L, Len(A)) /\ Len(A) \in Nat
    <3> HIDE DEF A, L, va, vb
    <3> QED BY <2>2, JoinedType
  <2>4. joined.data \in Seq(Amounts)
    <3> HIDE DEF joined, A
    <3> QED BY <2>3, RepresentableType DEF JoinStates
  <2> HIDE DEF joined
  <2> QED BY <2>1, <2>4, OperandsAre, SetTopType
<1> QED BY <1>1, <1>2

LEMMA JupdType ==
    ASSUME NEW m \in Machine, NEW pb \in Nat, NEW la \in Nat, NEW lb \in Nat
    PROVE  Jupd(m, pb, la, lb) \subseteq Machine
<1> DEFINE A == At(m, la).data
           L == At(m, lb).data
           va == Top(m).data
           vb == At(m, pb).data
           joined == Join(A, L, va, vb, SecondOf)
<1>1. CASE la = lb
  BY <1>1, AddType DEF Jupd, JoinTop
<1>2. CASE la # lb
  <2> SUFFICES ASSUME Below(m, pb), Reaches(m, la), Reaches(m, lb),
                      Len(va) = Len(A), Len(vb) = Len(L), AllRepresentable(joined.data)
               PROVE  SetTop(m, Vector(joined.data)) \in Machine
    BY <1>2 DEF Jupd, JoinTop, When
  <2>1. /\ Depth(m) > 0
        /\ Top(m) \in Operand /\ At(m, pb) \in Operand
        /\ At(m, la) \in Operand /\ At(m, lb) \in Operand
    BY DepthType, AtType, TopType DEF Reaches, Below
  <2>2. A \in Seq(Amounts) /\ L \in Seq(Amounts) /\ va \in Seq(Amounts) /\ vb \in Seq(Amounts)
    BY <2>1, OperandData
  <2>3. joined \in JoinStates(L, Len(A)) /\ Len(A) \in Nat
    <3> HIDE DEF A, L, va, vb
    <3> QED BY <2>2, JoinedType
  <2>4. joined.data \in Seq(Amounts)
    <3> HIDE DEF joined, A
    <3> QED BY <2>3, RepresentableType DEF JoinStates
  <2> HIDE DEF joined
  <2> QED BY <2>1, <2>4, OperandsAre, SetTopType
<1> QED BY <1>1, <1>2

LEMMA LunionType ==
    ASSUME NEW m \in Machine, NEW pos \in Nat
    PROVE  Lunion(m, pos) \subseteq Machine
<1> SUFFICES ASSUME Below(m, pos)
             PROVE  SetTop(m, Labels(United(Top(m).data, At(m, pos).data))) \in Machine
  BY DEF Lunion, When
<1>1. Depth(m) > 0 /\ Top(m) \in Operand /\ At(m, pos) \in Operand
  BY DepthType, AtType, TopType DEF Reaches, Below
<1>2. United(Top(m).data, At(m, pos).data) \in Seq(Amounts)
  BY <1>1, OperandData, UnitedType
<1> QED BY <1>1, <1>2, OperandsAre, SetTopType

-----------------------------------------------------------------------------
(***************************************************************************)
(* The cursor.                                                             *)
(***************************************************************************)
IsLabels(s) == s \in Seq(Amounts) /\ Ascending(s)

\* The labels of L before the cursor j are among the first k of A, and the
\* others are beyond those.
Cursor(A, L, k, j) ==
    /\ j \in 1 .. Len(L) + 1
    /\ \A q \in 1 .. j - 1 : \E i \in 1 .. k : A[i] = L[q]
    /\ \A q \in j .. Len(L), i \in 1 .. k : A[i] < L[q]

\* No label of L is missing in A, as far as A goes.
Covers(A, L) == \A q \in 1 .. Len(L) : (\E i \in 1 .. Len(A) : A[i] = L[q]) \/ L[q] > A[Len(A)]

Occurs(a, L) == \E q \in 1 .. Len(L) : L[q] = a

\* Labels are natural numbers, and ascend.
LEMMA LabelsAscend ==
    ASSUME NEW s, IsLabels(s)
    PROVE  /\ Len(s) \in Nat /\ DOMAIN s = 1 .. Len(s)
           /\ \A i \in 1 .. Len(s) : s[i] \in Nat
           /\ \A i, k \in 1 .. Len(s) : i < k => s[i] < s[k]
<1>1. s \in Seq(Amounts)
  BY DEF IsLabels
<1>2. \A w \in Amounts : w \in Nat
  BY AmountAssumption DEF Amounts
<1>3. Len(s) \in Nat /\ DOMAIN s = 1 .. Len(s)
  BY <1>1
<1>4. \A i \in 1 .. Len(s) : s[i] \in Nat
  BY <1>1, <1>2, ElementOfSeq
<1> QED BY <1>3, <1>4 DEF IsLabels, Ascending

\* The first label of A has nothing behind the cursor.
LEMMA CursorStarts ==
    ASSUME NEW A, NEW L, IsLabels(L)
    PROVE  Cursor(A, L, 0, 1)
<1>1. Len(L) \in Nat
  BY LabelsAscend
<1> QED BY <1>1 DEF Cursor

\* One label further: it is ahead of the cursor, or it proves a label of L
\* missing, or it matches and the cursor moves on.
LEMMA CursorMoves ==
    ASSUME NEW A, IsLabels(A), NEW L, IsLabels(L),
           NEW k \in 1 .. Len(A), NEW j, Cursor(A, L, k - 1, j)
    PROVE  /\ Ahead(L, j, A[k]) =>
                 ~ Behind(L, j, A[k]) /\ Cursor(A, L, k, j) /\ ~ Occurs(A[k], L)
           /\ Behind(L, j, A[k]) => ~ Covers(A, L)
           /\ ~ Ahead(L, j, A[k]) /\ ~ Behind(L, j, A[k]) =>
                 j \in 1 .. Len(L) /\ L[j] = A[k] /\ Cursor(A, L, k, j + 1)
<1> DEFINE n == Len(A)  l == Len(L)
<1>1. /\ n \in Nat /\ \A i \in 1 .. n : A[i] \in Nat
      /\ \A i, h \in 1 .. n : i < h => A[i] < A[h]
  BY LabelsAscend
<1>2. /\ l \in Nat /\ \A q \in 1 .. l : L[q] \in Nat
      /\ \A q, h \in 1 .. l : q < h => L[q] < L[h]
  BY LabelsAscend
<1>3. /\ j \in 1 .. l + 1
      /\ \A q \in 1 .. j - 1 : \E i \in 1 .. k - 1 : A[i] = L[q]
      /\ \A q \in j .. l, i \in 1 .. k - 1 : A[i] < L[q]
  BY DEF Cursor
<1>4. k \in 1 .. n /\ A[k] \in Nat
  BY <1>1
<1> HIDE DEF n, l
<1>5. ASSUME NEW q \in 1 .. j - 1 PROVE q \in 1 .. l /\ L[q] < A[k]
  <2>1. PICK i \in 1 .. k - 1 : A[i] = L[q]
    BY <1>3
  <2>2. i \in 1 .. n /\ i < k /\ q \in 1 .. l
    BY <1>1, <1>2, <1>3, <1>4
  <2> QED BY <1>1, <1>4, <2>1, <2>2
<1>6. \A q \in 1 .. j - 1 : \E i \in 1 .. k : A[i] = L[q]
  <2>1. \A i \in 1 .. k - 1 : i \in 1 .. k
    BY <1>4
  <2> QED BY <1>3, <2>1
<1>7. ASSUME Ahead(L, j, A[k])
      PROVE  ~ Behind(L, j, A[k]) /\ Cursor(A, L, k, j) /\ ~ Occurs(A[k], L)
  <2>1. ASSUME NEW q \in j .. l PROVE A[k] < L[q]
    <3>1. A[k] < L[j] /\ j \in 1 .. l
      BY <1>7, <1>2, <1>3 DEF Ahead, l
    <3>2. q = j \/ (j < q /\ q \in 1 .. l)
      BY <1>2, <1>3
    <3> QED BY <1>2, <1>4, <3>1, <3>2
  <2>2. \A q \in j .. l, i \in 1 .. k : A[i] < L[q]
    <3>1. \A i \in 1 .. k : i = k \/ i \in 1 .. k - 1
      BY <1>4
    <3> QED BY <1>3, <2>1, <3>1
  <2>3. ~ Occurs(A[k], L)
    <3> SUFFICES ASSUME NEW q \in 1 .. l, L[q] = A[k] PROVE FALSE
      BY DEF Occurs, l
    <3>1. q \in 1 .. j - 1 \/ q \in j .. l
      BY <1>2, <1>3
    <3>2. L[q] < A[k] \/ A[k] < L[q]
      BY <1>5, <2>1, <3>1
    <3> QED BY <1>4, <3>2
  <2>4. ~ Behind(L, j, A[k])
    BY <1>2, <1>3, <1>4, <1>7 DEF Ahead, Behind, l
  <2> QED BY <1>3, <1>6, <2>2, <2>3, <2>4 DEF Cursor, l
<1>8. ASSUME Behind(L, j, A[k]) PROVE ~ Covers(A, L)
  <2>1. j \in 1 .. l /\ L[j] \in Nat /\ L[j] < A[k]
    BY <1>8, <1>2, <1>3 DEF Behind, l
  <2>2. ASSUME NEW i \in 1 .. n PROVE A[i] # L[j]
    <3>1. CASE i \in 1 .. k - 1
      <4>1. A[i] < L[j]
        BY <1>3, <2>1, <3>1
      <4> QED BY <1>1, <2>1, <4>1
    <3>2. CASE i = k
      BY <1>4, <2>1, <3>2
    <3>3. CASE i > k
      <4>1. A[k] < A[i]
        BY <1>1, <1>4, <3>3
      <4> QED BY <1>1, <1>4, <2>1, <4>1
    <3> QED BY <1>4, <3>1, <3>2, <3>3
  <2>3. ~ L[j] > A[n]
    <3>1. k = n \/ A[k] < A[n]
      BY <1>1, <1>4
    <3>2. A[n] \in Nat
      BY <1>1, <1>4
    <3> QED BY <1>4, <2>1, <3>1, <3>2
  <2> QED BY <2>1, <2>2, <2>3 DEF Covers, n, l
<1>9. ASSUME ~ Ahead(L, j, A[k]), ~ Behind(L, j, A[k])
      PROVE  j \in 1 .. Len(L) /\ L[j] = A[k] /\ Cursor(A, L, k, j + 1)
  <2>1. j \in 1 .. l /\ L[j] = A[k]
    BY <1>9, <1>2, <1>3, <1>4 DEF Ahead, Behind, l
  <2>2. \A q \in 1 .. j : \E i \in 1 .. k : A[i] = L[q]
    <3>1. k \in 1 .. k /\ \A q \in 1 .. j : q = j \/ q \in 1 .. j - 1
      BY <1>4, <2>1
    <3> QED BY <1>6, <2>1, <3>1
  <2>3. ASSUME NEW q \in j + 1 .. l, NEW i \in 1 .. k PROVE A[i] < L[q]
    <3>1. q \in 1 .. l /\ j < q /\ L[j] < L[q]
      BY <1>2, <2>1
    <3>2. CASE i = k
      BY <2>1, <3>1, <3>2
    <3>3. CASE i # k
      <4>1. i \in 1 .. k - 1 /\ q \in j .. l
        BY <1>4, <2>1, <3>3
      <4> QED BY <1>3, <4>1
    <3> QED BY <3>2, <3>3
  <2>4. j + 1 \in 1 .. l + 1 /\ (j + 1) - 1 = j
    BY <1>2, <2>1
  <2> QED BY <2>1, <2>2, <2>3, <2>4 DEF Cursor, l
<1> QED BY <1>7, <1>8, <1>9

\* At the end of A the cursor has passed what L has in the range of A.
LEMMA CursorEnds ==
    ASSUME NEW A, IsLabels(A), A # << >>, NEW L, IsLabels(L), NEW j, Cursor(A, L, Len(A), j)
    PROVE  Covers(A, L)
<1>1. Len(A) \in Nat \ {0} /\ Len(L) \in Nat /\ \A i \in 1 .. Len(A) : A[i] \in Nat
  BY LabelsAscend DEF IsLabels
<1>2. Len(A) \in 1 .. Len(A)
  BY <1>1
<1>3. \A q \in 1 .. Len(L) : L[q] \in Nat
  BY LabelsAscend
<1>4. ASSUME NEW q \in 1 .. Len(L)
      PROVE  (\E i \in 1 .. Len(A) : A[i] = L[q]) \/ L[q] > A[Len(A)]
  <2>1. q \in 1 .. j - 1 \/ q \in j .. Len(L)
    BY <1>1 DEF Cursor
  <2>2. q \in j .. Len(L) => A[Len(A)] < L[q]
    BY <1>2 DEF Cursor
  <2> QED BY <1>1, <1>2, <1>3, <2>1, <2>2 DEF Cursor
<1> QED BY <1>4 DEF Covers

-----------------------------------------------------------------------------
(***************************************************************************)
(* The filter.                                                             *)
(***************************************************************************)
\* The positions among the first k of A whose labels L has, and how many.
Matching(A, L, k) == {i \in 1 .. k : Occurs(A[i], L)}
Rank(A, L, k)     == Cardinality(Matching(A, L, k))

LEMMA RankStarts ==
    ASSUME NEW A, NEW L
    PROVE  Matching(A, L, 0) = {} /\ Rank(A, L, 0) = 0
<1>1. Matching(A, L, 0) = {}
  BY DEF Matching
<1> QED BY <1>1, FS_EmptySet DEF Rank

\* The rank counts the matches, so it grows with each.
LEMMA RankGrows ==
    ASSUME NEW A, NEW L, NEW k \in Nat \ {0}
    PROVE  /\ Rank(A, L, k - 1) \in Nat /\ Rank(A, L, k) \in Nat
           /\ Occurs(A[k], L) => Rank(A, L, k) = Rank(A, L, k - 1) + 1
           /\ ~ Occurs(A[k], L) => Matching(A, L, k) = Matching(A, L, k - 1)
           /\ ~ Occurs(A[k], L) => Rank(A, L, k) = Rank(A, L, k - 1)
<1>1. \A h \in Nat : IsFiniteSet(Matching(A, L, h))
  <2>1. \A h \in Nat : IsFiniteSet(1 .. h)
    BY FS_Interval
  <2>2. \A h \in Nat : Matching(A, L, h) \subseteq 1 .. h
    BY DEF Matching
  <2> QED BY <2>1, <2>2, FS_Subset
<1>2. Rank(A, L, k - 1) \in Nat /\ Rank(A, L, k) \in Nat
  BY <1>1, FS_CardinalityType DEF Rank
<1>3. \A i : i \in 1 .. k <=> i \in 1 .. k - 1 \/ i = k
  OBVIOUS
<1>4. ASSUME Occurs(A[k], L)
      PROVE  /\ Matching(A, L, k) = Matching(A, L, k - 1) \cup {k}
             /\ Rank(A, L, k) = Rank(A, L, k - 1) + 1
  <2>1. Matching(A, L, k) = Matching(A, L, k - 1) \cup {k}
    BY <1>3, <1>4 DEF Matching
  <2>2. k \notin Matching(A, L, k - 1)
    BY DEF Matching
  <2>3. IsFiniteSet(Matching(A, L, k - 1))
    BY <1>1
  <2>4. Cardinality(Matching(A, L, k - 1) \cup {k}) = Cardinality(Matching(A, L, k - 1)) + 1
    BY <2>2, <2>3, FS_AddElement
  <2> QED BY <2>1, <2>4 DEF Rank
<1>5. ASSUME ~ Occurs(A[k], L) PROVE Matching(A, L, k) = Matching(A, L, k - 1)
  BY <1>3, <1>5 DEF Matching
<1> QED BY <1>2, <1>4, <1>5 DEF Rank

\* A match within the first k is the n-th, for an n up to their number.
LEMMA RankOfMatch ==
    ASSUME NEW A, NEW L, NEW k \in Nat, NEW i \in Matching(A, L, k)
    PROVE  Rank(A, L, i) \in 1 .. Rank(A, L, k)
<1>1. i \in 1 .. k /\ Occurs(A[i], L)
  BY DEF Matching
<1>2. IsFiniteSet(Matching(A, L, k))
  <2>1. IsFiniteSet(1 .. k)
    BY FS_Interval
  <2>2. Matching(A, L, k) \subseteq 1 .. k
    BY DEF Matching
  <2> QED BY <2>1, <2>2, FS_Subset
<1>3. Matching(A, L, i) \subseteq Matching(A, L, k)
  BY <1>1 DEF Matching
<1>4. Rank(A, L, i) <= Rank(A, L, k)
  BY <1>2, <1>3, FS_Subset DEF Rank
<1>5. Rank(A, L, i) = Rank(A, L, i - 1) + 1 /\ Rank(A, L, i - 1) \in Nat
  <2>1. i \in Nat \ {0}
    BY <1>1
  <2> QED BY <1>1, <2>1, RankGrows
<1>6. Rank(A, L, k) \in Nat
  BY <1>2, FS_CardinalityType DEF Rank
<1> QED BY <1>4, <1>5, <1>6

\* What the filter has kept of the first k values: each that matches, at its
\* rank.
KeptUpTo(A, L, va, k, data) ==
    /\ Len(data) = Rank(A, L, k)
    /\ \A i \in Matching(A, L, k) : data[Rank(A, L, i)] = va[i]
FilterInv(A, L, va, k, acc) ==
    IF acc.ok THEN Cursor(A, L, k, acc.j) /\ KeptUpTo(A, L, va, k, acc.data)
              ELSE ~ Covers(A, L)

LEMMA FilterStepKeeps ==
    ASSUME NEW A, IsLabels(A), NEW L, IsLabels(L), NEW va \in Seq(Amounts), Len(va) = Len(A),
           NEW k \in 1 .. Len(A), NEW acc \in FilterStates(L), FilterInv(A, L, va, k - 1, acc)
    PROVE  FilterInv(A, L, va, k, FilterStep(A, L, va, acc, k))
<1> DEFINE step == FilterStep(A, L, va, acc, k)
<1>1. acc.ok \in BOOLEAN /\ acc.data \in Seq(Amounts)
  BY DEF FilterStates
<1>2. CASE ~ acc.ok
  BY <1>2 DEF FilterStep, FilterInv
<1>3. CASE acc.ok
  <2>0. k \in Nat \ {0}
    BY LabelsAscend
  <2>1. Cursor(A, L, k - 1, acc.j) /\ KeptUpTo(A, L, va, k - 1, acc.data)
    BY <1>3 DEF FilterInv
  <2>2. CASE Ahead(L, acc.j, A[k])
    <3>1. Cursor(A, L, k, acc.j) /\ ~ Occurs(A[k], L) /\ ~ Behind(L, acc.j, A[k])
      BY <2>1, <2>2, CursorMoves
    <3>2. KeptUpTo(A, L, va, k, acc.data)
      BY <2>0, <2>1, <3>1, RankGrows DEF KeptUpTo
    <3>3. step = acc
      BY <2>2, <3>1 DEF FilterStep
    <3>4. FilterInv(A, L, va, k, acc)
      BY <1>3, <3>1, <3>2 DEF FilterInv
    <3> QED BY <3>3, <3>4
  <2>3. CASE ~ Ahead(L, acc.j, A[k]) /\ Behind(L, acc.j, A[k])
    <3>1. ~ Covers(A, L)
      BY <2>1, <2>3, CursorMoves
    <3>2. step = [acc EXCEPT !.ok = FALSE]
      BY <1>3, <2>3 DEF FilterStep
    <3>3. step.ok = FALSE
      BY <3>2 DEF FilterStates
    <3> HIDE DEF step
    <3>4. FilterInv(A, L, va, k, step)
      BY <3>1, <3>3 DEF FilterInv
    <3> QED BY <3>4 DEF step
  <2>4. CASE ~ Ahead(L, acc.j, A[k]) /\ ~ Behind(L, acc.j, A[k])
    <3>1. acc.j \in 1 .. Len(L) /\ L[acc.j] = A[k] /\ Cursor(A, L, k, acc.j + 1)
      BY <2>1, <2>4, CursorMoves
    <3>2. Occurs(A[k], L)
      BY <3>1 DEF Occurs
    <3> DEFINE more == Append(acc.data, va[k])
    <3>3. step = [acc EXCEPT !.j = @ + 1, !.data = Append(@, va[k])]
      BY <1>3, <2>4 DEF FilterStep
    <3>4. step.ok /\ step.j = acc.j + 1 /\ step.data = more
      BY <1>3, <3>3 DEF FilterStates
    <3>5. va[k] \in Amounts
      BY ElementOfSeq
    <3>6. /\ Len(more) = Len(acc.data) + 1
          /\ \A n \in 1 .. Len(acc.data) : more[n] = acc.data[n]
          /\ more[Len(acc.data) + 1] = va[k]
      BY <1>1, <3>5, AppendProperties
    <3>7. /\ Rank(A, L, k) = Rank(A, L, k - 1) + 1
          /\ Rank(A, L, k - 1) \in Nat
          /\ Matching(A, L, k) = Matching(A, L, k - 1) \cup {k}
      <4>1. Rank(A, L, k) = Rank(A, L, k - 1) + 1 /\ Rank(A, L, k - 1) \in Nat
        BY <2>0, <3>2, RankGrows
      <4>2. Matching(A, L, k) = Matching(A, L, k - 1) \cup {k}
        <5>1. \A i : i \in 1 .. k <=> i \in 1 .. k - 1 \/ i = k
          BY <2>0
        <5> QED BY <3>2, <5>1 DEF Matching
      <4> QED BY <4>1, <4>2
    <3>8. \A i \in Matching(A, L, k - 1) : Rank(A, L, i) \in 1 .. Rank(A, L, k - 1)
      BY <2>0, RankOfMatch
    <3> HIDE DEF more, step
    <3>9. KeptUpTo(A, L, va, k, more)
      BY <2>1, <3>6, <3>7, <3>8 DEF KeptUpTo
    <3>10. FilterInv(A, L, va, k, step)
      BY <3>1, <3>4, <3>9 DEF FilterInv
    <3> QED BY <3>10 DEF step
  <2> QED BY <2>2, <2>3, <2>4
<1> QED BY <1>1, <1>2, <1>3

\* The filter fails exactly when L has a label in the range of A that A has
\* not; otherwise it keeps the values whose labels L has.
LEMMA FilteredCorrect ==
    ASSUME NEW A, IsLabels(A), A # << >>, NEW L, IsLabels(L),
           NEW va \in Seq(Amounts), Len(va) = Len(A)
    PROVE  /\ Filtered(A, L, va).ok <=> Covers(A, L)
           /\ Filtered(A, L, va).ok => KeptUpTo(A, L, va, Len(A), Filtered(A, L, va).data)
           /\ Filtered(A, L, va).ok \in BOOLEAN
<1> DEFINE U    == FilterStates(L)
           base == [ok |-> TRUE, j |-> 1, data |-> << >>]
<1>1. A \in Seq(Amounts) /\ L \in Seq(Amounts) /\ Len(A) \in Nat /\ DOMAIN A = 1 .. Len(A)
  BY DEF IsLabels
<1>2. PICK f \in [0 .. Len(A) -> U] : IsFilter(A, L, va, f)
  <2>1. FilterClosed(A, L, va, U)
    BY <1>1, FilterIsClosed
  <2> QED BY <1>1, <2>1, FilteredPrefixes
<1> DEFINE Good == {k \in 0 .. Len(A) : FilterInv(A, L, va, k, f[k])}
<1>3. 0 \in Good
  <2>1. Cursor(A, L, 0, 1)
    BY CursorStarts
  <2>2. KeptUpTo(A, L, va, 0, << >>)
    BY RankStarts DEF KeptUpTo
  <2>3. FilterInv(A, L, va, 0, base)
    BY <2>1, <2>2 DEF FilterInv
  <2>4. f[0] = base
    BY <1>2 DEF IsFilter
  <2> HIDE DEF base
  <2>5. FilterInv(A, L, va, 0, f[0])
    BY <2>3, <2>4
  <2> QED BY <1>1, <2>5
<1>4. ASSUME NEW k \in 1 .. Len(A), k - 1 \in Good PROVE k \in Good
  <2>1. k - 1 \in 0 .. Len(A) /\ k \in 0 .. Len(A)
    BY <1>1
  <2>2. f[k - 1] \in U /\ FilterInv(A, L, va, k - 1, f[k - 1])
    BY <1>4, <2>1
  <2>3. f[k] = FilterStep(A, L, va, f[k - 1], k)
    BY <1>2 DEF IsFilter
  <2>4. FilterInv(A, L, va, k, f[k])
    BY <2>2, <2>3, FilterStepKeeps
  <2> QED BY <2>1, <2>4
<1>5. 0 .. Len(A) \subseteq Good
  <2> HIDE DEF Good
  <2> QED BY <1>1, <1>3, <1>4, UpTo
<1>6. Len(A) \in 0 .. Len(A)
  BY <1>1
<1>7. FilterInv(A, L, va, Len(A), Filtered(A, L, va))
  BY <1>2, <1>5, <1>6 DEF IsFilter
<1>8. Filtered(A, L, va) \in U
  BY <1>1, FilteredType
<1>9. Filtered(A, L, va).ok \in BOOLEAN
  BY <1>8 DEF FilterStates
<1>10. ASSUME NEW j, Cursor(A, L, Len(A), j) PROVE Covers(A, L)
  BY <1>10, CursorEnds
<1> QED BY <1>7, <1>9, <1>10 DEF FilterInv

-----------------------------------------------------------------------------
(***************************************************************************)
(* The joins of two vectors.  w holds, for each label of A that L has, the *)
(* value the join gives it.                                                *)
(***************************************************************************)
Sums(A, L, va, vb, w) ==
    \A i \in 1 .. Len(A), q \in 1 .. Len(L) : L[q] = A[i] => w[i] = va[i] + vb[q]
Replaces(A, L, vb, w) ==
    \A i \in 1 .. Len(A), q \in 1 .. Len(L) : L[q] = A[i] => w[i] = vb[q]

\* What the join has made of the values: new ones for the matches among the
\* first k, the old ones otherwise.
JoinedUpTo(A, L, va, w, k, data) ==
    \A i \in 1 .. Len(A) :
        /\ i <= k /\ Occurs(A[i], L) => data[i] = w[i]
        /\ i > k \/ ~ Occurs(A[i], L) => data[i] = va[i]
JoinInv(A, L, va, w, k, acc) ==
    IF acc.ok THEN Cursor(A, L, k, acc.j) /\ JoinedUpTo(A, L, va, w, k, acc.data)
              ELSE ~ Covers(A, L)

\* A step of a join that gives a match x for its value.
Matches(A, L, k, acc, x, next) ==
    /\ ~ acc.ok \/ Ahead(L, acc.j, A[k]) => next = acc
    /\ acc.ok /\ Behind(L, acc.j, A[k]) => next = [acc EXCEPT !.ok = FALSE]
    /\ acc.ok /\ ~ Ahead(L, acc.j, A[k]) /\ ~ Behind(L, acc.j, A[k]) =>
          next = [acc EXCEPT !.j = @ + 1, !.data[k] = x]

LEMMA JoinStepKeeps ==
    ASSUME NEW A, IsLabels(A), NEW L, IsLabels(L), NEW va, NEW w,
           NEW k \in 1 .. Len(A), NEW acc \in JoinStates(L, Len(A)),
           JoinInv(A, L, va, w, k - 1, acc), NEW next, Matches(A, L, k, acc, w[k], next)
    PROVE  JoinInv(A, L, va, w, k, next)
<1>1. /\ acc.ok \in BOOLEAN /\ acc.data \in [1 .. Len(A) -> Nat]
      /\ Len(A) \in Nat /\ k \in Nat \ {0}
  BY LabelsAscend DEF JoinStates
<1>2. CASE ~ acc.ok
  <2>1. next = acc /\ ~ Covers(A, L)
    BY <1>2 DEF Matches, JoinInv
  <2> QED BY <1>2, <2>1 DEF JoinInv
<1>3. CASE acc.ok /\ Ahead(L, acc.j, A[k])
  <2>1. Cursor(A, L, k - 1, acc.j) /\ JoinedUpTo(A, L, va, w, k - 1, acc.data)
    BY <1>3 DEF JoinInv
  <2>2. next = acc
    BY <1>3 DEF Matches
  <2>3. Cursor(A, L, k, acc.j) /\ ~ Occurs(A[k], L)
    BY <1>3, <2>1, CursorMoves
  <2>4. JoinedUpTo(A, L, va, w, k, acc.data)
    <3>1. \A i \in 1 .. Len(A) : (i <= k <=> i <= k - 1 \/ i = k) /\ (i > k => i > k - 1)
      BY <1>1
    <3> QED BY <2>1, <2>3, <3>1 DEF JoinedUpTo
  <2> QED BY <1>3, <2>2, <2>3, <2>4 DEF JoinInv
<1>4. CASE acc.ok /\ Behind(L, acc.j, A[k])
  <2>1. Cursor(A, L, k - 1, acc.j)
    BY <1>4 DEF JoinInv
  <2>2. ~ Covers(A, L)
    BY <1>4, <2>1, CursorMoves
  <2>3. next = [acc EXCEPT !.ok = FALSE]
    BY <1>4 DEF Matches
  <2>4. next.ok = FALSE
    BY <2>3 DEF JoinStates
  <2> QED BY <2>2, <2>4 DEF JoinInv
<1>5. CASE acc.ok /\ ~ Ahead(L, acc.j, A[k]) /\ ~ Behind(L, acc.j, A[k])
  <2>1. Cursor(A, L, k - 1, acc.j) /\ JoinedUpTo(A, L, va, w, k - 1, acc.data)
    BY <1>5 DEF JoinInv
  <2>2. acc.j \in 1 .. Len(L) /\ L[acc.j] = A[k] /\ Cursor(A, L, k, acc.j + 1)
    BY <1>5, <2>1, CursorMoves
  <2>3. Occurs(A[k], L)
    BY <2>2 DEF Occurs
  <2> DEFINE more == [acc.data EXCEPT ![k] = w[k]]
  <2>4. next = [acc EXCEPT !.j = @ + 1, !.data[k] = w[k]]
    BY <1>5 DEF Matches
  <2>5. next.ok /\ next.j = acc.j + 1 /\ next.data = more
    BY <1>5, <2>4 DEF JoinStates
  <2>6. more[k] = w[k] /\ \A i \in 1 .. Len(A) : i # k => more[i] = acc.data[i]
    BY <1>1
  <2> HIDE DEF more
  <2>7. JoinedUpTo(A, L, va, w, k, more)
    <3>1. \A i \in 1 .. Len(A) : (i <= k <=> i <= k - 1 \/ i = k) /\ (i > k => i > k - 1 /\ i # k)
      BY <1>1
    <3> QED BY <2>1, <2>3, <2>6, <3>1 DEF JoinedUpTo
  <2> QED BY <2>2, <2>5, <2>7 DEF JoinInv
<1> QED BY <1>1, <1>2, <1>3, <1>4, <1>5

\* A join starts with all values of A as they were.
LEMMA JoinStarts ==
    ASSUME NEW A, IsLabels(A), NEW L, IsLabels(L), NEW va, NEW w
    PROVE  JoinInv(A, L, va, w, 0, [ok |-> TRUE, j |-> 1, data |-> va])
<1>1. Cursor(A, L, 0, 1)
  BY CursorStarts
<1>2. Len(A) \in Nat /\ \A i \in 1 .. Len(A) : ~ i <= 0
  BY LabelsAscend
<1>3. JoinedUpTo(A, L, va, w, 0, va)
  BY <1>2 DEF JoinedUpTo
<1> QED BY <1>1, <1>3 DEF JoinInv

\* Where a join ends it has failed because of a missing label, or has given
\* each value its own.
JoinCorrect(A, L, va, w, joined) ==
    /\ joined.ok \in BOOLEAN
    /\ joined.ok <=> Covers(A, L)
    /\ joined.ok => JoinedUpTo(A, L, va, w, Len(A), joined.data)

LEMMA JoinEnds ==
    ASSUME NEW A, IsLabels(A), A # << >>, NEW L, IsLabels(L), NEW va, NEW w,
           NEW f \in [0 .. Len(A) -> JoinStates(L, Len(A))],
           f[0] = [ok |-> TRUE, j |-> 1, data |-> va],
           \A k \in 1 .. Len(A) :
               JoinInv(A, L, va, w, k - 1, f[k - 1]) => Matches(A, L, k, f[k - 1], w[k], f[k])
    PROVE  JoinCorrect(A, L, va, w, f[Len(A)])
<1> DEFINE Good == {k \in 0 .. Len(A) : JoinInv(A, L, va, w, k, f[k])}
<1>1. Len(A) \in Nat
  BY LabelsAscend
<1>2. 0 \in Good
  <2>1. JoinInv(A, L, va, w, 0, f[0])
    BY JoinStarts
  <2>2. 0 \in 0 .. Len(A)
    BY <1>1
  <2> QED BY <2>1, <2>2
<1>3. ASSUME NEW k \in 1 .. Len(A), k - 1 \in Good PROVE k \in Good
  <2>1. k - 1 \in 0 .. Len(A) /\ k \in 0 .. Len(A)
    BY <1>1
  <2>2. f[k - 1] \in JoinStates(L, Len(A)) /\ JoinInv(A, L, va, w, k - 1, f[k - 1])
    BY <1>3, <2>1
  <2>3. Matches(A, L, k, f[k - 1], w[k], f[k])
    BY <2>2
  <2>4. JoinInv(A, L, va, w, k, f[k])
    BY <2>2, <2>3, JoinStepKeeps
  <2> QED BY <2>1, <2>4
<1>4. 0 .. Len(A) \subseteq Good
  <2> HIDE DEF Good
  <2> QED BY <1>1, <1>2, <1>3, UpTo
<1>5. Len(A) \in 0 .. Len(A)
  BY <1>1
<1>6. JoinInv(A, L, va, w, Len(A), f[Len(A)])
  BY <1>4, <1>5
<1>7. f[Len(A)].ok \in BOOLEAN
  BY <1>5 DEF JoinStates
<1>8. ASSUME NEW j, Cursor(A, L, Len(A), j) PROVE Covers(A, L)
  BY <1>8, CursorEnds
<1> QED BY <1>6, <1>7, <1>8 DEF JoinInv, JoinCorrect

\* A cursor that is neither ahead nor behind stands on the label.
LEMMA CursorFound ==
    ASSUME NEW A, IsLabels(A), NEW L, IsLabels(L), NEW k \in 1 .. Len(A),
           NEW j, Cursor(A, L, k - 1, j), ~ Ahead(L, j, A[k]), ~ Behind(L, j, A[k])
    PROVE  j \in 1 .. Len(L) /\ L[j] = A[k]
  BY CursorMoves

\* JADD adds the values of matching labels.
LEMMA JaddCorrect ==
    ASSUME NEW A, IsLabels(A), A # << >>, NEW L, IsLabels(L),
           NEW va \in Seq(Amounts), Len(va) = Len(A),
           NEW vb \in Seq(Amounts), Len(vb) = Len(L), NEW w, Sums(A, L, va, vb, w)
    PROVE  JoinCorrect(A, L, va, w, Join(A, L, va, vb, Plus))
<1>1. A \in Seq(Amounts) /\ L \in Seq(Amounts) /\ Len(A) \in Nat /\ DOMAIN A = 1 .. Len(A)
  BY DEF IsLabels
<1>2. PICK f \in [0 .. Len(A) -> JoinStates(L, Len(A))] : IsJadd(A, L, va, vb, f)
  BY <1>1, JoinsAreClosed, JaddPrefixes
<1>3. ASSUME NEW k \in 1 .. Len(A), JoinInv(A, L, va, w, k - 1, f[k - 1])
      PROVE  Matches(A, L, k, f[k - 1], w[k], f[k])
  <2> DEFINE acc == f[k - 1]
  <2>1. f[k] = JoinStep(A, L, vb, Plus, acc, k)
    BY <1>2 DEF IsJadd
  <2>2. acc.ok => Cursor(A, L, k - 1, acc.j) /\ JoinedUpTo(A, L, va, w, k - 1, acc.data)
    BY <1>3 DEF JoinInv
  <2> HIDE DEF acc
  <2>3. acc.ok /\ Ahead(L, acc.j, A[k]) => ~ Behind(L, acc.j, A[k])
    BY <2>2, CursorMoves
  <2>4. ASSUME acc.ok, ~ Ahead(L, acc.j, A[k]), ~ Behind(L, acc.j, A[k])
        PROVE  acc.data[k] + vb[acc.j] = w[k]
    <3>1. Cursor(A, L, k - 1, acc.j)
      BY <2>2, <2>4
    <3>2. acc.j \in 1 .. Len(L) /\ L[acc.j] = A[k]
      BY <2>4, <3>1, CursorFound
    <3>3. JoinedUpTo(A, L, va, w, k - 1, acc.data)
      BY <2>2, <2>4
    <3>4. k \in 1 .. Len(A) /\ k > k - 1
      BY <1>1
    <3>5. acc.data[k] = va[k]
      BY <3>3, <3>4 DEF JoinedUpTo
    <3> QED BY <3>2, <3>5 DEF Sums
  <2>5. Matches(A, L, k, acc, w[k], f[k])
    BY <2>1, <2>3, <2>4 DEF Matches, JoinStep, Plus
  <2> QED BY <2>5 DEF acc
<1>4. JoinCorrect(A, L, va, w, f[Len(A)])
  <2>1. f[0] = [ok |-> TRUE, j |-> 1, data |-> va]
    BY <1>2 DEF IsJadd
  <2> QED BY <1>3, <2>1, JoinEnds
<1> QED BY <1>2, <1>4 DEF IsJadd

\* JUPD replaces the values of matching labels.
LEMMA JupdCorrect ==
    ASSUME NEW A, IsLabels(A), A # << >>, NEW L, IsLabels(L),
           NEW va \in Seq(Amounts), Len(va) = Len(A),
           NEW vb \in Seq(Amounts), Len(vb) = Len(L), NEW w, Replaces(A, L, vb, w)
    PROVE  JoinCorrect(A, L, va, w, Join(A, L, va, vb, SecondOf))
<1>1. A \in Seq(Amounts) /\ L \in Seq(Amounts) /\ Len(A) \in Nat /\ DOMAIN A = 1 .. Len(A)
  BY DEF IsLabels
<1>2. PICK f \in [0 .. Len(A) -> JoinStates(L, Len(A))] : IsJupd(A, L, va, vb, f)
  BY <1>1, JoinsAreClosed, JupdPrefixes
<1>3. ASSUME NEW k \in 1 .. Len(A), JoinInv(A, L, va, w, k - 1, f[k - 1])
      PROVE  Matches(A, L, k, f[k - 1], w[k], f[k])
  <2> DEFINE acc == f[k - 1]
  <2>1. f[k] = JoinStep(A, L, vb, SecondOf, acc, k)
    BY <1>2 DEF IsJupd
  <2>2. acc.ok => Cursor(A, L, k - 1, acc.j)
    BY <1>3 DEF JoinInv
  <2> HIDE DEF acc
  <2>3. acc.ok /\ Ahead(L, acc.j, A[k]) => ~ Behind(L, acc.j, A[k])
    BY <2>2, CursorMoves
  <2>4. ASSUME acc.ok, ~ Ahead(L, acc.j, A[k]), ~ Behind(L, acc.j, A[k])
        PROVE  vb[acc.j] = w[k]
    <3>1. Cursor(A, L, k - 1, acc.j)
      BY <2>2, <2>4
    <3>2. acc.j \in 1 .. Len(L) /\ L[acc.j] = A[k]
      BY <2>4, <3>1, CursorFound
    <3> QED BY <3>2 DEF Replaces
  <2>5. Matches(A, L, k, acc, w[k], f[k])
    BY <2>1, <2>3, <2>4 DEF Matches, JoinStep, SecondOf
  <2> QED BY <2>5 DEF acc
<1>4. JoinCorrect(A, L, va, w, f[Len(A)])
  <2>1. f[0] = [ok |-> TRUE, j |-> 1, data |-> va]
    BY <1>2 DEF IsJupd
  <2> QED BY <1>3, <2>1, JoinEnds
<1> QED BY <1>2, <1>4 DEF IsJupd

-----------------------------------------------------------------------------
(***************************************************************************)
(* The union.                                                              *)
(***************************************************************************)
LEMMA SetOfAppend ==
    ASSUME NEW s \in Seq(Amounts), NEW x \in Amounts
    PROVE  ToSet(Append(s, x)) = ToSet(s) \cup {x}
<1>1. /\ Len(Append(s, x)) = Len(s) + 1
      /\ \A i \in 1 .. Len(s) : Append(s, x)[i] = s[i]
      /\ Append(s, x)[Len(s) + 1] = x
  BY AppendProperties
<1>2. /\ DOMAIN s = 1 .. Len(s) /\ DOMAIN Append(s, x) = 1 .. Len(s) + 1
      /\ Len(s) \in Nat
  BY <1>1
<1>3. \A i : i \in 1 .. Len(s) + 1 <=> i \in 1 .. Len(s) \/ i = Len(s) + 1
  BY <1>2
<1> QED BY <1>1, <1>2, <1>3 DEF ToSet

LEMMA SetOfConcat ==
    ASSUME NEW s \in Seq(Amounts), NEW t \in Seq(Amounts)
    PROVE  ToSet(s \o t) = ToSet(s) \cup ToSet(t)
<1>1. /\ Len(s \o t) = Len(s) + Len(t)
      /\ \A i \in 1 .. Len(s) : (s \o t)[i] = s[i]
      /\ \A i \in 1 .. Len(t) : (s \o t)[Len(s) + i] = t[i]
  BY ConcatProperties
<1>2. /\ DOMAIN s = 1 .. Len(s) /\ DOMAIN t = 1 .. Len(t)
      /\ DOMAIN (s \o t) = 1 .. Len(s) + Len(t)
      /\ Len(s) \in Nat /\ Len(t) \in Nat
  BY <1>1
<1>3. ASSUME NEW x \in ToSet(s \o t) PROVE x \in ToSet(s) \cup ToSet(t)
  <2>1. PICK i \in 1 .. Len(s) + Len(t) : x = (s \o t)[i]
    BY <1>2 DEF ToSet
  <2>2. CASE i \in 1 .. Len(s)
    BY <1>1, <1>2, <2>1, <2>2 DEF ToSet
  <2>3. CASE i \notin 1 .. Len(s)
    <3>1. i - Len(s) \in 1 .. Len(t) /\ Len(s) + (i - Len(s)) = i
      BY <1>2, <2>3
    <3>2. x = t[i - Len(s)]
      BY <1>1, <2>1, <3>1
    <3> QED BY <1>2, <3>1, <3>2 DEF ToSet
  <2> QED BY <2>2, <2>3
<1>4. ASSUME NEW x \in ToSet(s) PROVE x \in ToSet(s \o t)
  <2>1. \A i \in 1 .. Len(s) : i \in 1 .. Len(s) + Len(t)
    BY <1>2
  <2> QED BY <1>1, <1>2, <2>1 DEF ToSet
<1>5. ASSUME NEW x \in ToSet(t) PROVE x \in ToSet(s \o t)
  <2>1. \A i \in 1 .. Len(t) : Len(s) + i \in 1 .. Len(s) + Len(t)
    BY <1>2
  <2> QED BY <1>1, <1>2, <2>1 DEF ToSet
<1> QED BY <1>3, <1>4, <1>5

\* What is appended to ascending labels keeps them ascending when it is
\* beyond them.
LEMMA AscendingAppend ==
    ASSUME NEW s, IsLabels(s), NEW x \in Amounts, \A y \in ToSet(s) : y < x
    PROVE  IsLabels(Append(s, x))
<1>1. /\ s \in Seq(Amounts) /\ Len(s) \in Nat /\ DOMAIN s = 1 .. Len(s)
      /\ \A i, k \in 1 .. Len(s) : i < k => s[i] < s[k]
  BY LabelsAscend DEF IsLabels
<1>2. /\ Append(s, x) \in Seq(Amounts) /\ Len(Append(s, x)) = Len(s) + 1
      /\ \A i \in 1 .. Len(s) : Append(s, x)[i] = s[i]
      /\ Append(s, x)[Len(s) + 1] = x
  BY <1>1, AppendProperties
<1>3. DOMAIN Append(s, x) = 1 .. Len(s) + 1
  BY <1>2
<1>4. \A i \in 1 .. Len(s) : s[i] < x
  BY <1>1 DEF ToSet
<1>5. ASSUME NEW i \in 1 .. Len(s) + 1, NEW k \in 1 .. Len(s) + 1, i < k
      PROVE  Append(s, x)[i] < Append(s, x)[k]
  <2>1. i \in 1 .. Len(s) /\ (k \in 1 .. Len(s) \/ k = Len(s) + 1)
    BY <1>1, <1>5
  <2> QED BY <1>1, <1>2, <1>4, <1>5, <2>1
<1> QED BY <1>2, <1>3, <1>5 DEF IsLabels, Ascending

LEMMA AscendingConcat ==
    ASSUME NEW s, IsLabels(s), NEW t, IsLabels(t), \A x \in ToSet(s), y \in ToSet(t) : x < y
    PROVE  IsLabels(s \o t)
<1>1. /\ s \in Seq(Amounts) /\ Len(s) \in Nat /\ DOMAIN s = 1 .. Len(s)
      /\ \A i, k \in 1 .. Len(s) : i < k => s[i] < s[k]
  BY LabelsAscend DEF IsLabels
<1>2. /\ t \in Seq(Amounts) /\ Len(t) \in Nat /\ DOMAIN t = 1 .. Len(t)
      /\ \A i, k \in 1 .. Len(t) : i < k => t[i] < t[k]
  BY LabelsAscend DEF IsLabels
<1>3. /\ s \o t \in Seq(Amounts) /\ Len(s \o t) = Len(s) + Len(t)
      /\ \A i \in 1 .. Len(s) : (s \o t)[i] = s[i]
      /\ \A i \in 1 .. Len(t) : (s \o t)[Len(s) + i] = t[i]
  BY <1>1, <1>2, ConcatProperties
<1>4. DOMAIN (s \o t) = 1 .. Len(s) + Len(t)
  BY <1>3
<1>5. \A i \in 1 .. Len(s), k \in 1 .. Len(t) : s[i] < t[k]
  BY <1>1, <1>2 DEF ToSet
<1>6. ASSUME NEW i \in 1 .. Len(s) + Len(t), NEW k \in 1 .. Len(s) + Len(t), i < k
      PROVE  (s \o t)[i] < (s \o t)[k]
  <2>1. CASE k \in 1 .. Len(s)
    <3>1. i \in 1 .. Len(s)
      BY <1>1, <1>6, <2>1
    <3> QED BY <1>1, <1>3, <1>6, <2>1, <3>1
  <2>2. CASE k \notin 1 .. Len(s)
    <3>1. k - Len(s) \in 1 .. Len(t) /\ Len(s) + (k - Len(s)) = k
      BY <1>1, <1>2, <2>2
    <3>2. (s \o t)[k] = t[k - Len(s)]
      BY <1>3, <3>1
    <3>3. CASE i \in 1 .. Len(s)
      BY <1>3, <1>5, <3>1, <3>2, <3>3
    <3>4. CASE i \notin 1 .. Len(s)
      <4>1. i - Len(s) \in 1 .. Len(t) /\ Len(s) + (i - Len(s)) = i /\ i - Len(s) < k - Len(s)
        BY <1>1, <1>2, <1>6, <3>4
      <4>2. (s \o t)[i] = t[i - Len(s)]
        BY <1>3, <4>1
      <4> QED BY <1>2, <3>1, <3>2, <4>1, <4>2
    <3> QED BY <3>3, <3>4
  <2> QED BY <2>1, <2>2
<1> QED BY <1>3, <1>4, <1>6 DEF IsLabels, Ascending

\* The labels of L from position p to position m.
PartOf(L, p, m, part) ==
    IsLabels(part) /\ \A x : x \in ToSet(part) <=> \E q \in p .. m : x = L[q]

LEMMA PartAscends ==
    ASSUME NEW L, IsLabels(L), NEW p \in 1 .. Len(L) + 1, NEW m \in p - 1 .. Len(L),
           NEW part \in Seq(Amounts), Len(part) = m - p + 1,
           \A i \in 1 .. m - p + 1 : part[i] = L[p + i - 1]
    PROVE  PartOf(L, p, m, part)
<1>1. /\ Len(L) \in Nat /\ \A i, k \in 1 .. Len(L) : i < k => L[i] < L[k]
  BY LabelsAscend
<1>2. p \in Nat /\ m \in Nat /\ DOMAIN part = 1 .. m - p + 1
  BY <1>1
<1>3. \A i \in 1 .. m - p + 1 : p + i - 1 \in p .. m /\ p + i - 1 \in 1 .. Len(L)
  BY <1>1, <1>2
<1>4. \A q \in p .. m : q - p + 1 \in 1 .. m - p + 1 /\ p + (q - p + 1) - 1 = q
  BY <1>1, <1>2
<1>5. ASSUME NEW i \in 1 .. m - p + 1, NEW k \in 1 .. m - p + 1, i < k
      PROVE  part[i] < part[k]
  <2>1. p + i - 1 < p + k - 1
    BY <1>2, <1>5
  <2> QED BY <1>1, <1>3, <2>1
<1>6. IsLabels(part)
  BY <1>2, <1>5 DEF IsLabels, Ascending
<1>7. ASSUME NEW x \in ToSet(part) PROVE \E q \in p .. m : x = L[q]
  <2>1. PICK i \in 1 .. m - p + 1 : x = part[i]
    BY <1>2 DEF ToSet
  <2> QED BY <1>3, <2>1
<1>8. ASSUME NEW q \in p .. m PROVE L[q] \in ToSet(part)
  <2>1. part[q - p + 1] = L[q]
    BY <1>4
  <2> QED BY <1>2, <1>4, <2>1 DEF ToSet
<1> QED BY <1>6, <1>7, <1>8 DEF PartOf

\* A step of the union, for the label a: nothing of L is left, or what is left
\* is smaller, or its part from the cursor to m is, and the next is not.
Exhausted(L, acc, a, next) ==
    acc.j > Len(L) /\ next = [acc EXCEPT !.data = Append(@, a)]
TakesTheRest(L, acc, a, next) ==
    /\ acc.j <= Len(L)
    /\ \A q \in acc.j .. Len(L) : L[q] < a
    /\ \E part : /\ PartOf(L, acc.j, Len(L), part)
                 /\ next = [j |-> Len(L) + 1, data |-> acc.data \o part]
TakesUpTo(L, acc, a, m, next) ==
    /\ \A q \in acc.j .. m : L[q] < a
    /\ L[m + 1] >= a
    /\ \E part : /\ PartOf(L, acc.j, m, part)
                 /\ next = [j    |-> m + 1 + (IF L[m + 1] = a THEN 1 ELSE 0),
                           data |-> Append(acc.data \o part, a)]

\* SelectInSeq answers with the first position that passes, or with 0.
FirstAtLeast(s, a, n) ==
    /\ n \in 0 .. Len(s)
    /\ n = 0 => \A i \in 1 .. Len(s) : s[i] < a
    /\ n > 0 => s[n] >= a /\ \A i \in 1 .. n - 1 : s[i] < a
LEMMA SelectsFirst ==
    ASSUME NEW s \in Seq(Amounts), NEW a \in Amounts
    PROVE  FirstAtLeast(s, a, SelectInSeq(s, LAMBDA b : b >= a))
<1> DEFINE I == {i \in 1 .. Len(s) : s[i] >= a}
           n == SelectInSeq(s, LAMBDA b : b >= a)
<1>1. n = IF I # {} THEN Min(I) ELSE 0
  BY DEF SelectInSeq
<1>2. Len(s) \in Nat /\ I \in SUBSET (1 .. Len(s))
  OBVIOUS
<1>3. a \in Nat /\ \A i \in 1 .. Len(s) : s[i] \in Nat
  <2>1. \A w \in Amounts : w \in Nat
    BY AmountAssumption DEF Amounts
  <2> QED BY <2>1, ElementOfSeq
<1>4. I # {} => Min(I) \in I /\ \A y \in I : Min(I) <= y
  <2> HIDE DEF I, n
  <2> QED BY <1>2, MinProperty
<1>5. CASE I = {}
  <2>1. n = 0 /\ \A i \in 1 .. Len(s) : s[i] < a
    BY <1>1, <1>3, <1>5
  <2> HIDE DEF n
  <2>2. FirstAtLeast(s, a, n)
    BY <1>2, <2>1 DEF FirstAtLeast
  <2> QED BY <2>2 DEF n
<1>6. CASE I # {}
  <2>1. n \in I /\ \A y \in I : n <= y
    BY <1>1, <1>4, <1>6
  <2> HIDE DEF n
  <2>2. n \in 1 .. Len(s) /\ s[n] >= a
    BY <2>1
  <2>3. ASSUME NEW i \in 1 .. n - 1 PROVE s[i] < a
    <3>1. i \in 1 .. Len(s) /\ i < n
      BY <1>2, <2>2
    <3>2. i \notin I
      <4> HIDE DEF I
      <4> QED BY <2>1, <2>2, <3>1
    <3> QED BY <1>3, <3>1, <3>2
  <2>4. FirstAtLeast(s, a, n)
    <3> HIDE DEF I
    <3> QED BY <1>2, <2>2, <2>3 DEF FirstAtLeast
  <2> QED BY <2>4 DEF n
<1> QED BY <1>5, <1>6

LEMMA UnionSteps ==
    ASSUME NEW A \in Seq(Amounts), NEW L, IsLabels(L), NEW k \in 1 .. Len(A),
           NEW acc \in UnionStates(L)
    PROVE  \/ Exhausted(L, acc, A[k], UnionStep(A, L, acc, k))
           \/ TakesTheRest(L, acc, A[k], UnionStep(A, L, acc, k))
           \/ \E m \in acc.j - 1 .. Len(L) - 1 :
                 TakesUpTo(L, acc, A[k], m, UnionStep(A, L, acc, k))
<1> DEFINE a       == A[k]
           rest    == SubSeq(L, acc.j, Len(L))
           next    == SelectInSeq(rest, LAMBDA b : b >= a)
           smaller == SubSeq(rest, 1, next - 1)
           step    == UnionStep(A, L, acc, k)
<1>1. /\ acc.j \in 1 .. Len(L) + 1 /\ acc.data \in Seq(Amounts) /\ a \in Amounts
      /\ L \in Seq(Amounts) /\ Len(L) \in Nat
  BY ElementOfSeq DEF UnionStates, IsLabels
<1>2. /\ rest \in Seq(Amounts) /\ Len(rest) = Len(L) - acc.j + 1
      /\ \A i \in 1 .. Len(L) - acc.j + 1 : rest[i] = L[acc.j + i - 1]
  <2>1. \A i \in acc.j .. Len(L) : L[i] \in Amounts
    BY <1>1, ElementOfSeq
  <2> QED BY <1>1, <2>1, SubSeqProperties
<1>3. FirstAtLeast(rest, a, next)
  <2> HIDE DEF rest, a
  <2> QED BY <1>1, <1>2, SelectsFirst
<1>4. a \in Nat /\ \A q \in 1 .. Len(L) : L[q] \in Nat
  <2>1. \A w \in Amounts : w \in Nat
    BY AmountAssumption DEF Amounts
  <2> QED BY <1>1, <2>1, LabelsAscend
<1>5. /\ rest = << >> => step = [acc EXCEPT !.data = Append(@, a)]
      /\ rest # << >> /\ next = 0 => step = [j |-> Len(L) + 1, data |-> acc.data \o rest]
      /\ rest # << >> /\ next # 0 =>
            step = [j    |-> acc.j + Len(smaller) + (IF rest[next] = a THEN 1 ELSE 0),
                    data |-> Append(acc.data \o smaller, a)]
  BY DEF UnionStep
<1>6. \A q \in acc.j .. Len(L) : q - acc.j + 1 \in 1 .. Len(rest) /\ L[q] = rest[q - acc.j + 1]
  <2> HIDE DEF rest
  <2>1. \A q \in acc.j .. Len(L) : /\ q - acc.j + 1 \in 1 .. Len(L) - acc.j + 1
                                    /\ acc.j + (q - acc.j + 1) - 1 = q
    BY <1>1
  <2> QED BY <1>2, <2>1
<1>7. next # 0 => /\ smaller \in Seq(Amounts) /\ Len(smaller) = next - 1
                  /\ \A i \in 1 .. next - 1 : smaller[i] = rest[i]
  <2> HIDE DEF rest, next
  <2>1. next \in 0 .. Len(rest) /\ Len(rest) \in Nat
    BY <1>2, <1>3 DEF FirstAtLeast
  <2>2. \A i \in 1 .. next - 1 : rest[i] \in Amounts
    BY <1>2, <2>1, ElementOfSeq
  <2> SUFFICES ASSUME next # 0
               PROVE  /\ smaller \in Seq(Amounts) /\ Len(smaller) = next - 1
                      /\ \A i \in 1 .. next - 1 : smaller[i] = rest[i]
    OBVIOUS
  <2>3. next - 1 \in Nat /\ 1 <= next - 1 + 1
    BY <2>1
  <2>4. smaller \in Seq(Amounts) /\ Len(smaller) = next - 1
    BY <2>1, <2>2, <2>3, SubSeqProperties
  <2>5. ASSUME NEW i \in 1 .. next - 1 PROVE smaller[i] = rest[i]
    <3>1. i \in 1 .. next - 1 - 1 + 1 /\ 1 + i - 1 = i
      BY <2>3
    <3>2. smaller[i] = rest[1 + i - 1]
      BY <2>1, <2>2, <2>3, <3>1, SubSeqProperties
    <3> QED BY <3>1, <3>2
  <2> QED BY <2>4, <2>5
<1> HIDE DEF rest, next, smaller, step
<1>8. CASE rest = << >>
  <2>1. acc.j > Len(L)
    BY <1>1, <1>2, <1>8
  <2> QED BY <1>5, <1>8, <2>1 DEF Exhausted, step
<1>9. CASE rest # << >> /\ next = 0
  <2>1. acc.j <= Len(L)
    BY <1>1, <1>2, <1>9
  <2>2. \A q \in acc.j .. Len(L) : L[q] < a
    BY <1>3, <1>6, <1>9 DEF FirstAtLeast
  <2>3. PartOf(L, acc.j, Len(L), rest)
    <3>1. Len(L) \in acc.j - 1 .. Len(L)
      BY <1>1
    <3> QED BY <1>1, <1>2, <3>1, PartAscends
  <2>4. TakesTheRest(L, acc, a, step)
    BY <1>5, <1>9, <2>1, <2>2, <2>3 DEF TakesTheRest
  <2> QED BY <2>4 DEF step
<1>10. CASE rest # << >> /\ next # 0
  <2>1. next \in 1 .. Len(L) - acc.j + 1
    BY <1>1, <1>2, <1>3, <1>10 DEF FirstAtLeast
  <2> DEFINE m == acc.j + next - 2
  <2>2. m \in acc.j - 1 .. Len(L) - 1 /\ m + 1 = acc.j + next - 1 /\ m - acc.j + 1 = next - 1
    BY <1>1, <2>1
  <2>3. L[m + 1] = rest[next] /\ rest[next] >= a
    BY <1>2, <1>3, <2>1, <2>2 DEF FirstAtLeast
  <2>4. ASSUME NEW q \in acc.j .. m PROVE L[q] < a
    <3>1. q \in acc.j .. Len(L) /\ q - acc.j + 1 \in 1 .. next - 1
      BY <1>1, <2>1
    <3> QED BY <1>3, <1>6, <2>1, <3>1 DEF FirstAtLeast
  <2> HIDE DEF m
  <2>5. PartOf(L, acc.j, m, smaller)
    <3>1. \A i \in 1 .. next - 1 : i \in 1 .. Len(L) - acc.j + 1
      BY <1>1, <2>1
    <3>2. smaller \in Seq(Amounts) /\ Len(smaller) = m - acc.j + 1
      BY <1>7, <2>1, <2>2
    <3>3. ASSUME NEW i \in 1 .. m - acc.j + 1 PROVE smaller[i] = L[acc.j + i - 1]
      <4>1. i \in 1 .. next - 1 /\ next # 0
        BY <2>1, <2>2
      <4>2. smaller[i] = rest[i]
        BY <1>7, <4>1
      <4> QED BY <1>2, <3>1, <4>1, <4>2
    <3>4. m \in acc.j - 1 .. Len(L)
      BY <1>1, <2>2
    <3> QED BY <1>1, <3>2, <3>3, <3>4, PartAscends
  <2>6. acc.j + Len(smaller) = m + 1
    BY <1>1, <1>7, <2>1, <2>2
  <2>7. step = [j    |-> m + 1 + (IF L[m + 1] = a THEN 1 ELSE 0),
                data |-> Append(acc.data \o smaller, a)]
    BY <1>5, <1>10, <2>3, <2>6
  <2>8. TakesUpTo(L, acc, a, m, step)
    BY <2>3, <2>4, <2>5, <2>7 DEF TakesUpTo
  <2> QED BY <2>2, <2>8 DEF step
<1> QED BY <1>8, <1>9, <1>10

\* What the union has after k labels of A: ascending labels, none beyond the
\* k-th and none from elsewhere, all of L that the cursor j has passed, and all
\* of A but for one it may have lost when L was used up.
UnionHas(A, L, k, j, data) ==
    /\ IsLabels(data)
    /\ \A x \in ToSet(data) : \E i \in 1 .. k : x <= A[i]
    /\ \A x \in ToSet(data) : (\E i \in 1 .. k : x = A[i]) \/ (\E q \in 1 .. j - 1 : x = L[q])
    /\ \A q \in 1 .. j - 1 : L[q] \in ToSet(data)
    /\ \A q \in j .. Len(L), i \in 1 .. k : A[i] < L[q]
UnionLost(A, L, k, j, data) ==
    /\ j <= Len(L) => \A i \in 1 .. k : A[i] \in ToSet(data)
    /\ \E l : \A i \in 1 .. k : A[i] = l \/ A[i] \in ToSet(data)
UnionInv(A, L, k, acc) ==
    UnionHas(A, L, k, acc.j, acc.data) /\ UnionLost(A, L, k, acc.j, acc.data)

LEMMA UnionStarts ==
    ASSUME NEW A, NEW L, IsLabels(L)
    PROVE  UnionInv(A, L, 0, [j |-> 1, data |-> << >>])
<1>1. ToSet(<< >>) = {} /\ IsLabels(<< >>)
  BY DEF ToSet, IsLabels, Ascending
<1>2. UnionHas(A, L, 0, 1, << >>) /\ UnionLost(A, L, 0, 1, << >>)
  BY <1>1 DEF UnionHas, UnionLost
<1> QED BY <1>2 DEF UnionInv

LEMMA UnionStepKeeps ==
    ASSUME NEW A, IsLabels(A), NEW L, IsLabels(L), NEW k \in 1 .. Len(A),
           NEW acc \in UnionStates(L), UnionInv(A, L, k - 1, acc)
    PROVE  UnionInv(A, L, k, UnionStep(A, L, acc, k))
<1> DEFINE a    == A[k]
           j    == acc.j
           data == acc.data
           X    == ToSet(data)
           step == UnionStep(A, L, acc, k)
<1>1. /\ Len(A) \in Nat /\ \A i \in 1 .. Len(A) : A[i] \in Nat
      /\ \A i, h \in 1 .. Len(A) : i < h => A[i] < A[h]
  BY LabelsAscend
<1>2. /\ Len(L) \in Nat /\ \A q \in 1 .. Len(L) : L[q] \in Nat
      /\ \A q, h \in 1 .. Len(L) : q < h => L[q] < L[h]
  BY LabelsAscend
<1>3. /\ j \in 1 .. Len(L) + 1 /\ data \in Seq(Amounts) /\ a \in Amounts
      /\ A \in Seq(Amounts) /\ k \in Nat \ {0}
  BY <1>1, ElementOfSeq DEF UnionStates, IsLabels
<1>4. /\ IsLabels(data)
      /\ \A x \in X : \E i \in 1 .. k - 1 : x <= A[i]
      /\ \A x \in X : (\E i \in 1 .. k - 1 : x = A[i]) \/ (\E q \in 1 .. j - 1 : x = L[q])
      /\ \A q \in 1 .. j - 1 : L[q] \in X
      /\ \A q \in j .. Len(L), i \in 1 .. k - 1 : A[i] < L[q]
      /\ j <= Len(L) => \A i \in 1 .. k - 1 : A[i] \in X
      /\ \E l : \A i \in 1 .. k - 1 : A[i] = l \/ A[i] \in X
  BY DEF UnionInv, UnionHas, UnionLost
<1>5. a \in Nat /\ \A x \in X : x \in Nat
  <2>1. \A w \in Amounts : w \in Nat
    BY AmountAssumption DEF Amounts
  <2>2. \A x \in X : x \in Amounts
    BY <1>3, ElementOfSeq DEF ToSet
  <2> QED BY <1>3, <2>1, <2>2
<1>6. /\ \A i : i \in 1 .. k <=> i \in 1 .. k - 1 \/ i = k
      /\ \A i \in 1 .. k - 1 : i \in 1 .. Len(A) /\ i < k
  BY <1>1, <1>3
<1>7. \A i \in 1 .. k - 1 : A[i] < a /\ A[i] \in Nat
  BY <1>1, <1>6
<1>8. \A x \in X : x < a
  <2> SUFFICES ASSUME NEW x \in X PROVE x < a
    OBVIOUS
  <2>1. PICK i \in 1 .. k - 1 : x <= A[i]
    BY <1>4
  <2>2. A[i] < a /\ A[i] \in Nat /\ x \in Nat
    BY <1>5, <1>7
  <2> HIDE DEF a, X
  <2> QED BY <1>5, <2>1, <2>2
<1>9. \A q \in j .. Len(L) : q \in 1 .. Len(L) /\ L[q] \in Nat
  BY <1>2, <1>3
<1>10. \A x \in X, q \in j .. Len(L) : x < L[q]
  <2> SUFFICES ASSUME NEW x \in X, NEW q \in j .. Len(L) PROVE x < L[q]
    OBVIOUS
  <2>1. PICK i \in 1 .. k - 1 : x <= A[i]
    BY <1>4
  <2>2. A[i] < L[q] /\ A[i] \in Nat /\ x \in Nat /\ L[q] \in Nat
    BY <1>4, <1>5, <1>7, <1>9
  <2> HIDE DEF X, j
  <2> QED BY <2>1, <2>2
<1> HIDE DEF a, j, data, X, step
<1>11. CASE Exhausted(L, acc, a, step)
  <2> DEFINE more == Append(data, a)
  <2>1. j > Len(L) /\ step.j = j /\ step.data = more
    BY <1>11 DEF Exhausted, UnionStates, j, data
  <2>2. ToSet(more) = X \cup {a}
    BY <1>3, SetOfAppend DEF X
  <2>3. IsLabels(more)
    BY <1>3, <1>4, <1>8, AscendingAppend DEF X
  <2> HIDE DEF more
  <2>4. UnionHas(A, L, k, j, more)
    <3>1. \A x \in ToSet(more) : \E i \in 1 .. k : x <= A[i]
      BY <1>4, <1>5, <1>6, <2>2 DEF a
    <3>2. \A x \in ToSet(more) : (\E i \in 1 .. k : x = A[i]) \/ (\E q \in 1 .. j - 1 : x = L[q])
      BY <1>4, <1>6, <2>2 DEF a
    <3>3. \A q \in j .. Len(L) : FALSE
      BY <1>2, <1>3, <2>1
    <3> QED BY <1>4, <2>2, <2>3, <3>1, <3>2, <3>3 DEF UnionHas
  <2>5. UnionLost(A, L, k, j, more)
    <3>1. ~ j <= Len(L)
      BY <1>2, <1>3, <2>1
    <3>2. PICK l : \A i \in 1 .. k - 1 : A[i] = l \/ A[i] \in X
      BY <1>4
    <3>3. \A i \in 1 .. k : A[i] = l \/ A[i] \in ToSet(more)
      BY <1>6, <2>2, <3>2 DEF a
    <3> QED BY <3>1, <3>3 DEF UnionLost
  <2> QED BY <2>1, <2>4, <2>5 DEF UnionInv, step
<1>12. CASE TakesTheRest(L, acc, a, step)
  <2>1. PICK part : /\ PartOf(L, j, Len(L), part)
                    /\ step = [j |-> Len(L) + 1, data |-> data \o part]
    BY <1>12 DEF TakesTheRest, j, data
  <2>2. j <= Len(L) /\ \A q \in j .. Len(L) : L[q] < a
    BY <1>12 DEF TakesTheRest, j
  <2>3. /\ part \in Seq(Amounts) /\ IsLabels(part)
        /\ \A x : x \in ToSet(part) <=> \E q \in j .. Len(L) : x = L[q]
    BY <2>1 DEF PartOf, IsLabels
  <2> DEFINE more == data \o part
  <2>4. ToSet(more) = X \cup ToSet(part)
    BY <1>3, <2>3, SetOfConcat DEF X
  <2>5. IsLabels(more)
    BY <1>4, <1>10, <2>3, AscendingConcat DEF X
  <2>6. step.j = Len(L) + 1 /\ step.data = more
    BY <2>1
  <2> HIDE DEF more
  <2>7. \A q : q \in 1 .. (Len(L) + 1) - 1 <=> q \in 1 .. j - 1 \/ q \in j .. Len(L)
    BY <1>2, <1>3
  <2>8. UnionHas(A, L, k, Len(L) + 1, more)
    <3>1. \A x \in ToSet(more) : \E i \in 1 .. k : x <= A[i]
      <4>1. \A x \in ToSet(part) : x <= A[k]
        BY <1>5, <1>9, <2>2, <2>3 DEF a
      <4> QED BY <1>4, <1>6, <2>4, <4>1
    <3>2. \A x \in ToSet(more) :
             (\E i \in 1 .. k : x = A[i]) \/ (\E q \in 1 .. (Len(L) + 1) - 1 : x = L[q])
      BY <1>4, <1>6, <2>3, <2>4, <2>7
    <3>3. \A q \in 1 .. (Len(L) + 1) - 1 : L[q] \in ToSet(more)
      BY <1>4, <2>3, <2>4, <2>7
    <3>4. \A q \in Len(L) + 1 .. Len(L) : FALSE
      BY <1>2
    <3> QED BY <2>5, <3>1, <3>2, <3>3, <3>4 DEF UnionHas
  <2>9. UnionLost(A, L, k, Len(L) + 1, more)
    <3>1. ~ Len(L) + 1 <= Len(L)
      BY <1>2
    <3>2. \A i \in 1 .. k : A[i] = A[k] \/ A[i] \in ToSet(more)
      BY <1>4, <1>6, <2>2, <2>4
    <3> QED BY <3>1, <3>2 DEF UnionLost
  <2> QED BY <2>6, <2>8, <2>9 DEF UnionInv, step
<1>13. ASSUME NEW m \in j - 1 .. Len(L) - 1, TakesUpTo(L, acc, a, m, step)
       PROVE  UnionInv(A, L, k, step)
  <2> DEFINE next == m + 1 + (IF L[m + 1] = a THEN 1 ELSE 0)
  <2>1. PICK part : /\ PartOf(L, j, m, part)
                    /\ step = [j |-> next, data |-> Append(data \o part, a)]
    BY <1>13 DEF TakesUpTo, j, data
  <2>2. L[m + 1] >= a /\ \A q \in j .. m : L[q] < a
    BY <1>13 DEF TakesUpTo, j
  <2>3. /\ part \in Seq(Amounts) /\ IsLabels(part)
        /\ \A x : x \in ToSet(part) <=> \E q \in j .. m : x = L[q]
    BY <2>1 DEF PartOf, IsLabels
  <2>4. m \in Nat /\ m + 1 \in j .. Len(L) /\ j <= Len(L) /\ L[m + 1] \in Nat
    BY <1>2, <1>3, <1>9
  <2>5. \A q \in j .. m : q \in j .. Len(L)
    BY <1>2, <1>3, <2>4
  <2> DEFINE some == data \o part
             more == Append(some, a)
  <2>6. ToSet(some) = X \cup ToSet(part) /\ some \in Seq(Amounts)
    BY <1>3, <2>3, SetOfConcat, ConcatProperties DEF X
  <2>7. IsLabels(some)
    BY <1>4, <1>10, <2>3, <2>5, AscendingConcat DEF X
  <2>8. step.j = next /\ step.data = more
    BY <2>1
  <2> HIDE DEF some
  <2>9. ToSet(more) = X \cup ToSet(part) \cup {a}
    BY <1>3, <2>6, SetOfAppend
  <2>10. IsLabels(more)
    <3>1. \A y \in ToSet(some) : y < a
      BY <1>8, <2>2, <2>3, <2>6
    <3> QED BY <1>3, <2>7, <3>1, AscendingAppend
  <2>11. /\ next \in {m + 1, m + 2} /\ (next = m + 2 <=> L[m + 1] = a)
    BY <2>4
  <2> HIDE DEF more, next
  <2>12. \A q \in 1 .. next - 1 : q \in 1 .. j - 1 \/ q \in j .. m \/ (q = m + 1 /\ L[q] = a)
    BY <1>3, <2>4, <2>11
  <2>13. /\ \A q \in 1 .. j - 1 : q \in 1 .. next - 1
         /\ \A q \in j .. m : q \in 1 .. next - 1
    BY <1>3, <2>4, <2>11
  <2>14. ASSUME NEW q \in next .. Len(L) PROVE a < L[q]
    <3>1. q \in 1 .. Len(L) /\ L[q] \in Nat /\ m + 1 \in 1 .. Len(L)
      BY <1>2, <1>3, <2>4, <2>11
    <3>2. q = m + 1 \/ L[m + 1] < L[q]
      BY <1>2, <2>4, <2>11, <3>1
    <3>3. q = m + 1 => L[m + 1] # a
      BY <2>4, <2>11
    <3> QED BY <1>5, <2>2, <2>4, <3>1, <3>2, <3>3
  <2>15. UnionHas(A, L, k, next, more)
    <3>1. \A x \in ToSet(more) : \E i \in 1 .. k : x <= A[i]
      <4>1. \A x \in ToSet(part) : x <= A[k]
        BY <1>5, <1>9, <2>2, <2>3, <2>5 DEF a
      <4>2. a <= A[k] /\ k \in 1 .. k
        BY <1>5, <1>6 DEF a
      <4> QED BY <1>4, <1>6, <2>9, <4>1, <4>2
    <3>2. \A x \in ToSet(more) :
             (\E i \in 1 .. k : x = A[i]) \/ (\E q \in 1 .. next - 1 : x = L[q])
      <4>1. \A x \in X : (\E i \in 1 .. k : x = A[i]) \/ (\E q \in 1 .. next - 1 : x = L[q])
        BY <1>4, <1>6, <2>13
      <4>2. \A x \in ToSet(part) : \E q \in 1 .. next - 1 : x = L[q]
        BY <2>3, <2>13
      <4>3. a = A[k] /\ k \in 1 .. k
        BY <1>6 DEF a
      <4> QED BY <2>9, <4>1, <4>2, <4>3
    <3>3. \A q \in 1 .. next - 1 : L[q] \in ToSet(more)
      BY <1>4, <2>3, <2>9, <2>12
    <3>4. ASSUME NEW q \in next .. Len(L), NEW i \in 1 .. k PROVE A[i] < L[q]
      <4>1. a < L[q] /\ L[q] \in Nat
        BY <1>2, <1>3, <2>4, <2>11, <2>14
      <4>2. A[i] = a \/ (A[i] < a /\ A[i] \in Nat)
        BY <1>6, <1>7 DEF a
      <4> QED BY <1>5, <4>1, <4>2
    <3> QED BY <2>10, <3>1, <3>2, <3>3, <3>4 DEF UnionHas
  <2>16. UnionLost(A, L, k, next, more)
    <3>1. \A i \in 1 .. k : A[i] \in ToSet(more)
      BY <1>4, <1>6, <2>4, <2>9 DEF a
    <3> QED BY <3>1 DEF UnionLost
  <2> QED BY <2>8, <2>15, <2>16 DEF UnionInv
<1>14. \/ Exhausted(L, acc, a, step)
       \/ TakesTheRest(L, acc, a, step)
       \/ \E m \in j - 1 .. Len(L) - 1 : TakesUpTo(L, acc, a, m, step)
  BY <1>3, UnionSteps DEF a, j, step
<1>15. UnionInv(A, L, k, step)
  BY <1>11, <1>12, <1>13, <1>14 DEF step
<1> QED BY <1>15 DEF step

\* The union of ascending labels ascends, has all labels of L up to the last
\* of A, none from elsewhere, and all of A but for one at most.
UnionCorrect(A, L, united) ==
    /\ Ascending(united)
    /\ ToSet(united) \subseteq ToSet(A) \cup ToSet(L)
    /\ \A x \in ToSet(L) : x <= A[Len(A)] => x \in ToSet(united)
    /\ Cardinality(ToSet(A) \ ToSet(united)) <= 1

LEMMA UnitedCorrect ==
    ASSUME NEW A, IsLabels(A), A # << >>, NEW L, IsLabels(L)
    PROVE  UnionCorrect(A, L, United(A, L))
<1> DEFINE U == UnionStates(L)
           n == Len(A)
           S == ToSet(United(A, L))
<1>1. /\ A \in Seq(Amounts) /\ L \in Seq(Amounts) /\ DOMAIN A = 1 .. n /\ DOMAIN L = 1 .. Len(L)
      /\ n \in Nat \ {0} /\ n \in 1 .. n /\ Len(L) \in Nat
  BY LabelsAscend DEF IsLabels
<1>2. PICK f \in [0 .. n -> U] : IsUnion(A, L, f)
  <2>1. [j |-> 1, data |-> << >>] \in U
    BY <1>1 DEF UnionStates
  <2>2. UnionClosed(A, L, U)
    BY <1>1, <2>1, UnionStepType DEF UnionClosed
  <2> QED BY <1>1, <2>2, UnitedPrefixes
<1> DEFINE Good == {k \in 0 .. n : UnionInv(A, L, k, f[k])}
<1>3. 0 \in Good
  <2>1. UnionInv(A, L, 0, f[0])
    BY <1>2, UnionStarts DEF IsUnion
  <2>2. 0 \in 0 .. n
    BY <1>1
  <2> QED BY <2>1, <2>2
<1>4. ASSUME NEW k \in 1 .. n, k - 1 \in Good PROVE k \in Good
  <2>1. k - 1 \in 0 .. n /\ k \in 0 .. n
    BY <1>1
  <2>2. f[k - 1] \in U /\ UnionInv(A, L, k - 1, f[k - 1])
    BY <1>4, <2>1
  <2>3. f[k] = UnionStep(A, L, f[k - 1], k)
    BY <1>2 DEF IsUnion
  <2>4. UnionInv(A, L, k, f[k])
    BY <2>2, <2>3, UnionStepKeeps
  <2> QED BY <2>1, <2>4
<1>5. 0 .. n \subseteq Good
  <2> HIDE DEF Good
  <2> QED BY <1>1, <1>3, <1>4, UpTo
<1>6. PICK j : /\ j \in 1 .. Len(L) + 1
               /\ UnionHas(A, L, n, j, United(A, L)) /\ UnionLost(A, L, n, j, United(A, L))
  <2>1. n \in 0 .. n
    BY <1>1
  <2>2. UnionInv(A, L, n, f[n]) /\ f[n] \in U
    BY <1>5, <2>1
  <2> QED BY <1>2, <2>2 DEF UnionInv, IsUnion, UnionStates
<1>7. Ascending(United(A, L))
  BY <1>6 DEF UnionHas, IsLabels
<1>8. S \subseteq ToSet(A) \cup ToSet(L)
  <2>1. \A q \in 1 .. j - 1 : q \in 1 .. Len(L)
    BY <1>1, <1>6
  <2> QED BY <1>1, <1>6, <2>1 DEF UnionHas, ToSet
<1>9. ASSUME NEW x \in ToSet(L), x <= A[n] PROVE x \in S
  <2>1. PICK q \in 1 .. Len(L) : x = L[q]
    BY <1>1 DEF ToSet
  <2>2. CASE q \in 1 .. j - 1
    BY <1>6, <2>1, <2>2 DEF UnionHas
  <2>3. CASE q \in j .. Len(L)
    <3>1. A[n] < L[q]
      BY <1>1, <1>6, <2>3 DEF UnionHas
    <3>2. A[n] \in Nat /\ L[q] \in Nat
      BY <1>1, LabelsAscend
    <3> QED BY <1>9, <2>1, <3>1, <3>2
  <2> QED BY <1>6, <2>2, <2>3
<1>10. Cardinality(ToSet(A) \ S) <= 1
  <2>1. PICK l : \A i \in 1 .. n : A[i] = l \/ A[i] \in S
    BY <1>6 DEF UnionLost
  <2>2. ToSet(A) \ S \subseteq {l}
    BY <1>1, <2>1 DEF ToSet
  <2>3. IsFiniteSet({l}) /\ Cardinality({l}) = 1
    BY FS_Singleton
  <2> HIDE DEF S
  <2>4. IsFiniteSet(ToSet(A) \ S) /\ Cardinality(ToSet(A) \ S) <= Cardinality({l})
    BY <2>2, <2>3, FS_Subset
  <2> QED BY <2>3, <2>4
<1> QED BY <1>7, <1>8, <1>9, <1>10 DEF UnionCorrect

-----------------------------------------------------------------------------
(***************************************************************************)
(* What the assembler makes of a program.                                  *)
(***************************************************************************)
LEMMA TupleAppend ==
    ASSUME NEW x, NEW y, NEW z
    PROVE  /\ Append(<< >>, x) = <<x>> /\ Append(<<x>>, y) = <<x, y>>
           /\ Append(<<x, y>>, z) = <<x, y, z>>
<1> DEFINE S == {x, y, z}
<1>1. << >> \in Seq(S) /\ <<x>> \in Seq(S) /\ <<x, y>> \in Seq(S)
  OBVIOUS
<1>2. /\ x \in S /\ y \in S /\ z \in S
  OBVIOUS
<1> HIDE DEF S
<1>3. Append(<< >>, x) = <<x>>
  BY <1>1, <1>2, AppendProperties
<1>4. Append(<<x>>, y) = <<x, y>>
  <2> DEFINE s == Append(<<x>>, y)
  <2>1. s \in Seq(S) /\ Len(s) = 2 /\ s[1] = x /\ s[2] = y
    BY <1>1, <1>2, AppendProperties
  <2> HIDE DEF s
  <2>2. s = <<x, y>>
    BY <2>1
  <2> QED BY <2>2 DEF s
<1>5. Append(<<x, y>>, z) = <<x, y, z>>
  <2> DEFINE s == Append(<<x, y>>, z)
  <2>1. s \in Seq(S) /\ Len(s) = 3 /\ s[1] = x /\ s[2] = y /\ s[3] = z
    BY <1>1, <1>2, AppendProperties
  <2> HIDE DEF s
  <2>2. s = <<x, y, z>>
    BY <2>1
  <2> QED BY <2>2 DEF s
<1> QED BY <1>3, <1>4, <1>5

LEMMA FourthAppended ==
    ASSUME NEW x, NEW y, NEW z, NEW u
    PROVE  Append(<<x, y, z>>, u) = <<x, y, z, u>>
<1> DEFINE S == {x, y, z, u}
           s == Append(<<x, y, z>>, u)
<1>1. <<x, y, z>> \in Seq(S) /\ u \in S
  OBVIOUS
<1> HIDE DEF S
<1>2. s \in Seq(S) /\ Len(s) = 4 /\ s[1] = x /\ s[2] = y /\ s[3] = z /\ s[4] = u
  BY <1>1, AppendProperties
<1> HIDE DEF s
<1>3. s = <<x, y, z, u>>
  BY <1>2
<1> QED BY <1>3 DEF s

LEMMA TupleFront ==
    ASSUME NEW x, NEW y, NEW z, NEW u
    PROVE  SubSeq(<<x, y>>, 1, 1) = <<x>> /\ SubSeq(<<x, y, z, u>>, 1, 3) = <<x, y, z>>
<1> DEFINE S == {x, y, z, u}
<1>1. /\ \A i \in 1 .. 1 : <<x, y>>[i] \in S
      /\ \A i \in 1 .. 3 : <<x, y, z, u>>[i] \in S
  OBVIOUS
<1> HIDE DEF S
<1>2. SubSeq(<<x, y>>, 1, 1) = <<x>>
  <2> DEFINE s == SubSeq(<<x, y>>, 1, 1)
  <2>1. s \in Seq(S) /\ Len(s) = 1
    BY <1>1, SubSeqProperties
  <2>2. s[1] = x
    BY <1>1, SubSeqProperties
  <2> HIDE DEF s
  <2>3. s = <<x>>
    BY <2>1, <2>2
  <2> QED BY <2>3 DEF s
<1>3. SubSeq(<<x, y, z, u>>, 1, 3) = <<x, y, z>>
  <2> DEFINE s == SubSeq(<<x, y, z, u>>, 1, 3)
  <2>1. s \in Seq(S) /\ Len(s) = 3
    BY <1>1, SubSeqProperties
  <2>2. \A i \in 1 .. 3 : s[i] = <<x, y, z, u>>[i]
    <3>1. ASSUME NEW i \in 1 .. 3 PROVE s[i] = <<x, y, z, u>>[i]
      <4>1. i \in 1 .. 3 - 1 + 1 /\ 1 + i - 1 = i
        OBVIOUS
      <4>2. s[i] = <<x, y, z, u>>[1 + i - 1]
        BY <1>1, <4>1, SubSeqProperties
      <4> QED BY <4>1, <4>2
    <3> QED BY <3>1
  <2>3. s[1] = x /\ s[2] = y /\ s[3] = z
    BY <2>2
  <2> HIDE DEF s
  <2>4. s = <<x, y, z>>
    BY <2>1, <2>3
  <2> QED BY <2>4 DEF s
<1> QED BY <1>2, <1>3

\* The code of a program, instruction by instruction.
IsAssembly(program, f) ==
    /\ f[0] = << >>
    /\ \A i \in 1 .. Len(program) : f[i] = f[i - 1] \o Words(program, program[i])
    /\ Assemble(program) = f[Len(program)]

LEMMA AssemblySteps ==
    ASSUME NEW program, Len(program) \in Nat
    PROVE  \E f : IsAssembly(program, f)
<1> DEFINE n == Len(program)
           Solves(k, f) == f = [i \in 0 .. k |-> IF i = 0 THEN << >>
                                                ELSE f[i - 1] \o Words(program, program[i])]
           Solved == {k \in 0 .. n : \E f : Solves(k, f)}
<1>1. 0 \in Solved
  <2> DEFINE f == [i \in 0 .. 0 |-> << >>]
  <2>1. Solves(0, f)
    OBVIOUS
  <2> HIDE DEF Solves, f
  <2> QED BY <2>1
<1>2. ASSUME NEW k \in 1 .. n, k - 1 \in Solved PROVE k \in Solved
  <2>1. PICK f : Solves(k - 1, f)
    BY <1>2
  <2> DEFINE g == [i \in 0 .. k |-> IF i = k THEN f[k - 1] \o Words(program, program[k]) ELSE f[i]]
             r == [i \in 0 .. k |-> IF i = 0 THEN << >>
                                    ELSE g[i - 1] \o Words(program, program[i])]
  <2>2. ASSUME NEW i \in 0 .. k PROVE g[i] = r[i]
    <3>1. CASE i = 0
      <4>1. 0 \in 0 .. k - 1 /\ 0 # k /\ 0 \in 0 .. k
        OBVIOUS
      <4>2. f[0] = << >>
        BY <2>1, <4>1
      <4> QED BY <3>1, <4>1, <4>2
    <3>2. CASE i = k
      <4>1. k - 1 \in 0 .. k /\ k - 1 # k /\ k \in 0 .. k /\ k # 0
        OBVIOUS
      <4> QED BY <3>2, <4>1
    <3>3. CASE i # 0 /\ i # k
      <4>1. i \in 0 .. k - 1 /\ i - 1 \in 0 .. k /\ i - 1 # k
        BY <3>3
      <4>2. f[i] = f[i - 1] \o Words(program, program[i])
        BY <2>1, <3>3, <4>1
      <4> QED BY <3>3, <4>1, <4>2
    <3> QED BY <3>1, <3>2, <3>3
  <2>3. g = r
    <3>1. g = [i \in 0 .. k |-> g[i]] /\ r = [i \in 0 .. k |-> r[i]]
      OBVIOUS
    <3> HIDE DEF g, r
    <3> QED BY <2>2, <3>1
  <2>4. Solves(k, g)
    <3> HIDE DEF g
    <3> QED BY <2>3
  <2>5. k \in 0 .. n
    OBVIOUS
  <2> HIDE DEF Solves, g
  <2> QED BY <2>4, <2>5
<1>3. 0 .. n \subseteq Solved
  <2> HIDE DEF Solved
  <2> QED BY <1>1, <1>2, UpTo
<1>4. \E f : Solves(n, f)
  <2>1. n \in 0 .. n
    OBVIOUS
  <2> HIDE DEF Solves
  <2> QED BY <1>3, <2>1
<1> DEFINE code == CHOOSE f : Solves(n, f)
<1>5. Solves(n, code)
  <2> HIDE DEF Solves
  <2> QED BY <1>4
<1>6. Assemble(program) = code[n]
  BY DEF Assemble
<1> HIDE DEF code
<1>7. 0 \in 0 .. n /\ \A i \in 1 .. n : i \in 0 .. n /\ i # 0
  OBVIOUS
<1>8. code[0] = << >> /\ \A i \in 1 .. n : code[i] = code[i - 1] \o Words(program, program[i])
  BY <1>5, <1>7
<1>9. IsAssembly(program, code)
  BY <1>6, <1>8 DEF IsAssembly
<1> QED BY <1>9

-----------------------------------------------------------------------------
(***************************************************************************)
(* The call in progress.                                                   *)
(***************************************************************************)

\* The innermost call, while a program runs.
LEMMA CurrentType ==
    ASSUME TypeOK, ~ Idle
    PROVE  /\ Len(frames) \in Nat \ {0}
           /\ Current \in Frames
           /\ M \in Machine
<1>1. frames \in Seq(Frames) /\ frames # << >>
  BY DEF TypeOK, Idle
<1>2. Len(frames) \in Nat \ {0}
  BY <1>1, EmptySeq
<1>3. Current \in Frames
  BY <1>1, <1>2, ElementOfSeq DEF Current
<1> QED BY <1>2, <1>3 DEF M, Frames

LEMMA ArityType == \A mnemonic : Arity(mnemonic) \in 0 .. 4
BY DEF Arity

\* An instruction that is fetched has all its arguments.
LEMMA Fetched ==
    ASSUME TypeOK, NEW mnemonic, Fetch(mnemonic)
    PROVE  /\ ~ Idle
           /\ Current \in Frames
           /\ M \in Machine
           /\ Arity(mnemonic) \in Nat
           /\ \A n \in 1 .. Arity(mnemonic) : Arg(n) \in Amounts /\ Pos(n) \in Nat
<1>1. ~ Idle /\ Current.pc + Arity(mnemonic) <= Len(Current.code)
  BY DEF Fetch
<1>2. Current \in Frames /\ M \in Machine
  BY <1>1, CurrentType
<1>3. Arity(mnemonic) \in Nat
  BY ArityType
<1>4. ASSUME NEW n \in 1 .. Arity(mnemonic)
      PROVE  Arg(n) \in Amounts /\ Pos(n) \in Nat
  <2>1. Current.code \in Seq(Amounts) /\ Current.pc \in Nat \ {0}
    BY <1>2 DEF Frames
  <2>2. Current.pc + n \in 1 .. Len(Current.code)
    BY <1>1, <1>3, <2>1
  <2>3. Word(n) \in Amounts
    BY <2>1, <2>2, ElementOfSeq DEF Word
  <2>4. Word(n) \in Nat
    BY <2>3, AmountAssumption DEF Amounts
  <2>5. Word(n) % USIZE \in Nat
    BY <2>4, DevilAssumption
  <2> QED BY <2>3, <2>5 DEF Arg, Pos
<1> QED BY <1>1, <1>2, <1>3, <1>4

\* The call after an instruction.
LEMMA AdvancedType ==
    ASSUME TypeOK, NEW mnemonic, Fetch(mnemonic), NEW m \in Machine
    PROVE  Advanced(mnemonic, m) \in Frames
<1>1. Current \in Frames /\ Arity(mnemonic) \in Nat
  BY Fetched
<1>2. Current.pc + Arity(mnemonic) <= Len(Current.code)
  BY DEF Fetch
<1>3. /\ Current.pc + 1 + Arity(mnemonic) \in Nat \ {0}
      /\ Current.pc + 1 + Arity(mnemonic) <= Len(Current.code) + 1
  <2>1. Current.pc \in Nat \ {0} /\ Len(Current.code) \in Nat
    BY <1>1 DEF Frames
  <2> QED BY <1>1, <1>2, <2>1
<1> DEFINE next == [Current EXCEPT !.pc = @ + 1 + Arity(mnemonic), !.m = m]
<1>4. /\ next \in [code : Seq(Amounts), pc : Nat \ {0}, m : Machine, outputs : Nat,
                   items : Seq(Operand)]
      /\ next.pc = Current.pc + 1 + Arity(mnemonic) /\ next.code = Current.code
  BY <1>1, <1>3 DEF Frames
<1>5. next \in Frames
  <2> HIDE DEF next
  <2> QED BY <1>3, <1>4 DEF Frames
<1> QED BY <1>5 DEF Advanced

\* Another frame in place of the innermost.
LEMMA ReplaceType ==
    ASSUME TypeOK, ~ Idle, NEW frame \in Frames
    PROVE  /\ Replace(frame) \in Seq(Frames)
           /\ Len(Replace(frame)) = Len(frames)
           /\ Replace(frame) # << >>
<1>1. frames \in Seq(Frames) /\ Len(frames) \in 1 .. Len(frames)
  BY CurrentType DEF TypeOK
<1>2. Replace(frame) \in Seq(Frames) /\ Len(Replace(frame)) = Len(frames)
  BY <1>1, ExceptSeq DEF Replace
<1> QED BY <1>1, <1>2, EmptySeq

-----------------------------------------------------------------------------
(***************************************************************************)
(* Every kind of step keeps the type invariant.                            *)
(***************************************************************************)

\* A step to calls that are well formed, which may write the storage.
LEMMA RunningType ==
    ASSUME TypeOK, ~ Idle, frames' \in Seq(Frames), frames' # << >>,
           Len(frames') <= GAS_DEPTH, StorageOK(vectors'), UNCHANGED <<owner, committed, tx>>
    PROVE  TypeOK'
BY DEF TypeOK, Idle

LEMMA RevertType ==
    ASSUME TypeOK, ~ Idle, Revert
    PROVE  TypeOK'
BY DevilAssumption DEF TypeOK, Idle, Revert, StorageOK

LEMMA InstructionType ==
    ASSUME TypeOK, NEW mnemonic, NEW outcomes,
           Fetch(mnemonic) => outcomes \subseteq Machine,
           Instruction(mnemonic, outcomes)
    PROVE  TypeOK'
<1>1. Fetch(mnemonic) /\ ~ Idle /\ outcomes \subseteq Machine
  BY DEF Instruction, Fetch
<1>2. CASE outcomes = {}
  BY <1>1, <1>2, RevertType DEF Instruction
<1>3. CASE outcomes # {}
  <2>1. PICK m \in outcomes : frames' = Replace(Advanced(mnemonic, m))
    BY <1>3 DEF Instruction
  <2>2. UNCHANGED <<owner, vectors, committed, tx>>
    BY <1>3 DEF Instruction
  <2>3. Advanced(mnemonic, m) \in Frames
    BY <1>1, AdvancedType
  <2>4. frames' \in Seq(Frames) /\ Len(frames') = Len(frames) /\ frames' # << >>
    BY <1>1, <2>1, <2>3, ReplaceType
  <2>5. StorageOK(vectors') /\ Len(frames') <= GAS_DEPTH
    BY <2>2, <2>4 DEF TypeOK, StorageOK
  <2> QED BY <1>1, <2>2, <2>4, <2>5, RunningType
<1> QED BY <1>2, <1>3

\* What may be loaded is whole words.
LEMMA LoadableType ==
    ASSUME TypeOK, NEW id, Loadable(id)
    PROVE  id \in DOMAIN vectors /\ vectors[id] \in Seq(Amounts)
BY DEF TypeOK, StorageOK, Bytes, Loadable, Stored

LEMMA LoadType ==
    ASSUME TypeOK, NEW id, M \in Machine
    PROVE  /\ Load(id, Labels) \subseteq Machine
           /\ Load(id, Vector) \subseteq Machine
<1>1. Loadable(id) => Labels(vectors[id]) \in Operand /\ Vector(vectors[id]) \in Operand
  BY LoadableType, OperandsAre
<1> QED BY <1>1, PushType DEF Load, When

LEMMA PutType ==
    ASSUME NEW store, StorageOK(store), NEW id, NEW words \in Bytes
    PROVE  StorageOK(Put(store, id, words))
BY DEF StorageOK, Put

LEMMA StoreType ==
    ASSUME TypeOK, NEW mnemonic, NEW id, NEW kind, Store(mnemonic, id, kind)
    PROVE  TypeOK'
<1>1. Fetch(mnemonic) /\ ~ Idle /\ M \in Machine
  BY Fetched DEF Store
<1>2. CASE ~ (Depth(M) > 0 /\ Top(M).kind = kind)
  BY <1>1, <1>2, RevertType DEF Store
<1>3. CASE Depth(M) > 0 /\ Top(M).kind = kind
  <2>1. /\ vectors' = Put(vectors, id, Top(M).data)
        /\ frames' = Replace(Advanced(mnemonic, Drop(M, 1)))
        /\ UNCHANGED <<owner, committed, tx>>
    BY <1>3 DEF Store
  <2>2. Top(M).data \in Bytes
    BY <1>1, <1>3, TopType, OperandData DEF Bytes
  <2>3. StorageOK(vectors')
    BY <2>1, <2>2, PutType DEF TypeOK
  <2>4. Depth(M) \in Nat /\ 1 <= Depth(M)
    BY <1>1, <1>3, DepthType
  <2>5. Drop(M, 1) \in Machine
    BY <1>1, <2>4, DropType
  <2>6. frames' \in Seq(Frames) /\ Len(frames') = Len(frames) /\ frames' # << >>
    BY <1>1, <2>1, <2>5, AdvancedType, ReplaceType
  <2>7. Len(frames') <= GAS_DEPTH
    BY <2>6 DEF TypeOK
  <2> QED BY <1>1, <2>1, <2>3, <2>6, <2>7, RunningType
<1> QED BY <1>2, <1>3

\* A machine with nothing on it but registers, and one with inputs.
LEMMA NewStackType ==
    ASSUME NEW registers \in Nat
    PROVE  /\ NewStack(registers) \in Machine
           /\ \A s \in Seq(Operand) : [NewStack(registers) EXCEPT !.stack = s] \in Machine
<1>1. [r \in 1 .. registers |-> NoOperand] \in [1 .. registers -> Operand]
  BY OperandsAre
<1>2. [r \in 1 .. registers |-> NoOperand] \in Seq(Operand)
  BY <1>1, FunctionIsSeq
<1>3. << >> \in Seq(Operand)
  BY EmptySeq
<1> QED BY <1>2, <1>3 DEF NewStack, Machine

\* A subroutine is entered with one more call, which is well formed.
LEMMA EnterType ==
    ASSUME TypeOK, NEW mnemonic, Fetch(mnemonic), Arity(mnemonic) = 4,
           NEW m \in Machine, NEW pc \in {0, 1}, NEW items \in Seq(Operand),
           Loadable(Arg(1)), Pos(2) <= Depth(m), Len(frames) < GAS_DEPTH,
           Enter(mnemonic, m, pc, items)
    PROVE  TypeOK'
<1> DEFINE code   == vectors[Arg(1)]
           start  == IF pc = 0 THEN Len(code) + 1 ELSE pc
           callee == [NewStack(Pos(4)) EXCEPT !.stack = TopN(m, Pos(2))]
           caller == Replace(Advanced(mnemonic, Drop(m, Pos(2))))
           called == Frame(code, start, callee, Pos(3), items)
<1>1. /\ frames' = Append(caller, called)
      /\ UNCHANGED <<owner, vectors, committed, tx>>
  BY DEF Enter
<1>2. ~ Idle /\ Pos(2) \in Nat /\ Pos(3) \in Nat /\ Pos(4) \in Nat
  BY Fetched
<1>3. code \in Seq(Amounts)
  BY LoadableType
<1>4. TopN(m, Pos(2)) \in Seq(Operand) /\ Drop(m, Pos(2)) \in Machine
  BY <1>2, TopNType, DropType
<1>5. callee \in Machine
  BY <1>2, <1>4, NewStackType
<1>6. called \in Frames
  <2>1. start \in Nat \ {0} /\ start <= Len(code) + 1
    <3> HIDE DEF code
    <3> QED BY <1>3
  <2> HIDE DEF code, start, callee
  <2> QED BY <1>2, <1>3, <1>5, <2>1 DEF Frame, Frames
<1>7. caller \in Seq(Frames) /\ Len(caller) = Len(frames) /\ Len(frames) \in Nat
  <2>1. Advanced(mnemonic, Drop(m, Pos(2))) \in Frames
    BY <1>4, AdvancedType
  <2> QED BY <1>2, <2>1, ReplaceType, CurrentType
<1>8. frames' \in Seq(Frames) /\ Len(frames') = Len(frames) + 1
  <2> HIDE DEF caller, called
  <2> QED BY <1>1, <1>6, <1>7, AppendProperties
<1>9. frames' # << >> /\ Len(frames') <= GAS_DEPTH
  BY <1>7, <1>8, DevilAssumption, EmptySeq
<1>10. StorageOK(vectors')
  BY <1>1 DEF TypeOK, StorageOK
<1> QED BY <1>1, <1>2, <1>8, <1>9, <1>10, RunningType

LEMMA ArityOfCalls == Arity("B") = 4 /\ Arity("FOLD") = 4
BY DEF Arity

LEMMA BType ==
    ASSUME TypeOK, B
    PROVE  TypeOK'
<1>1. Fetch("B") /\ ~ Idle /\ M \in Machine
  BY Fetched DEF B
<1>2. << >> \in Seq(Operand)
  BY EmptySeq
<1>3. CASE Loadable(Arg(1)) /\ Pos(2) <= Depth(M) /\ Len(frames) < GAS_DEPTH
  <2>1. Enter("B", M, 1, << >>)
    BY <1>3 DEF B
  <2> QED BY <1>1, <1>2, <1>3, <2>1, EnterType, ArityOfCalls
<1>4. CASE ~ (Loadable(Arg(1)) /\ Pos(2) <= Depth(M) /\ Len(frames) < GAS_DEPTH)
  BY <1>1, <1>4, RevertType DEF B
<1> QED BY <1>3, <1>4

LEMMA FOLDType ==
    ASSUME TypeOK, FOLD
    PROVE  TypeOK'
<1> DEFINE may == /\ Loadable(Arg(1)) /\ Depth(M) > 0 /\ HasItems(Top(M))
                  /\ Pos(2) <= Depth(M) - 1 /\ Len(frames) < GAS_DEPTH
<1>1. Fetch("FOLD") /\ ~ Idle /\ M \in Machine
  BY Fetched DEF FOLD
<1>2. CASE may
  <2>1. Enter("FOLD", Drop(M, 1), 0, Items(Top(M)))
    BY <1>2 DEF FOLD
  <2>2. Depth(M) \in Nat /\ 1 <= Depth(M)
    BY <1>1, <1>2, DepthType
  <2>3. Drop(M, 1) \in Machine /\ Depth(Drop(M, 1)) = Depth(M) - 1
    BY <1>1, <2>2, DropType
  <2>4. Items(Top(M)) \in Seq(Operand)
    BY <1>1, <1>2, TopType, ItemsType
  <2> QED BY <1>1, <1>2, <2>1, <2>3, <2>4, EnterType, ArityOfCalls
<1>3. CASE ~ may
  BY <1>1, <1>3, RevertType DEF FOLD
<1> QED BY <1>2, <1>3

LEMMA FoldNextType ==
    ASSUME TypeOK, FoldNext
    PROVE  TypeOK'
<1> DEFINE next == Frame(Current.code, 1, Push(M, Head(Current.items)),
                         Current.outputs, Tail(Current.items))
<1>1. /\ ~ Idle /\ Current.items # << >> /\ frames' = Replace(next)
      /\ UNCHANGED <<owner, vectors, committed, tx>>
  BY DEF FoldNext
<1>2. Current \in Frames /\ M \in Machine
  BY <1>1, CurrentType
<1>3. Head(Current.items) \in Operand /\ Tail(Current.items) \in Seq(Operand)
  BY <1>1, <1>2, HeadTailProperties DEF Frames
<1>4. Push(M, Head(Current.items)) \in Machine
  BY <1>2, <1>3, PushType
<1>5. Len(Current.code) \in Nat
  BY <1>2 DEF Frames
<1>6. next \in Frames
  BY <1>2, <1>3, <1>4, <1>5 DEF Frame, Frames
<1>7. frames' \in Seq(Frames) /\ Len(frames') = Len(frames) /\ frames' # << >>
  BY <1>1, <1>6, ReplaceType
<1>8. StorageOK(vectors') /\ Len(frames') <= GAS_DEPTH
  BY <1>1, <1>7 DEF TypeOK, StorageOK
<1> QED BY <1>1, <1>7, <1>8, RunningType

LEMMA ReturnType ==
    ASSUME TypeOK, Return
    PROVE  TypeOK'
<1> DEFINE caller == frames[Len(frames) - 1]
           next   == [caller EXCEPT !.m = PushAll(@, TopN(M, Current.outputs))]
           rest   == SubSeq(frames, 1, Len(frames) - 2)
<1>1. frames \in Seq(Frames) /\ Len(frames) \in Nat /\ Len(frames) > 1 /\ ~ Idle
  BY EmptySeq DEF TypeOK, Return, Idle
<1>2. Current \in Frames /\ M \in Machine
  BY <1>1, CurrentType
<1>3. CASE ~ (Current.outputs <= Depth(M))
  BY <1>1, <1>3, RevertType DEF Return
<1>4. CASE Current.outputs <= Depth(M)
  <2>1. frames' = Append(rest, next) /\ UNCHANGED <<owner, vectors, committed, tx>>
    BY <1>4 DEF Return
  <2>2. caller \in Frames
    BY <1>1, ElementOfSeq
  <2>3. TopN(M, Current.outputs) \in Seq(Operand)
    BY <1>2, <1>4, TopNType DEF Frames
  <2>4. PushAll(caller.m, TopN(M, Current.outputs)) \in Machine
    BY <2>2, <2>3, PushAllType DEF Frames
  <2>5. next \in Frames
    <3> HIDE DEF caller
    <3> QED BY <2>2, <2>4 DEF Frames
  <2>6. rest \in Seq(Frames) /\ Len(rest) = Len(frames) - 2
    <3>1. \A i \in 1 .. Len(frames) - 2 : frames[i] \in Frames
      BY <1>1, ElementOfSeq
    <3>2. Len(frames) - 2 \in Int
      BY <1>1
    <3>3. rest \in Seq(Frames)
      BY <3>1, <3>2, SubSeqProperties
    <3>4. Len(rest) = IF 1 <= Len(frames) - 2 THEN Len(frames) - 2 - 1 + 1 ELSE 0
      BY <3>1, <3>2, SubSeqProperties
    <3>5. \A k \in Nat : k > 1 => (IF 1 <= k - 2 THEN k - 2 - 1 + 1 ELSE 0) = k - 2
      OBVIOUS
    <3>6. Len(rest) = Len(frames) - 2
      BY <1>1, <3>4, <3>5, Zenon
    <3> QED BY <3>3, <3>6
  <2>7. frames' \in Seq(Frames) /\ Len(frames') = Len(frames) - 1
    <3> HIDE DEF rest, next
    <3> QED BY <1>1, <2>1, <2>5, <2>6, AppendProperties
  <2>8. frames' # << >> /\ Len(frames') <= GAS_DEPTH
    BY <1>1, <2>7, DevilAssumption, EmptySeq DEF TypeOK
  <2>9. StorageOK(vectors')
    BY <2>1 DEF TypeOK, StorageOK
  <2> QED BY <1>1, <2>1, <2>7, <2>8, <2>9, RunningType
<1> QED BY <1>3, <1>4

\* The program ends.
LEMMA CommitType ==
    ASSUME TypeOK, ~ Idle, Commit
    PROVE  TypeOK'
BY DevilAssumption DEF TypeOK, Idle, Commit, StorageOK

-----------------------------------------------------------------------------
(***************************************************************************)
(* The instructions that only work on the machine, group by group as they  *)
(* stand in Step.                                                          *)
(***************************************************************************)
OneArgument ==
    {"LDL", "LDV", "LDD", "LDR", "LDM", "STR", "PKV", "PKL", "VPUSH", "T", "LUNION",
     "LPUSH", "ADD", "SUB", "SSB", "MUL", "DIV", "MIN", "MAX", "IMMS", "IMML", "ZEROS",
     "ONES", "POPN", "SWAP"}

LEMMA FirstArgument ==
    ASSUME TypeOK, NEW mnemonic \in OneArgument, Fetch(mnemonic)
    PROVE  Arg(1) \in Amounts /\ Pos(1) \in Nat /\ M \in Machine
<1>1. Arity(mnemonic) = 1
  BY DEF Arity, OneArgument
<1> QED BY <1>1, Fetched

LEMMA JoinArguments ==
    ASSUME TypeOK
    PROVE  /\ Fetch("JFLT") => Pos(1) \in Nat /\ Pos(2) \in Nat
           /\ \A mnemonic \in {"JUPD", "JADD"} :
                 Fetch(mnemonic) => Pos(1) \in Nat /\ Pos(2) \in Nat /\ Pos(3) \in Nat
<1>1. Arity("JFLT") = 2 /\ \A mnemonic \in {"JUPD", "JADD"} : Arity(mnemonic) = 3
  BY DEF Arity
<1> QED BY <1>1, Fetched

LEMMA LoadsAndStoresType ==
    ASSUME TypeOK, LoadsAndStores
    PROVE  TypeOK'
<1>1. ASSUME LDL PROVE TypeOK'
  <2>1. Fetch("LDL") => Load(Arg(1), Labels) \subseteq Machine
    BY FirstArgument, LoadType DEF OneArgument
  <2> QED BY <1>1, <2>1, InstructionType DEF LDL
<1>2. ASSUME LDV PROVE TypeOK'
  <2>1. Fetch("LDV") => Load(Arg(1), Vector) \subseteq Machine
    BY FirstArgument, LoadType DEF OneArgument
  <2> QED BY <1>2, <2>1, InstructionType DEF LDV
<1>3. ASSUME STL PROVE TypeOK'
  BY <1>3, StoreType DEF STL
<1>4. ASSUME STV PROVE TypeOK'
  BY <1>4, StoreType DEF STV
<1>5. ASSUME LDD PROVE TypeOK'
  <2>1. Fetch("LDD") => Ldd(M, Pos(1)) \subseteq Machine
    BY FirstArgument, LddType DEF OneArgument
  <2> QED BY <1>5, <2>1, InstructionType DEF LDD
<1>6. ASSUME LDR PROVE TypeOK'
  <2>1. Fetch("LDR") => Ldr(M, Pos(1)) \subseteq Machine
    BY FirstArgument, LdrType DEF OneArgument
  <2> QED BY <1>6, <2>1, InstructionType DEF LDR
<1>7. ASSUME LDM PROVE TypeOK'
  <2>1. Fetch("LDM") => Ldm(M, Pos(1)) \subseteq Machine
    BY FirstArgument, LdmType DEF OneArgument
  <2> QED BY <1>7, <2>1, InstructionType DEF LDM
<1>8. ASSUME STR PROVE TypeOK'
  <2>1. Fetch("STR") => Str(M, Pos(1)) \subseteq Machine
    BY FirstArgument, StrType DEF OneArgument
  <2> QED BY <1>8, <2>1, InstructionType DEF STR
<1>9. ASSUME POPN PROVE TypeOK'
  <2>1. Fetch("POPN") => Popn(M, Pos(1)) \subseteq Machine
    BY FirstArgument, PopnType DEF OneArgument
  <2> QED BY <1>9, <2>1, InstructionType DEF POPN
<1>10. ASSUME SWAP PROVE TypeOK'
  <2>1. Fetch("SWAP") => Swap(M, Pos(1)) \subseteq Machine
    BY FirstArgument, SwapType DEF OneArgument
  <2> QED BY <1>10, <2>1, InstructionType DEF SWAP
<1> QED BY <1>1, <1>2, <1>3, <1>4, <1>5, <1>6, <1>7, <1>8, <1>9, <1>10 DEF LoadsAndStores

LEMMA StructuresType ==
    ASSUME TypeOK, Structures
    PROVE  TypeOK'
<1>1. ASSUME PKV PROVE TypeOK'
  <2>1. Fetch("PKV") => Pkv(M, Pos(1)) \subseteq Machine
    BY FirstArgument, PkvType DEF OneArgument
  <2> QED BY <1>1, <2>1, InstructionType DEF PKV
<1>2. ASSUME PKL PROVE TypeOK'
  <2>1. Fetch("PKL") => Pkl(M, Pos(1)) \subseteq Machine
    BY FirstArgument, PklType DEF OneArgument
  <2> QED BY <1>2, <2>1, InstructionType DEF PKL
<1>3. ASSUME UNPK PROVE TypeOK'
  <2>1. Fetch("UNPK") => Unpk(M) \subseteq Machine
    BY Fetched, UnpkType
  <2> QED BY <1>3, <2>1, InstructionType DEF UNPK
<1>4. ASSUME T PROVE TypeOK'
  <2>1. Fetch("T") => Transpose(M, Pos(1)) \subseteq Machine
    BY FirstArgument, TransposeType DEF OneArgument
  <2> QED BY <1>4, <2>1, InstructionType DEF T
<1>5. ASSUME VPUSH PROVE TypeOK'
  <2>1. Fetch("VPUSH") => Vpush(M, Arg(1)) \subseteq Machine
    BY FirstArgument, ExtendType DEF OneArgument, Vpush
  <2> QED BY <1>5, <2>1, InstructionType DEF VPUSH
<1>6. ASSUME VPOP PROVE TypeOK'
  <2>1. Fetch("VPOP") => Vpop(M) \subseteq Machine
    BY Fetched, ShrinkType DEF Vpop
  <2> QED BY <1>6, <2>1, InstructionType DEF VPOP
<1>7. ASSUME LPUSH PROVE TypeOK'
  <2>1. Fetch("LPUSH") => Lpush(M, Arg(1)) \subseteq Machine
    BY FirstArgument, ExtendType DEF OneArgument, Lpush
  <2> QED BY <1>7, <2>1, InstructionType DEF LPUSH
<1>8. ASSUME LPOP PROVE TypeOK'
  <2>1. Fetch("LPOP") => Lpop(M) \subseteq Machine
    BY Fetched, ShrinkType DEF Lpop
  <2> QED BY <1>8, <2>1, InstructionType DEF LPOP
<1> QED BY <1>1, <1>2, <1>3, <1>4, <1>5, <1>6, <1>7, <1>8 DEF Structures

LEMMA JoinsOfLabelsType ==
    ASSUME TypeOK, JoinsOfLabels
    PROVE  TypeOK'
<1>1. ASSUME LUNION PROVE TypeOK'
  <2>1. Fetch("LUNION") => Lunion(M, Pos(1)) \subseteq Machine
    BY FirstArgument, LunionType DEF OneArgument
  <2> QED BY <1>1, <2>1, InstructionType DEF LUNION
<1>2. ASSUME JUPD PROVE TypeOK'
  <2>1. Fetch("JUPD") => Jupd(M, Pos(1), Pos(2), Pos(3)) \subseteq Machine
    BY Fetched, JoinArguments, JupdType
  <2> QED BY <1>2, <2>1, InstructionType DEF JUPD
<1>3. ASSUME JADD PROVE TypeOK'
  <2>1. Fetch("JADD") => Jadd(M, Pos(1), Pos(2), Pos(3)) \subseteq Machine
    BY Fetched, JoinArguments, JaddType
  <2> QED BY <1>3, <2>1, InstructionType DEF JADD
<1>4. ASSUME JFLT PROVE TypeOK'
  <2>1. Fetch("JFLT") => Jflt(M, Pos(1), Pos(2)) \subseteq Machine
    BY Fetched, JoinArguments, JfltType
  <2> QED BY <1>4, <2>1, InstructionType DEF JFLT
<1> QED BY <1>1, <1>2, <1>3, <1>4 DEF JoinsOfLabels

LEMMA ArithmeticType ==
    ASSUME TypeOK, Arithmetic
    PROVE  TypeOK'
<1>1. ASSUME ADD PROVE TypeOK'
  <2>1. Fetch("ADD") => Add(M, Pos(1)) \subseteq Machine
    BY FirstArgument, AddType DEF OneArgument
  <2> QED BY <1>1, <2>1, InstructionType DEF ADD
<1>2. ASSUME SUB PROVE TypeOK'
  <2>1. Fetch("SUB") => Sub(M, Pos(1)) \subseteq Machine
    BY FirstArgument, SubType DEF OneArgument
  <2> QED BY <1>2, <2>1, InstructionType DEF SUB
<1>3. ASSUME SSB PROVE TypeOK'
  <2>1. Fetch("SSB") => SsbTop(M, Pos(1)) \subseteq Machine
    BY FirstArgument, SsbTopType DEF OneArgument
  <2> QED BY <1>3, <2>1, InstructionType DEF SSB
<1>4. ASSUME MUL PROVE TypeOK'
  <2>1. Fetch("MUL") => Mul(M, Pos(1)) \subseteq Machine
    BY FirstArgument, MulType DEF OneArgument
  <2> QED BY <1>4, <2>1, InstructionType DEF MUL
<1>5. ASSUME DIV PROVE TypeOK'
  <2>1. Fetch("DIV") => Div(M, Pos(1)) \subseteq Machine
    BY FirstArgument, DivType DEF OneArgument
  <2> QED BY <1>5, <2>1, InstructionType DEF DIV
<1>6. ASSUME SQRT PROVE TypeOK'
  <2>1. Fetch("SQRT") => SqrtTop(M) \subseteq Machine
    BY Fetched, SqrtTopType
  <2> QED BY <1>6, <2>1, InstructionType DEF SQRT
<1>7. ASSUME MIN PROVE TypeOK'
  <2>1. Fetch("MIN") => MinTop(M, Pos(1)) \subseteq Machine
    BY FirstArgument, MinTopType DEF OneArgument
  <2> QED BY <1>7, <2>1, InstructionType DEF MIN
<1>8. ASSUME MAXOP PROVE TypeOK'
  <2>1. Fetch("MAX") => MaxTop(M, Pos(1)) \subseteq Machine
    BY FirstArgument, MaxTopType DEF OneArgument
  <2> QED BY <1>8, <2>1, InstructionType DEF MAXOP
<1> QED BY <1>1, <1>2, <1>3, <1>4, <1>5, <1>6, <1>7, <1>8 DEF Arithmetic

LEMMA AggregatesType ==
    ASSUME TypeOK, Aggregates
    PROVE  TypeOK'
<1>1. ASSUME VSUM PROVE TypeOK'
  <2>1. Fetch("VSUM") => Vsum(M) \subseteq Machine
    BY Fetched, AggregateType
  <2> QED BY <1>1, <2>1, InstructionType DEF VSUM
<1>2. ASSUME VMIN PROVE TypeOK'
  <2>1. Fetch("VMIN") => Vmin(M) \subseteq Machine
    BY Fetched, AggregateType
  <2> QED BY <1>2, <2>1, InstructionType DEF VMIN
<1>3. ASSUME VMAX PROVE TypeOK'
  <2>1. Fetch("VMAX") => Vmax(M) \subseteq Machine
    BY Fetched, AggregateType
  <2> QED BY <1>3, <2>1, InstructionType DEF VMAX
<1> QED BY <1>1, <1>2, <1>3 DEF Aggregates

LEMMA ImmediatesType ==
    ASSUME TypeOK, Immediates
    PROVE  TypeOK'
<1>1. ASSUME IMMS PROVE TypeOK'
  <2>1. Fetch("IMMS") => Imms(M, Arg(1)) \subseteq Machine
    BY FirstArgument, ImmediateType DEF OneArgument
  <2> QED BY <1>1, <2>1, InstructionType DEF IMMS
<1>2. ASSUME IMML PROVE TypeOK'
  <2>1. Fetch("IMML") => Imml(M, Arg(1)) \subseteq Machine
    BY FirstArgument, ImmediateType DEF OneArgument
  <2> QED BY <1>2, <2>1, InstructionType DEF IMML
<1>3. ASSUME ZEROS PROVE TypeOK'
  <2>1. Fetch("ZEROS") => Zeros(M, Pos(1)) \subseteq Machine
    BY FirstArgument, ConstantType, UnitsAreAmounts DEF OneArgument, Zeros
  <2> QED BY <1>3, <2>1, InstructionType DEF ZEROS
<1>4. ASSUME ONES PROVE TypeOK'
  <2>1. Fetch("ONES") => Ones(M, Pos(1)) \subseteq Machine
    BY FirstArgument, ConstantType, UnitsAreAmounts DEF OneArgument, Ones
  <2> QED BY <1>4, <2>1, InstructionType DEF ONES
<1> QED BY <1>1, <1>2, <1>3, <1>4 DEF Immediates

LEMMA ControlFlowType ==
    ASSUME TypeOK, ControlFlow
    PROVE  TypeOK'
<1>1. ASSUME End PROVE TypeOK'
  <2>1. ~ Idle
    BY <1>1, EmptySeq DEF End, Idle, TypeOK
  <2> QED BY <1>1, <2>1, CommitType DEF End
<1>2. ASSUME Malfunction PROVE TypeOK'
  BY <1>2, RevertType DEF Malfunction
<1> QED BY <1>1, <1>2, BType, FOLDType, FoldNextType, ReturnType DEF ControlFlow

LEMMA StepType ==
    ASSUME TypeOK, Step
    PROVE  TypeOK'
BY LoadsAndStoresType, StructuresType, JoinsOfLabelsType, ArithmeticType, AggregatesType,
   ImmediatesType, ControlFlowType DEF Step

-----------------------------------------------------------------------------
(***************************************************************************)
(* The calls that start a transaction.                                     *)
(***************************************************************************)
LEMMA RefuseType ==
    ASSUME TypeOK, Idle, NEW sender \in Addresses, Refuse(sender)
    PROVE  TypeOK'
BY DEF TypeOK, Idle, Refuse, Ends, StorageOK

LEMMA SetupType ==
    ASSUME TypeOK, NEW sender \in Addresses, NEW newOwner \in Addresses \cup {ZeroAddress},
           Setup(sender, newOwner)
    PROVE  TypeOK'
<1>1. CASE Allowed(sender)
  BY <1>1 DEF Setup, TypeOK, Idle, Ends, StorageOK
<1>2. CASE ~ Allowed(sender)
  BY <1>2, RefuseType DEF Setup
<1> QED BY <1>1, <1>2

LEMMA SubmitType ==
    ASSUME TypeOK, NEW sender \in Addresses, NEW id \in Ids, NEW data \in Blobs,
           Submit(sender, id, data)
    PROVE  TypeOK'
<1>1. CASE Allowed(sender) /\ Stored(vectors, id) = << >>
  <2>1. /\ Idle /\ vectors' = Put(vectors, id, data) /\ committed' = vectors'
        /\ Ends(sender, "done") /\ UNCHANGED <<owner, frames>>
    BY <1>1 DEF Submit
  <2>2. StorageOK(vectors') /\ StorageOK(committed')
    BY <2>1, PutType, DevilAssumption DEF TypeOK
  <2> QED BY <2>1, <2>2 DEF TypeOK, Idle, Ends
<1>2. CASE ~ (Allowed(sender) /\ Stored(vectors, id) = << >>)
  BY <1>2, RefuseType DEF Submit
<1> QED BY <1>1, <1>2

LEMMA ExecuteType ==
    ASSUME TypeOK, NEW sender \in Addresses, NEW program \in Programs,
           Execute(sender, program)
    PROVE  TypeOK'
<1> DEFINE frame == Frame(program.code, 1, NewStack(program.registers % USIZE), 0, << >>)
<1>1. CASE Allowed(sender) /\ program.code # MALFORMED
  <2>1. /\ frames' = <<frame>> /\ Ends(sender, "running")
        /\ UNCHANGED <<owner, vectors, committed>>
    BY <1>1 DEF Execute
  <2>2. program.code \in Seq(Amounts) /\ program.registers % USIZE \in Nat
    BY <1>1, DevilAssumption DEF Bytes
  <2>3. frame \in Frames
    <3>1. NewStack(program.registers % USIZE) \in Machine
      BY <2>2, NewStackType
    <3>2. Len(program.code) \in Nat /\ << >> \in Seq(Operand)
      BY <2>2, EmptySeq
    <3> QED BY <2>2, <3>1, <3>2 DEF Frame, Frames
  <2>4. frames' \in Seq(Frames) /\ Len(frames') = 1 /\ frames' # << >>
    <3> HIDE DEF frame
    <3> QED BY <2>1, <2>3
  <2>5. Len(frames') <= GAS_DEPTH
    BY <2>4, DevilAssumption
  <2> QED BY <2>1, <2>4, <2>5 DEF TypeOK, Idle, Ends, StorageOK
<1>2. CASE ~ (Allowed(sender) /\ program.code # MALFORMED)
  BY <1>2, RefuseType DEF Execute
<1> QED BY <1>1, <1>2

-----------------------------------------------------------------------------
(***************************************************************************)
(* The type invariant.                                                     *)
(***************************************************************************)
LEMMA InitType ==
    ASSUME Init
    PROVE  TypeOK
<1>1. << >> \in Seq(Frames) /\ Len(<< >>) = 0
  BY EmptySeq
<1>2. DOMAIN << >> = {}
  OBVIOUS
<1> QED BY <1>1, <1>2, DevilAssumption DEF Init, TypeOK, StorageOK, Idle

LEMMA NextType ==
    ASSUME TypeOK, Next
    PROVE  TypeOK'
<1>1. ASSUME Call PROVE TypeOK'
  BY <1>1, SetupType, SubmitType, ExecuteType DEF Call
<1> QED BY <1>1, StepType DEF Next

\* Whatever is submitted and executed, the storage holds words or malformed
\* bytes, every call is at an instruction with a well-formed machine, no more
\* than GAS_DEPTH of them are nested, and an idle contract has nothing stored
\* that is not committed.
THEOREM TypeCorrect == Spec => []TypeOK
<1>1. Init => TypeOK
  BY InitType
<1>2. TypeOK /\ [Next]_vars => TypeOK'
  <2>1. ASSUME TypeOK, Next PROVE TypeOK'
    BY <2>1, NextType
  <2>2. ASSUME TypeOK, UNCHANGED vars PROVE TypeOK'
    BY <2>2 DEF vars, TypeOK, Idle, StorageOK
  <2> QED BY <2>1, <2>2
<1> QED BY <1>1, <1>2, PTL DEF Spec

-----------------------------------------------------------------------------
(***************************************************************************)
(* What a step of a program may do to the rest of the contract.            *)
(***************************************************************************)

\* It goes on, fails or ends well.
Outcome == UNCHANGED <<owner, committed, tx>> \/ Revert \/ Commit

LEMMA InstructionOutcome ==
    ASSUME NEW mnemonic, NEW outcomes, Instruction(mnemonic, outcomes)
    PROVE  ~ Idle /\ Outcome
BY DEF Instruction, Fetch, Outcome

LEMMA StoreOutcome ==
    ASSUME NEW mnemonic, NEW id, NEW kind, Store(mnemonic, id, kind)
    PROVE  ~ Idle /\ Outcome
BY DEF Store, Fetch, Outcome

LEMMA ControlFlowOutcome ==
    ASSUME TypeOK, ControlFlow
    PROVE  ~ Idle /\ Outcome
<1>1. ASSUME B PROVE ~ Idle /\ Outcome
  BY <1>1 DEF B, Fetch, Enter, Outcome
<1>2. ASSUME FOLD PROVE ~ Idle /\ Outcome
  BY <1>2 DEF FOLD, Fetch, Enter, Outcome
<1>3. ASSUME FoldNext PROVE ~ Idle /\ Outcome
  BY <1>3 DEF FoldNext, Outcome
<1>4. ASSUME Return \/ End PROVE ~ Idle
  BY <1>4, EmptySeq DEF Return, End, Idle
<1>5. ASSUME Return \/ End PROVE Outcome
  BY <1>5 DEF Return, End, Outcome
<1>6. ASSUME Malfunction PROVE ~ Idle /\ Outcome
  BY <1>6 DEF Malfunction, Outcome
<1> QED BY <1>1, <1>2, <1>3, <1>4, <1>5, <1>6 DEF ControlFlow

LEMMA StepOutcome ==
    ASSUME TypeOK, Step
    PROVE  ~ Idle /\ Outcome
<1>1. ASSUME LoadsAndStores PROVE ~ Idle /\ Outcome
  BY <1>1, InstructionOutcome, StoreOutcome
     DEF LoadsAndStores, LDL, LDV, STL, STV, LDD, LDR, LDM, STR, POPN, SWAP
<1>2. ASSUME Structures PROVE ~ Idle /\ Outcome
  BY <1>2, InstructionOutcome DEF Structures, PKV, PKL, UNPK, T, VPUSH, VPOP, LPUSH, LPOP
<1>3. ASSUME JoinsOfLabels PROVE ~ Idle /\ Outcome
  BY <1>3, InstructionOutcome DEF JoinsOfLabels, LUNION, JUPD, JADD, JFLT
<1>4. ASSUME Arithmetic PROVE ~ Idle /\ Outcome
  BY <1>4, InstructionOutcome DEF Arithmetic, ADD, SUB, SSB, MUL, DIV, SQRT, MIN, MAXOP
<1>5. ASSUME Aggregates PROVE ~ Idle /\ Outcome
  BY <1>5, InstructionOutcome DEF Aggregates, VSUM, VMIN, VMAX
<1>6. ASSUME Immediates PROVE ~ Idle /\ Outcome
  BY <1>6, InstructionOutcome DEF Immediates, IMMS, IMML, ZEROS, ONES
<1> QED BY <1>1, <1>2, <1>3, <1>4, <1>5, <1>6, ControlFlowOutcome DEF Step

-----------------------------------------------------------------------------
(***************************************************************************)
(* A program acts for the sender who was checked when it started.          *)
(***************************************************************************)
RunsForOwner == ~ Idle => Allowed(tx.sender)

LEMMA RunsForOwnerKept ==
    ASSUME TypeOK, RunsForOwner, Next
    PROVE  RunsForOwner'
<1>1. ASSUME Step PROVE RunsForOwner'
  <2>1. ~ Idle /\ Outcome
    BY <1>1, StepOutcome
  <2>2. CASE Revert \/ Commit
    BY <2>2 DEF Revert, Commit, RunsForOwner, Idle
  <2>3. CASE UNCHANGED <<owner, committed, tx>>
    BY <2>1, <2>3 DEF RunsForOwner, Allowed
  <2> QED BY <2>1, <2>2, <2>3 DEF Outcome
<1>2. ASSUME NEW s \in Addresses, NEW o \in Addresses \cup {ZeroAddress}, Setup(s, o)
      PROVE  RunsForOwner'
  BY <1>2 DEF Setup, Refuse, Idle, RunsForOwner
<1>3. ASSUME NEW s \in Addresses, NEW id \in Ids, NEW data \in Blobs, Submit(s, id, data)
      PROVE  RunsForOwner'
  BY <1>3 DEF Submit, Refuse, Idle, RunsForOwner
<1>4. ASSUME NEW s \in Addresses, NEW p \in Programs, Execute(s, p)
      PROVE  RunsForOwner'
  BY <1>4 DEF Execute, Refuse, Ends, Idle, RunsForOwner, Allowed
<1> QED BY <1>1, <1>2, <1>3, <1>4 DEF Next, Call

\* The type invariant and the sender of the running program, together.
LEMMA Invariant == Spec => [](TypeOK /\ RunsForOwner)
<1>1. Init => TypeOK /\ RunsForOwner
  BY InitType DEF Init, RunsForOwner, Idle
<1>2. TypeOK /\ RunsForOwner /\ [Next]_vars => (TypeOK /\ RunsForOwner)'
  <2>1. ASSUME TypeOK, RunsForOwner, Next PROVE TypeOK' /\ RunsForOwner'
    BY <2>1, NextType, RunsForOwnerKept
  <2>2. ASSUME TypeOK, RunsForOwner, UNCHANGED vars PROVE TypeOK' /\ RunsForOwner'
    BY <2>2 DEF vars, TypeOK, Idle, StorageOK, RunsForOwner, Allowed
  <2> QED BY <2>1, <2>2
<1> QED BY <1>1, <1>2, PTL DEF Spec

\* Only the owner of the moment hands over the machine or changes what it
\* stores, by submitting or by a program, unless nobody owns it.
THEOREM OwnerActs == Spec => OnlyTheOwnerActs
<1> DEFINE Act == committed' # committed \/ owner' # owner
                      => owner = ZeroAddress \/ tx'.sender = owner
<1>1. TypeOK /\ RunsForOwner /\ [Next]_vars => [Act]_vars
  <2> SUFFICES ASSUME TypeOK, RunsForOwner, Next PROVE Act
    OBVIOUS
  <2>1. ASSUME Step PROVE Act
    <3>1. ~ Idle /\ Outcome
      BY <2>1, StepOutcome
    <3>2. tx'.sender = tx.sender
      BY <3>1 DEF Outcome, Revert, Commit, TypeOK
    <3>3. owner' = owner
      BY <3>1 DEF Outcome, Revert, Commit
    <3> QED BY <3>1, <3>2, <3>3 DEF RunsForOwner, Allowed
  <2>2. ASSUME NEW s \in Addresses, NEW o \in Addresses \cup {ZeroAddress}, Setup(s, o)
        PROVE  Act
    BY <2>2 DEF Setup, Refuse, Ends, Allowed
  <2>3. ASSUME NEW s \in Addresses, NEW id \in Ids, NEW data \in Blobs, Submit(s, id, data)
        PROVE  Act
    BY <2>3 DEF Submit, Refuse, Ends, Allowed
  <2>4. ASSUME NEW s \in Addresses, NEW p \in Programs, Execute(s, p)
        PROVE  Act
    BY <2>4 DEF Execute, Refuse, Ends
  <2> QED BY <2>1, <2>2, <2>3, <2>4 DEF Next, Call
<1> QED BY <1>1, Invariant, PTL DEF Spec, OnlyTheOwnerActs

\* What others see changes only when a transaction ends well, and nothing of
\* a transaction that fails remains, however deep the call that failed.
THEOREM TransactionsAreAtomic == Spec => AllOrNothing
<1> DEFINE Act == /\ committed' # committed => Idle' /\ tx'.outcome = "done"
                  /\ tx'.outcome = "reverted" => vectors' = committed /\ committed' = committed
<1>1. TypeOK /\ [Next]_vars => [Act]_vars
  <2> SUFFICES ASSUME TypeOK, Next PROVE Act
    OBVIOUS
  <2>1. ASSUME Step PROVE Act
    <3>1. ~ Idle /\ Outcome
      BY <2>1, StepOutcome
    <3>2. CASE Revert
      BY <3>2 DEF Revert
    <3>3. CASE Commit
      BY <3>3 DEF Commit, Idle, TypeOK
    <3>4. CASE UNCHANGED <<owner, committed, tx>>
      <4>1. tx.outcome = "running"
        BY <3>1 DEF TypeOK
      <4> QED BY <3>4, <4>1
    <3> QED BY <3>1, <3>2, <3>3, <3>4 DEF Outcome
  <2>2. ASSUME NEW s \in Addresses, NEW o \in Addresses \cup {ZeroAddress}, Setup(s, o)
        PROVE  Act
    BY <2>2 DEF Setup, Refuse, Ends, TypeOK
  <2>3. ASSUME NEW s \in Addresses, NEW id \in Ids, NEW data \in Blobs, Submit(s, id, data)
        PROVE  Act
    BY <2>3 DEF Submit, Refuse, Ends, TypeOK, Idle
  <2>4. ASSUME NEW s \in Addresses, NEW p \in Programs, Execute(s, p)
        PROVE  Act
    BY <2>4 DEF Execute, Refuse, Ends, TypeOK
  <2> QED BY <2>1, <2>2, <2>3, <2>4 DEF Next, Call
<1> QED BY <1>1, TypeCorrect, PTL DEF Spec, AllOrNothing

\* A submission never replaces data: only a program does.
THEOREM SubmissionsKeepData == Spec => SubmittedOnce
<1> DEFINE Act == \A id \in DOMAIN committed :
                    committed[id] # << >> /\ Stored(committed', id) # committed[id] => ~ Idle
<1>1. TypeOK /\ [Next]_vars => [Act]_vars
  <2> SUFFICES ASSUME TypeOK, Next PROVE Act
    OBVIOUS
  <2>1. ASSUME Step PROVE Act
    BY <2>1, StepOutcome
  <2>2. ASSUME NEW s \in Addresses, NEW o \in Addresses \cup {ZeroAddress}, Setup(s, o)
        PROVE  Act
    BY <2>2 DEF Setup, Refuse, Stored
  <2>3. ASSUME NEW s \in Addresses, NEW i \in Ids, NEW data \in Blobs, Submit(s, i, data)
        PROVE  Act
    <3>1. CASE committed' = committed
      BY <3>1 DEF Stored
    <3>2. CASE committed' # committed
      <4>1. /\ Stored(committed, i) = << >>
            /\ committed' = Put(committed, i, data)
        BY <2>3, <3>2 DEF Submit, Refuse, TypeOK
      <4>2. ASSUME NEW id \in DOMAIN committed, committed[id] # << >>
            PROVE  Stored(committed', id) = committed[id]
        BY <4>1, <4>2 DEF Stored, Put
      <4> QED BY <4>2
    <3> QED BY <3>1, <3>2
  <2>4. ASSUME NEW s \in Addresses, NEW p \in Programs, Execute(s, p)
        PROVE  Act
    BY <2>4 DEF Execute, Refuse, Stored
  <2> QED BY <2>1, <2>2, <2>3, <2>4 DEF Next, Call
<1> QED BY <1>1, TypeCorrect, PTL DEF Spec, SubmittedOnce

-----------------------------------------------------------------------------
(***************************************************************************)
(* What the machine does next.                                             *)
(***************************************************************************)
\* Each instruction runs at its own op code only.
LEMMA OpcodesDiffer ==
    \A x, y \in Mnemonics : Opcode[x] = Opcode[y] => x = y
BY DEF Opcode, Mnemonics

LEMMA FetchOnce ==
    ASSUME NEW x \in Mnemonics, NEW y \in Mnemonics, Fetch(x), Fetch(y)
    PROVE  x = y
BY OpcodesDiffer DEF Fetch

\* The step is what the mnemonic names.
Does(mnemonic) ==
    /\ mnemonic = "LDL" => LDL
    /\ mnemonic = "LDV" => LDV
    /\ mnemonic = "STL" => STL
    /\ mnemonic = "STV" => STV
    /\ mnemonic = "LDD" => LDD
    /\ mnemonic = "LDR" => LDR
    /\ mnemonic = "LDM" => LDM
    /\ mnemonic = "STR" => STR
    /\ mnemonic = "POPN" => POPN
    /\ mnemonic = "SWAP" => SWAP
    /\ mnemonic = "PKV" => PKV
    /\ mnemonic = "PKL" => PKL
    /\ mnemonic = "UNPK" => UNPK
    /\ mnemonic = "T" => T
    /\ mnemonic = "VPUSH" => VPUSH
    /\ mnemonic = "VPOP" => VPOP
    /\ mnemonic = "LPUSH" => LPUSH
    /\ mnemonic = "LPOP" => LPOP
    /\ mnemonic = "LUNION" => LUNION
    /\ mnemonic = "JUPD" => JUPD
    /\ mnemonic = "JADD" => JADD
    /\ mnemonic = "JFLT" => JFLT
    /\ mnemonic = "ADD" => ADD
    /\ mnemonic = "SUB" => SUB
    /\ mnemonic = "SSB" => SSB
    /\ mnemonic = "MUL" => MUL
    /\ mnemonic = "DIV" => DIV
    /\ mnemonic = "SQRT" => SQRT
    /\ mnemonic = "MIN" => MIN
    /\ mnemonic = "MAX" => MAXOP
    /\ mnemonic = "VSUM" => VSUM
    /\ mnemonic = "VMIN" => VMIN
    /\ mnemonic = "VMAX" => VMAX
    /\ mnemonic = "IMMS" => IMMS
    /\ mnemonic = "IMML" => IMML
    /\ mnemonic = "ZEROS" => ZEROS
    /\ mnemonic = "ONES" => ONES
    /\ mnemonic = "B" => B
    /\ mnemonic = "FOLD" => FOLD

LEMMA Fetches ==
    /\ (LDL => Fetch("LDL")) /\ (LDV => Fetch("LDV")) /\ (STL => Fetch("STL"))
    /\ (STV => Fetch("STV")) /\ (LDD => Fetch("LDD")) /\ (LDR => Fetch("LDR"))
    /\ (LDM => Fetch("LDM")) /\ (STR => Fetch("STR")) /\ (POPN => Fetch("POPN"))
    /\ (SWAP => Fetch("SWAP")) /\ (PKV => Fetch("PKV")) /\ (PKL => Fetch("PKL"))
    /\ (UNPK => Fetch("UNPK")) /\ (T => Fetch("T")) /\ (VPUSH => Fetch("VPUSH"))
    /\ (VPOP => Fetch("VPOP")) /\ (LPUSH => Fetch("LPUSH")) /\ (LPOP => Fetch("LPOP"))
    /\ (LUNION => Fetch("LUNION")) /\ (JUPD => Fetch("JUPD")) /\ (JADD => Fetch("JADD"))
    /\ (JFLT => Fetch("JFLT")) /\ (ADD => Fetch("ADD")) /\ (SUB => Fetch("SUB"))
    /\ (SSB => Fetch("SSB")) /\ (MUL => Fetch("MUL")) /\ (DIV => Fetch("DIV"))
    /\ (SQRT => Fetch("SQRT")) /\ (MIN => Fetch("MIN")) /\ (MAXOP => Fetch("MAX"))
    /\ (VSUM => Fetch("VSUM")) /\ (VMIN => Fetch("VMIN")) /\ (VMAX => Fetch("VMAX"))
    /\ (IMMS => Fetch("IMMS")) /\ (IMML => Fetch("IMML")) /\ (ZEROS => Fetch("ZEROS"))
    /\ (ONES => Fetch("ONES")) /\ (B => Fetch("B")) /\ (FOLD => Fetch("FOLD"))
BY DEF Fetch, Instruction, Store, LDL, LDV, STL, STV, LDD, LDR, LDM, STR, POPN, SWAP, PKV, PKL,
   UNPK, T, VPUSH, VPOP, LPUSH, LPOP, LUNION, JUPD, JADD, JFLT, ADD, SUB, SSB, MUL, DIV, SQRT,
   MIN, MAXOP, VSUM, VMIN, VMAX, IMMS, IMML, ZEROS, ONES, B, FOLD

LEMMA AreMnemonics ==
    /\ "LDL" \in Mnemonics /\ "LDV" \in Mnemonics /\ "STL" \in Mnemonics /\ "STV" \in Mnemonics
    /\ "LDD" \in Mnemonics /\ "LDR" \in Mnemonics /\ "LDM" \in Mnemonics /\ "STR" \in Mnemonics
    /\ "POPN" \in Mnemonics /\ "SWAP" \in Mnemonics /\ "PKV" \in Mnemonics
    /\ "PKL" \in Mnemonics /\ "UNPK" \in Mnemonics /\ "T" \in Mnemonics
    /\ "VPUSH" \in Mnemonics /\ "VPOP" \in Mnemonics /\ "LPUSH" \in Mnemonics
    /\ "LPOP" \in Mnemonics /\ "LUNION" \in Mnemonics /\ "JUPD" \in Mnemonics
    /\ "JADD" \in Mnemonics /\ "JFLT" \in Mnemonics /\ "ADD" \in Mnemonics
    /\ "SUB" \in Mnemonics /\ "SSB" \in Mnemonics /\ "MUL" \in Mnemonics /\ "DIV" \in Mnemonics
    /\ "SQRT" \in Mnemonics /\ "MIN" \in Mnemonics /\ "MAX" \in Mnemonics
    /\ "VSUM" \in Mnemonics /\ "VMIN" \in Mnemonics /\ "VMAX" \in Mnemonics
    /\ "IMMS" \in Mnemonics /\ "IMML" \in Mnemonics /\ "ZEROS" \in Mnemonics
    /\ "ONES" \in Mnemonics /\ "B" \in Mnemonics /\ "FOLD" \in Mnemonics
BY DEF Mnemonics, Opcode

\* The other instructions are fetched elsewhere.
LEMMA DoesInLoadsAndStores ==
    ASSUME NEW x \in Mnemonics, Fetch(x), LoadsAndStores
    PROVE  Does(x)
<1>1. ASSUME LDL PROVE x = "LDL"
  BY <1>1, Fetches, FetchOnce, AreMnemonics
<1>2. ASSUME LDV PROVE x = "LDV"
  BY <1>2, Fetches, FetchOnce, AreMnemonics
<1>3. ASSUME STL PROVE x = "STL"
  BY <1>3, Fetches, FetchOnce, AreMnemonics
<1>4. ASSUME STV PROVE x = "STV"
  BY <1>4, Fetches, FetchOnce, AreMnemonics
<1>5. ASSUME LDD PROVE x = "LDD"
  BY <1>5, Fetches, FetchOnce, AreMnemonics
<1>6. ASSUME LDR PROVE x = "LDR"
  BY <1>6, Fetches, FetchOnce, AreMnemonics
<1>7. ASSUME LDM PROVE x = "LDM"
  BY <1>7, Fetches, FetchOnce, AreMnemonics
<1>8. ASSUME STR PROVE x = "STR"
  BY <1>8, Fetches, FetchOnce, AreMnemonics
<1>9. ASSUME POPN PROVE x = "POPN"
  BY <1>9, Fetches, FetchOnce, AreMnemonics
<1>10. ASSUME SWAP PROVE x = "SWAP"
  BY <1>10, Fetches, FetchOnce, AreMnemonics
<1> QED BY <1>1, <1>2, <1>3, <1>4, <1>5, <1>6, <1>7, <1>8, <1>9, <1>10 DEF Does, LoadsAndStores

LEMMA DoesInStructures ==
    ASSUME NEW x \in Mnemonics, Fetch(x), Structures
    PROVE  Does(x)
<1>1. ASSUME PKV PROVE x = "PKV"
  BY <1>1, Fetches, FetchOnce, AreMnemonics
<1>2. ASSUME PKL PROVE x = "PKL"
  BY <1>2, Fetches, FetchOnce, AreMnemonics
<1>3. ASSUME UNPK PROVE x = "UNPK"
  BY <1>3, Fetches, FetchOnce, AreMnemonics
<1>4. ASSUME T PROVE x = "T"
  BY <1>4, Fetches, FetchOnce, AreMnemonics
<1>5. ASSUME VPUSH PROVE x = "VPUSH"
  BY <1>5, Fetches, FetchOnce, AreMnemonics
<1>6. ASSUME VPOP PROVE x = "VPOP"
  BY <1>6, Fetches, FetchOnce, AreMnemonics
<1>7. ASSUME LPUSH PROVE x = "LPUSH"
  BY <1>7, Fetches, FetchOnce, AreMnemonics
<1>8. ASSUME LPOP PROVE x = "LPOP"
  BY <1>8, Fetches, FetchOnce, AreMnemonics
<1> QED BY <1>1, <1>2, <1>3, <1>4, <1>5, <1>6, <1>7, <1>8 DEF Does, Structures

LEMMA DoesInJoinsOfLabels ==
    ASSUME NEW x \in Mnemonics, Fetch(x), JoinsOfLabels
    PROVE  Does(x)
<1>1. ASSUME LUNION PROVE x = "LUNION"
  BY <1>1, Fetches, FetchOnce, AreMnemonics
<1>2. ASSUME JUPD PROVE x = "JUPD"
  BY <1>2, Fetches, FetchOnce, AreMnemonics
<1>3. ASSUME JADD PROVE x = "JADD"
  BY <1>3, Fetches, FetchOnce, AreMnemonics
<1>4. ASSUME JFLT PROVE x = "JFLT"
  BY <1>4, Fetches, FetchOnce, AreMnemonics
<1> QED BY <1>1, <1>2, <1>3, <1>4 DEF Does, JoinsOfLabels

LEMMA DoesInArithmetic ==
    ASSUME NEW x \in Mnemonics, Fetch(x), Arithmetic
    PROVE  Does(x)
<1>1. ASSUME ADD PROVE x = "ADD"
  BY <1>1, Fetches, FetchOnce, AreMnemonics
<1>2. ASSUME SUB PROVE x = "SUB"
  BY <1>2, Fetches, FetchOnce, AreMnemonics
<1>3. ASSUME SSB PROVE x = "SSB"
  BY <1>3, Fetches, FetchOnce, AreMnemonics
<1>4. ASSUME MUL PROVE x = "MUL"
  BY <1>4, Fetches, FetchOnce, AreMnemonics
<1>5. ASSUME DIV PROVE x = "DIV"
  BY <1>5, Fetches, FetchOnce, AreMnemonics
<1>6. ASSUME SQRT PROVE x = "SQRT"
  BY <1>6, Fetches, FetchOnce, AreMnemonics
<1>7. ASSUME MIN PROVE x = "MIN"
  BY <1>7, Fetches, FetchOnce, AreMnemonics
<1>8. ASSUME MAXOP PROVE x = "MAX"
  BY <1>8, Fetches, FetchOnce, AreMnemonics
<1> QED BY <1>1, <1>2, <1>3, <1>4, <1>5, <1>6, <1>7, <1>8 DEF Does, Arithmetic

LEMMA DoesInAggregates ==
    ASSUME NEW x \in Mnemonics, Fetch(x), Aggregates
    PROVE  Does(x)
<1>1. ASSUME VSUM PROVE x = "VSUM"
  BY <1>1, Fetches, FetchOnce, AreMnemonics
<1>2. ASSUME VMIN PROVE x = "VMIN"
  BY <1>2, Fetches, FetchOnce, AreMnemonics
<1>3. ASSUME VMAX PROVE x = "VMAX"
  BY <1>3, Fetches, FetchOnce, AreMnemonics
<1> QED BY <1>1, <1>2, <1>3 DEF Does, Aggregates

LEMMA DoesInImmediates ==
    ASSUME NEW x \in Mnemonics, Fetch(x), Immediates
    PROVE  Does(x)
<1>1. ASSUME IMMS PROVE x = "IMMS"
  BY <1>1, Fetches, FetchOnce, AreMnemonics
<1>2. ASSUME IMML PROVE x = "IMML"
  BY <1>2, Fetches, FetchOnce, AreMnemonics
<1>3. ASSUME ZEROS PROVE x = "ZEROS"
  BY <1>3, Fetches, FetchOnce, AreMnemonics
<1>4. ASSUME ONES PROVE x = "ONES"
  BY <1>4, Fetches, FetchOnce, AreMnemonics
<1> QED BY <1>1, <1>2, <1>3, <1>4 DEF Does, Immediates

LEMMA DoesInControlFlow ==
    ASSUME NEW x \in Mnemonics, Fetch(x), ControlFlow,
           Current.pc \in Nat, Len(Current.code) \in Nat
    PROVE  Does(x)
<1>1. ASSUME B PROVE x = "B"
  BY <1>1, Fetches, FetchOnce, AreMnemonics
<1>2. ASSUME FOLD PROVE x = "FOLD"
  BY <1>2, Fetches, FetchOnce, AreMnemonics
<1>3. ~ FoldNext /\ ~ Return /\ ~ End
  BY DEF FoldNext, Return, End, Fetch
<1>4. ~ Malfunction
  <2>1. Word(0) = Opcode[x] /\ Current.pc + Arity(x) <= Len(Current.code)
    BY DEF Fetch
  <2>2. Arity(x) \in Nat
    BY ArityType
  <2> QED BY <2>1, <2>2 DEF Malfunction
<1> QED BY <1>1, <1>2, <1>3, <1>4 DEF Does, ControlFlow

\* The instruction that is fetched is the step.
LEMMA StepDoes ==
    ASSUME NEW x \in Mnemonics, Fetch(x), Step,
           Current.pc \in Nat, Len(Current.code) \in Nat
    PROVE  Does(x)
BY DoesInLoadsAndStores, DoesInStructures, DoesInJoinsOfLabels, DoesInArithmetic, DoesInAggregates,
   DoesInImmediates, DoesInControlFlow DEF Step

=============================================================================
