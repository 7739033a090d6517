------------------------- MODULE NativeSolverProofs -------------------------
(***************************************************************************)
(* Proofs about NativeSolver: whatever the scale and the coefficients, the *)
(* function and the program answer alike but for the saturation.           *)
(***************************************************************************)
EXTENDS NativeSolver, SequenceTheorems, TLAPS

\* What each line binds, written out.
Lines == <<Times(b, b), Times(a, c), Times(Times(a, c), FOUR),
           Plus(Times(b, b), Times(Times(a, c), FOUR)),
           Sqrt(Plus(Times(b, b), Times(Times(a, c), FOUR))),
           Minus(Sqrt(Plus(Times(b, b), Times(Times(a, c), FOUR))), b),
           Times(TWO, a),
           Over(Minus(Sqrt(Plus(Times(b, b), Times(Times(a, c), FOUR))), b), Times(TWO, a))>>

\* What the program answers, and when the native function answers it.
Agreed   == Solvable(a, b, c) /\ Root(a, b, c) >= b
Expected == IF Agreed THEN <<IndexQuantity(a, b, c)>> ELSE << >>

(***************************************************************************)
(* The inductive invariant: while the function runs, the lines so far have *)
(* bound what they should, and each fits an Amount; in the end it has      *)
(* answered what it should.                                                *)
(***************************************************************************)
Bound ==
    /\ values \in Seq(Amounts) /\ Len(values) <= 8
    /\ \A i \in 1 .. Len(values) : values[i] = Lines[i]
IInv ==
    /\ a \in Amounts /\ b \in Amounts /\ c \in Amounts
    /\ result = "running" => Bound
    /\ result # "running" => result = Expected

-----------------------------------------------------------------------------
(***************************************************************************)
(* The lines and the terms of the program.                                 *)
(***************************************************************************)
LEMMA TimesCommutes == \A x, y \in Int : Times(x, y) = Times(y, x)
<1>1. \A x, y \in Int : x * y = y * x
  OBVIOUS
<1> QED BY <1>1 DEF Times

LEMMA UnitTypes == FOUR \in Int /\ TWO \in Int /\ SCALE \in Nat \ {0}
BY AmountAssumption DEF FOUR, TWO, SCALE

\* The lines compute the terms of the program, whichever way the factors of a
\* product stand.
LEMMA LinesAreTerms ==
    ASSUME a \in Amounts, b \in Amounts, c \in Amounts
    PROVE  /\ Lines[1] = Times(b, b)
           /\ Lines[2] = Times(c, a)
           /\ Lines[3] = Times(FOUR, Times(c, a))
           /\ Lines[4] = Radical(a, b, c)
           /\ Lines[5] = Root(a, b, c)
           /\ Lines[6] = Minus(Root(a, b, c), b)
           /\ Lines[7] = Times(a, TWO)
           /\ Lines[8] = Over(Minus(Root(a, b, c), b), Times(a, TWO))
<1>1. a \in Int /\ b \in Int /\ c \in Int
  BY AmountAssumption DEF Amounts
<1>2. Times(a, c) = Times(c, a) /\ Times(TWO, a) = Times(a, TWO)
  BY <1>1, TimesCommutes, UnitTypes
<1>3. Times(c, a) \in Int
  BY <1>1, UnitTypes DEF Times
<1>4. Times(Times(c, a), FOUR) = Times(FOUR, Times(c, a))
  BY <1>3, TimesCommutes, UnitTypes
<1> QED BY <1>2, <1>4 DEF Lines, Radical, Root

\* Every line fits an Amount exactly when the two solvers should agree.
LEMMA LinesFit ==
    ASSUME a \in Amounts, b \in Amounts, c \in Amounts
    PROVE  /\ (\A i \in 1 .. 8 : Representable(Lines[i])) <=> Agreed
           /\ Agreed => Lines[8] = IndexQuantity(a, b, c)
<1> DEFINE r == Root(a, b, c)
<1>1. Representable(r) => (Representable(Minus(r, b)) <=> r >= b)
  <2> HIDE DEF r
  <2> QED BY AmountAssumption DEF Representable, Amounts, Minus
<1>2. Representable(r) /\ r >= b => Minus(r, b) = Ssb(r, b)
  <2> HIDE DEF r
  <2> QED BY AmountAssumption DEF Representable, Amounts, Minus, Ssb, Lesser
<1>3. Representable(r) /\ r >= b => Lines[8] = IndexQuantity(a, b, c)
  BY <1>2, LinesAreTerms DEF IndexQuantity
<1>4. (\A i \in 1 .. 8 : Representable(Lines[i]))
        <=> /\ Representable(Lines[1]) /\ Representable(Lines[2]) /\ Representable(Lines[3])
            /\ Representable(Lines[4]) /\ Representable(Lines[5]) /\ Representable(Lines[6])
            /\ Representable(Lines[7]) /\ Representable(Lines[8])
  <2>1. \A i : i \in 1 .. 8 <=> i \in {1, 2, 3, 4, 5, 6, 7, 8}
    OBVIOUS
  <2> QED BY <2>1, Zenon
<1>5. (\A i \in 1 .. 8 : Representable(Lines[i])) => Agreed
  BY <1>1, <1>3, <1>4, LinesAreTerms DEF Agreed, Solvable
<1>6. Agreed => \A i \in 1 .. 8 : Representable(Lines[i])
  BY <1>1, <1>3, <1>4, LinesAreTerms DEF Agreed, Solvable
<1> QED BY <1>3, <1>5, <1>6 DEF Agreed, Solvable

-----------------------------------------------------------------------------
(***************************************************************************)
(* A line that binds what it should keeps the invariant.                   *)
(***************************************************************************)
LEMMA BindKeeps ==
    ASSUME IInv, NEW line \in 1 .. 8, NEW x, Bind(line, x),
           Bound /\ Len(values) = line - 1 => x = Lines[line]
    PROVE  IInv'
<1>1. /\ result = "running" /\ Len(values) = line - 1 /\ Bound
      /\ UNCHANGED <<a, b, c>> /\ x = Lines[line]
  BY DEF Bind, IInv
<1>2. Lines' = Lines /\ Expected' = Expected
  BY <1>1 DEF Lines, Expected, Agreed
<1>3. CASE Representable(x)
  <2>1. values' = Append(values, x) /\ result' = result
    BY <1>3 DEF Bind
  <2>2. values' \in Seq(Amounts) /\ Len(values') = line
    BY <1>1, <1>3, <2>1, AppendProperties DEF Bound, Representable
  <2>3. \A i \in 1 .. line - 1 : values'[i] = values[i]
    BY <1>1, <2>1, AppendProperties DEF Bound
  <2>4. values'[line] = x
    BY <1>1, <2>1, AppendProperties DEF Bound
  <2>5. \A i \in 1 .. line : values'[i] = Lines'[i]
    BY <1>1, <1>2, <2>3, <2>4 DEF Bound
  <2>6. Bound'
    BY <2>2, <2>5 DEF Bound
  <2> QED BY <1>1, <2>1, <2>6 DEF IInv
<1>4. CASE ~ Representable(x)
  <2>1. result' = << >> /\ values' = values
    BY <1>4 DEF Bind
  <2>2. ~ Agreed
    BY <1>1, <1>4, LinesFit DEF IInv
  <2>3. result' = Expected'
    BY <1>2, <2>1, <2>2 DEF Expected
  <2>4. Bound'
    BY <1>1, <1>2, <2>1 DEF Bound
  <2> QED BY <1>1, <2>3, <2>4 DEF IInv
<1> QED BY <1>3, <1>4

\* The values that later lines read are those that earlier ones bound.
LEMMA NextKeeps ==
    ASSUME IInv, Next
    PROVE  IInv'
<1> USE DEF Lines
<1>1. ASSUME BSquared PROVE IInv'
  BY <1>1, BindKeeps DEF BSquared
<1>2. ASSUME AC PROVE IInv'
  BY <1>2, BindKeeps DEF AC
<1>3. ASSUME FourAC PROVE IInv'
  BY <1>3, BindKeeps DEF FourAC, Bound
<1>4. ASSUME Rad PROVE IInv'
  BY <1>4, BindKeeps DEF Rad, Bound
<1>5. ASSUME RootOf PROVE IInv'
  BY <1>5, BindKeeps DEF RootOf, Bound
<1>6. ASSUME Num PROVE IInv'
  BY <1>6, BindKeeps DEF Num, Bound
<1>7. ASSUME Den PROVE IInv'
  BY <1>7, BindKeeps DEF Den
<1>8. ASSUME Val PROVE IInv'
  BY <1>8, BindKeeps DEF Val, Bound
<1> HIDE DEF Lines
<1>9. ASSUME Return PROVE IInv'
  <2>1. /\ Bound /\ Len(values) = 8 /\ result' = <<values[8]>>
        /\ UNCHANGED <<a, b, c, values>>
    BY <1>9 DEF Return, IInv
  <2>2. Lines' = Lines /\ Expected' = Expected
    BY <2>1 DEF Lines, Expected, Agreed
  <2>3. \A i \in 1 .. 8 : Lines[i] = values[i] /\ Representable(values[i])
    BY <2>1, ElementOfSeq DEF Bound, Representable
  <2>4. Agreed /\ values[8] = IndexQuantity(a, b, c)
    BY <2>3, LinesFit DEF IInv
  <2>5. result' = Expected' /\ Bound'
    BY <2>1, <2>2, <2>4 DEF Expected, Bound
  <2> QED BY <2>1, <2>5 DEF IInv
<1> QED BY <1>1, <1>2, <1>3, <1>4, <1>5, <1>6, <1>7, <1>8, <1>9 DEF Next

\* The function and the program agree on every equation, or the truncated
\* root is below B: then the program answers zero and the function nothing.
THEOREM SolversAgree == Spec => []AgreesWithProgram
<1>1. Init => IInv
  BY NativeAssumption, EmptySeq DEF Init, IInv, Bound
<1>2. IInv /\ [Next]_vars => IInv'
  <2>1. ASSUME IInv, Next PROVE IInv'
    BY <2>1, NextKeeps
  <2>2. ASSUME IInv, UNCHANGED vars PROVE IInv'
    BY <2>2 DEF vars, IInv, Bound, Lines, Expected, Agreed
  <2> QED BY <2>1, <2>2
<1>3. IInv => AgreesWithProgram
  BY DEF IInv, AgreesWithProgram, Expected, Agreed
<1> QED BY <1>1, <1>2, <1>3, PTL DEF Spec

=============================================================================
