----------------------------- MODULE DevilLaws -----------------------------
(***************************************************************************)
(* What the instructions of the DeVIL machine promise to the programs that *)
(* use them, checked on the machine itself.                                *)
(*                                                                         *)
(* A law is a pair of programs that must store the same data.  The joins   *)
(* of labels are compared with their definition on sets and functions.     *)
(* In the initial state the operands are stored and one program has just   *)
(* been started on them.                                                   *)
(***************************************************************************)
EXTENDS Devil, Vil

CONSTANTS Vectors,      \* the vectors the laws are applied to, all of length Size
          Size,
          NameTags,     \* a sequence of Size labels
          Labellings,   \* the ascending label sequences that are joined
          ValueA(_),    \* the value of a label in the vector on top of a join
          ValueB(_),    \* and in the other one
          User          \* who runs the programs

\* The labels that are joined ascend, as the joins expect; there is no empty blob.
ASSUME LawsAssumption ==
    /\ Size \in Nat
    /\ USIZE > 3
    /\ MALFORMED \notin Seq(Amounts)
    /\ \A a \in Labellings :
          /\ a \in Seq(Amounts) /\ a # << >> /\ Ascending(a)
          /\ \A i \in DOMAIN a : ValueA(a[i]) \in Amounts /\ ValueB(a[i]) \in Amounts

\* Ids of the operands, the results and the subroutines.
IdX == 1
IdY == 2
IdA == 3
IdB == 4
IdLeft == 5
IdRight == 6
IdSum == 11
IdMin == 12
IdMax == 13
IdItem == 14
IdOccupy == 15

LoadX == <<"LDV", IdX>>
LoadY == <<"LDV", IdY>>
LoadA == <<"LDL", IdA>>
LoadB == <<"LDL", IdB>>

\* Subroutines for FOLD and B: combine the two operands on top, pass an item
\* through, or use the registers the caller uses too.
Combine(mnemonic) == << <<mnemonic, 1>>, <<"SWAP", 1>>, <<"POPN", 1>> >>
PassItem == << <<"LDD", 0>>, <<"POPN", 1>> >>
Occupy   == << <<"LDD", 0>>, <<"STR", "R">>, <<"STR", "Q">>, <<"LDM", "Q">> >>

Subroutines ==
    (IdSum :> Assemble(Combine("ADD"))) @@ (IdMin :> Assemble(Combine("MIN"))) @@
    (IdMax :> Assemble(Combine("MAX"))) @@ (IdItem :> Assemble(PassItem)) @@
    (IdOccupy :> Assemble(Occupy))

-----------------------------------------------------------------------------
(***************************************************************************)
(* The laws.  Each side leaves its result on top of the stack.             *)
(***************************************************************************)
Law(left, right) == [left |-> left, right |-> right]

\* Fold the vector X without its last component into that component.
FoldAll(subroutine) ==
    << LoadX, <<"VPOP">>, <<"SWAP", 1>>, <<"FOLD", subroutine, 1, 1, 0>>, <<"PKV", 1>> >>
OfAll(mnemonic) == << LoadX, <<mnemonic>>, <<"PKV", 1>> >>

\* Folding an operation over the components computes its aggregate.
FoldLaws == {Law(FoldAll(IdSum), OfAll("VSUM")),
             Law(FoldAll(IdMin), OfAll("VMIN")),
             Law(FoldAll(IdMax), OfAll("VMAX"))}

\* What takes a vector apart is undone by what puts it together.
StructureLaws ==
    {Law(<<LoadX, LoadY, <<"T", 2>>, <<"T", Size>> >>, <<LoadY>>),
     Law(<<LoadX, LoadY, <<"T", 2>>, <<"T", Size>>, <<"POPN", 1>> >>, <<LoadX>>),
     Law(<<LoadX, <<"UNPK">>, <<"PKV", Size>> >>, <<LoadX>>),
     Law(<<LoadX, <<"VPUSH", 2>>, <<"VPOP">>, <<"POPN", 1>> >>, <<LoadX>>)}

\* (X - Y, not below zero) + Y is the greater of the two, their minimum and
\* maximum add up to their sum, and zeros and ones are neutral.
ArithmeticLaws ==
    {Law(<<LoadY, LoadX, <<"SSB", 1>>, <<"ADD", 1>> >>, <<LoadY, LoadX, <<"MAX", 1>> >>),
     Law(<<LoadY, LoadX, <<"MIN", 1>>, LoadY, LoadX, <<"MAX", 1>>, <<"ADD", 2>> >>,
         <<LoadY, LoadX, <<"ADD", 1>> >>),
     Law(<<LoadY, LoadX, <<"ADD", 1>>, <<"SUB", 1>> >>, <<LoadX>>),
     Law(<<LoadX, <<"ZEROS", 0>>, <<"ADD", 1>> >>, <<LoadX>>),
     Law(<<LoadX, <<"ONES", 0>>, <<"LDD", 1>>, <<"MUL", 1>>, <<"DIV", 1>> >>, <<LoadX>>),
     Law(<<LoadX, <<"ONES", 0>>, <<"SQRT">> >>, <<LoadX, <<"ONES", 0>> >>)}

\* A call neither sees nor changes the registers of its caller, takes its
\* inputs off the caller's stack and leaves its outputs there.
CallLaws ==
    {Law(<<LoadX, <<"STR", "R">>, LoadY, <<"B", IdOccupy, 1, 1, 2>>, <<"LDM", "R">> >>, <<LoadX>>),
     Law(<<LoadX, LoadY, <<"STR", "R">>, <<"B", IdOccupy, 1, 1, 2>>, <<"LDR", "R">>,
           <<"SWAP", 1>> >>, <<LoadX>>)}

LabelLaws ==
    {Law(<<LoadA, <<"UNPK">>, <<"PKL", Size>> >>, <<LoadA>>),
     Law(<<LoadA, <<"FOLD", IdItem, 0, Size, 0>>, <<"PKL", Size>> >>, <<LoadA>>),
     Law(<<LoadA, <<"LPUSH", 9>>, <<"LPOP">>, <<"POPN", 1>> >>, <<LoadA>>),
     Law(<<LoadA, <<"LPUSH", 9>>, <<"LPOP">>, <<"PKL", 1>> >>, << <<"IMML", 9>>, <<"PKL", 1>> >>)}

\* The program that stores both sides of a law.
Sides(law, store) == Assemble(Append(law.left, <<store, IdLeft>>) \o
                              Append(law.right, <<store, IdRight>>))
LawCodes ==
    {Sides(law, "STV") : law \in FoldLaws \cup StructureLaws \cup ArithmeticLaws \cup CallLaws}
        \cup {Sides(law, "STL") : law \in LabelLaws}

-----------------------------------------------------------------------------
(***************************************************************************)
(* The joins: of vector X with labels A, and vector Y with labels B.       *)
(***************************************************************************)
Joining(join)  == Assemble(<<LoadB, LoadA, LoadY, LoadX, join, <<"STV", IdLeft>> >>)
FilterCode     == Joining(<<"JFLT", 2, 3>>)
UpdateCode     == Joining(<<"JUPD", 1, 2, 3>>)
AddCode        == Joining(<<"JADD", 1, 2, 3>>)
SameLabelsCode == Joining(<<"JUPD", 1, 2, 2>>)
UnionCode      == Assemble(<<LoadB, LoadA, <<"LUNION", 1>>, <<"STL", IdLeft>> >>)
JoinCodes      == {FilterCode, UpdateCode, AddCode, SameLabelsCode, UnionCode}

Operands(x, y, a, b) ==
    [id \in {IdX, IdY, IdA, IdB} \cup DOMAIN Subroutines |->
        CASE id = IdX -> x
          [] id = IdY -> y
          [] id = IdA -> a
          [] id = IdB -> b
          [] OTHER    -> Subroutines[id]]

\* A transaction of the user that has just begun.
Started(code, operands) ==
    /\ owner = ZeroAddress
    /\ vectors = operands /\ committed = operands
    /\ frames = <<Frame(code, 1, NewStack(1), 0, << >>)>>
    /\ tx = [sender |-> User, outcome |-> "running"]

LawsInit ==
    \/ \E x \in Vectors, y \in Vectors, code \in LawCodes :
          Started(code, Operands(x, y, NameTags, NameTags))
    \/ \E a \in Labellings, b \in Labellings, code \in JoinCodes :
          Started(code, Operands([i \in DOMAIN a |-> ValueA(a[i])],
                                 [i \in DOMAIN b |-> ValueB(b[i])], a, b))

LawsSpec == LawsInit /\ [][Step]_vars

-----------------------------------------------------------------------------
(***************************************************************************)
(* Properties.                                                             *)
(***************************************************************************)
Ran(codes)    == ~ Idle /\ Idle' /\ frames[1].code \in codes
Committing    == tx'.outcome = "done"
Result        == committed'[IdLeft]

\* The operands, as sequences, as sets and as functions of their labels.
VecX == committed[IdX]
VecY == committed[IdY]
LabA == committed[IdA]
LabB == committed[IdB]
SetA == ToSet(LabA)
SetB == ToSet(LabB)
OfB(a) == VecY[CHOOSE i \in DOMAIN LabB : LabB[i] = a]

\* Both sides of a law store the same data, and a law fails only where its
\* vectors have no sum: the instructions of vis.rs fit together.
SumsExist == /\ FoldLeft(Plus, 0, VecX) <= MAX
             /\ \A i \in DOMAIN VecX : VecX[i] + VecY[i] <= MAX
LawsHold ==
    [][Ran(LawCodes) => IF Committing THEN committed'[IdLeft] = committed'[IdRight]
                                      ELSE ~ SumsExist]_vars

\* No label of B is missing among those of A, as far as A goes.
Covered == \A b \in SetB : b \in SetA \/ b > Last(LabA)

\* JFLT keeps, in their order, the values of A whose labels are in B: each
\* becomes the n-th if it is the n-th of them.  It fails when B has a label
\* in the range of A that A has not.
Kept      == {i \in DOMAIN LabA : LabA[i] \in SetB}
RankOf(i) == Cardinality({k \in Kept : k <= i})
FilterRestricts ==
    [][Ran({FilterCode}) =>
        IF Committing
        THEN /\ Covered
             /\ Len(Result) = Cardinality(Kept)
             /\ \A i \in Kept : Result[RankOf(i)] = VecX[i]
        ELSE ~ Covered]_vars

\* JUPD replaces the values of A whose labels are in B, JADD adds to them,
\* and both leave the others alone; JADD also fails when a sum overflows.
Updated == [i \in DOMAIN LabA |-> IF LabA[i] \in SetB THEN OfB(LabA[i]) ELSE VecX[i]]
Added   == [i \in DOMAIN LabA |-> VecX[i] + (IF LabA[i] \in SetB THEN OfB(LabA[i]) ELSE 0)]
JoinsCombine ==
    [][/\ Ran({UpdateCode}) => IF Committing THEN Covered /\ Result = Updated ELSE ~ Covered
       /\ Ran({AddCode})    => IF Committing THEN Covered /\ Result = Added
                               ELSE ~ (Covered /\ AllRepresentable(Added))]_vars

\* LUNION keeps its result ascending, so that it can be joined with, keeps
\* every label of B up to the last of A, and loses at most one label of A.
UnionStaysOrdered ==
    [][Ran({UnionCode}) =>
        /\ Committing
        /\ Ascending(Result)
        /\ ToSet(Result) \subseteq SetA \cup SetB
        /\ \A b \in SetB : b <= Last(LabA) => b \in ToSet(Result)
        /\ Cardinality(SetA \ ToSet(Result)) <= 1]_vars

-----------------------------------------------------------------------------
(***************************************************************************)
(* What the comments say, and the code does not do.                        *)
(***************************************************************************)

\* "Union of two Labels operands" (libs/deli/src/vis.rs:25).
UnionIsUnion ==
    [][Ran({UnionCode}) /\ Committing => ToSet(Result) = SetA \cup SetB]_vars

\* "A must have at least all same labels as B or more labels"
\* (program.rs:660-662) and "B must be a subset of A" (program.rs:788).
LabelsMustBeCovered ==
    [][Ran({FilterCode, UpdateCode, AddCode}) /\ Committing => SetB \subseteq SetA]_vars

\* "Update using Labels" (libs/deli/src/vis.rs:28), when both vectors have the
\* same labels: the result is the other vector.
UpdateReplaces ==
    [][Ran({SameLabelsCode}) /\ Committing /\ LabA = LabB => Result = VecY]_vars

=============================================================================
