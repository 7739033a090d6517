-------------------------- MODULE DevilLawsProofs --------------------------
(***************************************************************************)
(* The joins of labels do, for ascending labels of any length, what        *)
(* DevilLaws says of them.                                                 *)
(*                                                                         *)
(* What the walks compute is shown in DevilProofs.  Here the programs that *)
(* load the operands, join them and store the result are followed, first   *)
(* instruction by instruction, then as transactions: FilterRestricts,      *)
(* JoinsCombine and UnionStaysOrdered.                                     *)
(***************************************************************************)
EXTENDS DevilLaws, DevilProofs

-----------------------------------------------------------------------------
(***************************************************************************)
(* What the assembler makes of the programs with the joins.                *)
(***************************************************************************)
\* The words of the instructions that the joins are run with.
LEMMA WordsOfJoining ==
    ASSUME NEW p
    PROVE  /\ Words(p, LoadA) = <<10, 3>> /\ Words(p, LoadB) = <<10, 4>>
           /\ Words(p, LoadX) = <<11, 1>> /\ Words(p, LoadY) = <<11, 2>>
           /\ Words(p, <<"STV", IdLeft>>) = <<21, 5>> /\ Words(p, <<"STL", IdLeft>>) = <<20, 5>>
           /\ Words(p, <<"JFLT", 2, 3>>) = <<45, 2, 3>> /\ Words(p, <<"LUNION", 1>>) = <<40, 1>>
           /\ Words(p, <<"JUPD", 1, 2, 3>>) = <<43, 1, 2, 3>>
           /\ Words(p, <<"JADD", 1, 2, 3>>) = <<44, 1, 2, 3>>
           /\ Words(p, <<"JUPD", 1, 2, 2>>) = <<43, 1, 2, 2>>
<1> DEFINE Plain(i) == ~ NamesRegister(i) /\ ~ HoldsAmount(i)
<1>1. \A i : Plain(i) => Words(p, i) = <<Opcode[i[1]]>> \o Tail(i)
  BY DEF Words
<1>2. ASSUME NEW w \in Nat, NEW x \in Nat
      PROVE  <<w>> \o <<x>> = <<w, x>>
  <2> DEFINE s == <<w>> \o <<x>>
  <2>1. s \in Seq(Nat) /\ Len(s) = 2 /\ s[1] = w /\ s[2] = x
    BY ConcatProperties
  <2> HIDE DEF s
  <2>2. s = <<w, x>>
    BY <2>1
  <2> QED BY <2>2 DEF s
<1>3. <<45>> \o <<2, 3>> = <<45, 2, 3>>
  <2> DEFINE s == <<45>> \o <<2, 3>>
  <2>1. s \in Seq(Nat) /\ Len(s) = 3 /\ s[1] = 45 /\ s[2] = 2 /\ s[3] = 3
    BY ConcatProperties
  <2> HIDE DEF s
  <2>2. s = <<45, 2, 3>>
    BY <2>1
  <2> QED BY <2>2 DEF s
<1>4. ASSUME NEW w \in Nat PROVE <<w>> \o <<1, 2, 3>> = <<w, 1, 2, 3>>
  <2> DEFINE s == <<w>> \o <<1, 2, 3>>
  <2>1. s \in Seq(Nat) /\ Len(s) = 4 /\ s[1] = w /\ s[2] = 1 /\ s[3] = 2 /\ s[4] = 3
    BY ConcatProperties
  <2> HIDE DEF s
  <2>2. s = <<w, 1, 2, 3>>
    BY <2>1
  <2> QED BY <2>2 DEF s
<1>5. <<43>> \o <<1, 2, 2>> = <<43, 1, 2, 2>>
  <2> DEFINE s == <<43>> \o <<1, 2, 2>>
  <2>1. s \in Seq(Nat) /\ Len(s) = 4 /\ s[1] = 43 /\ s[2] = 1 /\ s[3] = 2 /\ s[4] = 2
    BY ConcatProperties
  <2> HIDE DEF s
  <2>2. s = <<43, 1, 2, 2>>
    BY <2>1
  <2> QED BY <2>2 DEF s
<1>6. /\ Opcode["LDL"] = 10 /\ Opcode["LDV"] = 11 /\ Opcode["STL"] = 20 /\ Opcode["STV"] = 21
      /\ Opcode["LUNION"] = 40 /\ Opcode["JUPD"] = 43 /\ Opcode["JADD"] = 44 /\ Opcode["JFLT"] = 45
  BY DEF Opcode
<1>7. /\ Plain(LoadA) /\ LoadA[1] = "LDL" /\ Tail(LoadA) = <<3>>
      /\ Plain(LoadB) /\ LoadB[1] = "LDL" /\ Tail(LoadB) = <<4>>
      /\ Plain(LoadX) /\ LoadX[1] = "LDV" /\ Tail(LoadX) = <<1>>
      /\ Plain(LoadY) /\ LoadY[1] = "LDV" /\ Tail(LoadY) = <<2>>
  BY DEF LoadA, LoadB, LoadX, LoadY, IdA, IdB, IdX, IdY, NamesRegister, HoldsAmount
<1>8. /\ Plain(<<"STV", IdLeft>>) /\ Tail(<<"STV", IdLeft>>) = <<5>>
      /\ Plain(<<"STL", IdLeft>>) /\ Tail(<<"STL", IdLeft>>) = <<5>>
      /\ Plain(<<"JFLT", 2, 3>>) /\ Tail(<<"JFLT", 2, 3>>) = <<2, 3>>
      /\ Plain(<<"LUNION", 1>>) /\ Tail(<<"LUNION", 1>>) = <<1>>
      /\ Plain(<<"JUPD", 1, 2, 3>>) /\ Tail(<<"JUPD", 1, 2, 3>>) = <<1, 2, 3>>
      /\ Plain(<<"JUPD", 1, 2, 2>>) /\ Tail(<<"JUPD", 1, 2, 2>>) = <<1, 2, 2>>
      /\ Plain(<<"JADD", 1, 2, 3>>) /\ Tail(<<"JADD", 1, 2, 3>>) = <<1, 2, 3>>
  BY DEF IdLeft, NamesRegister, HoldsAmount
<1> HIDE DEF Plain
<1>9. /\ Words(p, LoadA) = <<10>> \o <<3>> /\ Words(p, LoadB) = <<10>> \o <<4>>
      /\ Words(p, LoadX) = <<11>> \o <<1>> /\ Words(p, LoadY) = <<11>> \o <<2>>
  BY <1>1, <1>6, <1>7
<1>10. /\ Words(p, <<"STV", IdLeft>>) = <<21>> \o <<5>>
      /\ Words(p, <<"STL", IdLeft>>) = <<20>> \o <<5>>
      /\ Words(p, <<"LUNION", 1>>) = <<40>> \o <<1>>
  BY <1>1, <1>6, <1>8
<1>11. Words(p, <<"JFLT", 2, 3>>) = <<45, 2, 3>>
  <2>1. Words(p, <<"JFLT", 2, 3>>) = <<45>> \o <<2, 3>>
    BY <1>1, <1>6, <1>8
  <2> QED BY <1>3, <2>1
<1>12. /\ Words(p, <<"JUPD", 1, 2, 3>>) = <<43, 1, 2, 3>>
       /\ Words(p, <<"JADD", 1, 2, 3>>) = <<44, 1, 2, 3>>
  BY <1>1, <1>4, <1>6, <1>8
<1>13. Words(p, <<"JUPD", 1, 2, 2>>) = <<43, 1, 2, 2>>
  <2>1. Words(p, <<"JUPD", 1, 2, 2>>) = <<43>> \o <<1, 2, 2>>
    BY <1>1, <1>6, <1>8
  <2> QED BY <1>5, <2>1
<1> QED BY <1>2, <1>9, <1>10, <1>11, <1>12, <1>13

\* Loading the labels and the vectors.
LoadWords == <<10, 4, 10, 3, 11, 2, 11, 1>>

\* What the concatenations of these words are.
LEMMA Concatenations ==
    /\ << >> \o <<10, 4>> = <<10, 4>>
    /\ <<10, 4>> \o <<10, 3>> = <<10, 4, 10, 3>>
    /\ <<10, 4, 10, 3>> \o <<11, 2>> = <<10, 4, 10, 3, 11, 2>>
    /\ <<10, 4, 10, 3, 11, 2>> \o <<11, 1>> = LoadWords
    /\ LoadWords \o <<45, 2, 3>> = <<10, 4, 10, 3, 11, 2, 11, 1, 45, 2, 3>>
    /\ LoadWords \o <<43, 1, 2, 3>> = <<10, 4, 10, 3, 11, 2, 11, 1, 43, 1, 2, 3>>
    /\ LoadWords \o <<44, 1, 2, 3>> = <<10, 4, 10, 3, 11, 2, 11, 1, 44, 1, 2, 3>>
    /\ <<10, 4, 10, 3>> \o <<40, 1>> = <<10, 4, 10, 3, 40, 1>>
    /\ LoadWords \o <<43, 1, 2, 2>> = <<10, 4, 10, 3, 11, 2, 11, 1, 43, 1, 2, 2>>
<1>1. << >> \o <<10, 4>> = <<10, 4>>
  OBVIOUS
<1>2. <<10, 4>> \o <<10, 3>> = <<10, 4, 10, 3>>
  <2> DEFINE s == <<10, 4>> \o <<10, 3>>
  <2>1. s \in Seq(Nat) /\ Len(s) = 4
    BY ConcatProperties
  <2>2. /\ s[1] = 10 /\ s[2] = 4 /\ s[3] = 10 /\ s[4] = 3
    BY ConcatProperties
  <2> HIDE DEF s
  <2>3. s = <<10, 4, 10, 3>>
    BY <2>1, <2>2
  <2> QED BY <2>3 DEF s
<1>3. <<10, 4, 10, 3>> \o <<11, 2>> = <<10, 4, 10, 3, 11, 2>>
  <2> DEFINE s == <<10, 4, 10, 3>> \o <<11, 2>>
  <2>1. s \in Seq(Nat) /\ Len(s) = 6
    BY ConcatProperties
  <2>2. /\ s[1] = 10 /\ s[2] = 4 /\ s[3] = 10 /\ s[4] = 3 /\ s[5] = 11 /\ s[6] = 2
    BY ConcatProperties
  <2> HIDE DEF s
  <2>3. s = <<10, 4, 10, 3, 11, 2>>
    BY <2>1, <2>2
  <2> QED BY <2>3 DEF s
<1>4. <<10, 4, 10, 3, 11, 2>> \o <<11, 1>> = <<10, 4, 10, 3, 11, 2, 11, 1>>
  <2> DEFINE s == <<10, 4, 10, 3, 11, 2>> \o <<11, 1>>
  <2>1. s \in Seq(Nat) /\ Len(s) = 8
    BY ConcatProperties
  <2>2. /\ s[1] = 10 /\ s[2] = 4 /\ s[3] = 10 /\ s[4] = 3 /\ s[5] = 11 /\ s[6] = 2 /\ s[7] = 11
       /\ s[8] = 1
    BY ConcatProperties
  <2> HIDE DEF s
  <2>3. s = <<10, 4, 10, 3, 11, 2, 11, 1>>
    BY <2>1, <2>2
  <2> QED BY <2>3 DEF s
<1>5. <<10, 4, 10, 3, 11, 2, 11, 1>> \o <<45, 2, 3>> = <<10, 4, 10, 3, 11, 2, 11, 1, 45, 2, 3>>
  <2> DEFINE s == <<10, 4, 10, 3, 11, 2, 11, 1>> \o <<45, 2, 3>>
  <2>1. s \in Seq(Nat) /\ Len(s) = 11
    BY ConcatProperties
  <2>2. /\ s[1] = 10 /\ s[2] = 4 /\ s[3] = 10 /\ s[4] = 3 /\ s[5] = 11 /\ s[6] = 2 /\ s[7] = 11
       /\ s[8] = 1 /\ s[9] = 45 /\ s[10] = 2 /\ s[11] = 3
    BY ConcatProperties
  <2> HIDE DEF s
  <2>3. s = <<10, 4, 10, 3, 11, 2, 11, 1, 45, 2, 3>>
    BY <2>1, <2>2
  <2> QED BY <2>3 DEF s
<1>6. <<10, 4, 10, 3, 11, 2, 11, 1>> \o <<43, 1, 2, 3>>
        = <<10, 4, 10, 3, 11, 2, 11, 1, 43, 1, 2, 3>>
  <2> DEFINE s == <<10, 4, 10, 3, 11, 2, 11, 1>> \o <<43, 1, 2, 3>>
  <2>1. s \in Seq(Nat) /\ Len(s) = 12
    BY ConcatProperties
  <2>2. /\ s[1] = 10 /\ s[2] = 4 /\ s[3] = 10 /\ s[4] = 3 /\ s[5] = 11 /\ s[6] = 2 /\ s[7] = 11
       /\ s[8] = 1 /\ s[9] = 43 /\ s[10] = 1 /\ s[11] = 2 /\ s[12] = 3
    BY ConcatProperties
  <2> HIDE DEF s
  <2>3. s = <<10, 4, 10, 3, 11, 2, 11, 1, 43, 1, 2, 3>>
    BY <2>1, <2>2
  <2> QED BY <2>3 DEF s
<1>7. <<10, 4, 10, 3, 11, 2, 11, 1>> \o <<44, 1, 2, 3>>
        = <<10, 4, 10, 3, 11, 2, 11, 1, 44, 1, 2, 3>>
  <2> DEFINE s == <<10, 4, 10, 3, 11, 2, 11, 1>> \o <<44, 1, 2, 3>>
  <2>1. s \in Seq(Nat) /\ Len(s) = 12
    BY ConcatProperties
  <2>2. /\ s[1] = 10 /\ s[2] = 4 /\ s[3] = 10 /\ s[4] = 3 /\ s[5] = 11 /\ s[6] = 2 /\ s[7] = 11
       /\ s[8] = 1 /\ s[9] = 44 /\ s[10] = 1 /\ s[11] = 2 /\ s[12] = 3
    BY ConcatProperties
  <2> HIDE DEF s
  <2>3. s = <<10, 4, 10, 3, 11, 2, 11, 1, 44, 1, 2, 3>>
    BY <2>1, <2>2
  <2> QED BY <2>3 DEF s
<1>8. <<10, 4, 10, 3>> \o <<40, 1>> = <<10, 4, 10, 3, 40, 1>>
  <2> DEFINE s == <<10, 4, 10, 3>> \o <<40, 1>>
  <2>1. s \in Seq(Nat) /\ Len(s) = 6
    BY ConcatProperties
  <2>2. /\ s[1] = 10 /\ s[2] = 4 /\ s[3] = 10 /\ s[4] = 3 /\ s[5] = 40 /\ s[6] = 1
    BY ConcatProperties
  <2> HIDE DEF s
  <2>3. s = <<10, 4, 10, 3, 40, 1>>
    BY <2>1, <2>2
  <2> QED BY <2>3 DEF s
<1>9. <<10, 4, 10, 3, 11, 2, 11, 1>> \o <<43, 1, 2, 2>>
        = <<10, 4, 10, 3, 11, 2, 11, 1, 43, 1, 2, 2>>
  <2> DEFINE s == <<10, 4, 10, 3, 11, 2, 11, 1>> \o <<43, 1, 2, 2>>
  <2>1. s \in Seq(Nat) /\ Len(s) = 12
    BY ConcatProperties
  <2>2. /\ s[1] = 10 /\ s[2] = 4 /\ s[3] = 10 /\ s[4] = 3 /\ s[5] = 11 /\ s[6] = 2 /\ s[7] = 11
       /\ s[8] = 1 /\ s[9] = 43 /\ s[10] = 1 /\ s[11] = 2 /\ s[12] = 2
    BY ConcatProperties
  <2> HIDE DEF s
  <2>3. s = <<10, 4, 10, 3, 11, 2, 11, 1, 43, 1, 2, 2>>
    BY <2>1, <2>2
  <2> QED BY <2>3 DEF s
<1> QED BY <1>1, <1>2, <1>3, <1>4, <1>5, <1>6, <1>7, <1>8, <1>9 DEF LoadWords

LEMMA LastConcatenations ==
    /\ <<10, 4, 10, 3, 11, 2, 11, 1, 45, 2, 3>> \o <<21, 5>>
          = <<10, 4, 10, 3, 11, 2, 11, 1, 45, 2, 3, 21, 5>>
    /\ <<10, 4, 10, 3, 11, 2, 11, 1, 43, 1, 2, 3>> \o <<21, 5>>
          = <<10, 4, 10, 3, 11, 2, 11, 1, 43, 1, 2, 3, 21, 5>>
    /\ <<10, 4, 10, 3, 11, 2, 11, 1, 44, 1, 2, 3>> \o <<21, 5>>
          = <<10, 4, 10, 3, 11, 2, 11, 1, 44, 1, 2, 3, 21, 5>>
    /\ <<10, 4, 10, 3, 40, 1>> \o <<20, 5>> = <<10, 4, 10, 3, 40, 1, 20, 5>>
    /\ <<10, 4, 10, 3, 11, 2, 11, 1, 43, 1, 2, 2>> \o <<21, 5>>
          = <<10, 4, 10, 3, 11, 2, 11, 1, 43, 1, 2, 2, 21, 5>>
<1>1. <<10, 4, 10, 3, 11, 2, 11, 1, 45, 2, 3>> \o <<21, 5>>
        = <<10, 4, 10, 3, 11, 2, 11, 1, 45, 2, 3, 21, 5>>
  <2> DEFINE s == <<10, 4, 10, 3, 11, 2, 11, 1, 45, 2, 3>> \o <<21, 5>>
  <2>1. s \in Seq(Nat) /\ Len(s) = 13
    BY ConcatProperties
  <2>2. /\ s[1] = 10 /\ s[2] = 4 /\ s[3] = 10 /\ s[4] = 3 /\ s[5] = 11 /\ s[6] = 2 /\ s[7] = 11
       /\ s[8] = 1 /\ s[9] = 45 /\ s[10] = 2 /\ s[11] = 3 /\ s[12] = 21 /\ s[13] = 5
    BY ConcatProperties
  <2> HIDE DEF s
  <2>3. s = <<10, 4, 10, 3, 11, 2, 11, 1, 45, 2, 3, 21, 5>>
    BY <2>1, <2>2
  <2> QED BY <2>3 DEF s
<1>2. <<10, 4, 10, 3, 11, 2, 11, 1, 43, 1, 2, 3>> \o <<21, 5>>
        = <<10, 4, 10, 3, 11, 2, 11, 1, 43, 1, 2, 3, 21, 5>>
  <2> DEFINE s == <<10, 4, 10, 3, 11, 2, 11, 1, 43, 1, 2, 3>> \o <<21, 5>>
  <2>1. s \in Seq(Nat) /\ Len(s) = 14
    BY ConcatProperties
  <2>2. /\ s[1] = 10 /\ s[2] = 4 /\ s[3] = 10 /\ s[4] = 3 /\ s[5] = 11 /\ s[6] = 2 /\ s[7] = 11
       /\ s[8] = 1 /\ s[9] = 43 /\ s[10] = 1 /\ s[11] = 2 /\ s[12] = 3 /\ s[13] = 21 /\ s[14] = 5
    BY ConcatProperties
  <2> HIDE DEF s
  <2>3. s = <<10, 4, 10, 3, 11, 2, 11, 1, 43, 1, 2, 3, 21, 5>>
    BY <2>1, <2>2
  <2> QED BY <2>3 DEF s
<1>3. <<10, 4, 10, 3, 11, 2, 11, 1, 44, 1, 2, 3>> \o <<21, 5>>
        = <<10, 4, 10, 3, 11, 2, 11, 1, 44, 1, 2, 3, 21, 5>>
  <2> DEFINE s == <<10, 4, 10, 3, 11, 2, 11, 1, 44, 1, 2, 3>> \o <<21, 5>>
  <2>1. s \in Seq(Nat) /\ Len(s) = 14
    BY ConcatProperties
  <2>2. /\ s[1] = 10 /\ s[2] = 4 /\ s[3] = 10 /\ s[4] = 3 /\ s[5] = 11 /\ s[6] = 2 /\ s[7] = 11
       /\ s[8] = 1 /\ s[9] = 44 /\ s[10] = 1 /\ s[11] = 2 /\ s[12] = 3 /\ s[13] = 21 /\ s[14] = 5
    BY ConcatProperties
  <2> HIDE DEF s
  <2>3. s = <<10, 4, 10, 3, 11, 2, 11, 1, 44, 1, 2, 3, 21, 5>>
    BY <2>1, <2>2
  <2> QED BY <2>3 DEF s
<1>4. <<10, 4, 10, 3, 40, 1>> \o <<20, 5>> = <<10, 4, 10, 3, 40, 1, 20, 5>>
  <2> DEFINE s == <<10, 4, 10, 3, 40, 1>> \o <<20, 5>>
  <2>1. s \in Seq(Nat) /\ Len(s) = 8
    BY ConcatProperties
  <2>2. /\ s[1] = 10 /\ s[2] = 4 /\ s[3] = 10 /\ s[4] = 3 /\ s[5] = 40 /\ s[6] = 1 /\ s[7] = 20
       /\ s[8] = 5
    BY ConcatProperties
  <2> HIDE DEF s
  <2>3. s = <<10, 4, 10, 3, 40, 1, 20, 5>>
    BY <2>1, <2>2
  <2> QED BY <2>3 DEF s
<1>5. <<10, 4, 10, 3, 11, 2, 11, 1, 43, 1, 2, 2>> \o <<21, 5>>
        = <<10, 4, 10, 3, 11, 2, 11, 1, 43, 1, 2, 2, 21, 5>>
  <2> DEFINE s == <<10, 4, 10, 3, 11, 2, 11, 1, 43, 1, 2, 2>> \o <<21, 5>>
  <2>1. s \in Seq(Nat) /\ Len(s) = 14
    BY ConcatProperties
  <2>2. /\ s[1] = 10 /\ s[2] = 4 /\ s[3] = 10 /\ s[4] = 3 /\ s[5] = 11 /\ s[6] = 2 /\ s[7] = 11
       /\ s[8] = 1 /\ s[9] = 43 /\ s[10] = 1 /\ s[11] = 2 /\ s[12] = 2 /\ s[13] = 21 /\ s[14] = 5
    BY ConcatProperties
  <2> HIDE DEF s
  <2>3. s = <<10, 4, 10, 3, 11, 2, 11, 1, 43, 1, 2, 2, 21, 5>>
    BY <2>1, <2>2
  <2> QED BY <2>3 DEF s
<1> QED BY <1>1, <1>2, <1>3, <1>4, <1>5

\* The four programs, word by word.
LEMMA FilterWords == FilterCode = <<10, 4, 10, 3, 11, 2, 11, 1, 45, 2, 3, 21, 5>>
<1> DEFINE p == <<LoadB, LoadA, LoadY, LoadX, <<"JFLT", 2, 3>>, <<"STV", IdLeft>> >>
<1>1. /\ Len(p) = 6 /\ p[1] = LoadB /\ p[2] = LoadA /\ p[3] = LoadY /\ p[4] = LoadX
      /\ p[5] = <<"JFLT", 2, 3>> /\ p[6] = <<"STV", IdLeft>>
  OBVIOUS
<1> HIDE DEF p
<1>2. PICK f : IsAssembly(p, f)
  BY <1>1, AssemblySteps
<1>3. f[0] = << >> /\ \A i \in 1 .. 6 : f[i] = f[i - 1] \o Words(p, p[i])
  BY <1>1, <1>2 DEF IsAssembly
<1>4. f[1] = <<10, 4>>
  <2>1. 1 \in 1 .. 6 /\ 1 - 1 = 0
    OBVIOUS
  <2>2. f[1] = f[0] \o Words(p, p[1])
    BY <1>3, <2>1
  <2>3. Words(p, p[1]) = <<10, 4>>
    BY <1>1, WordsOfJoining
  <2> QED BY <1>3, <2>2, <2>3, Concatenations, LastConcatenations DEF LoadWords
<1>5. f[2] = <<10, 4, 10, 3>>
  <2>1. 2 \in 1 .. 6 /\ 2 - 1 = 1
    OBVIOUS
  <2>2. f[2] = f[1] \o Words(p, p[2])
    BY <1>3, <2>1
  <2>3. Words(p, p[2]) = <<10, 3>>
    BY <1>1, WordsOfJoining
  <2> QED BY <1>4, <2>2, <2>3, Concatenations, LastConcatenations DEF LoadWords
<1>6. f[3] = <<10, 4, 10, 3, 11, 2>>
  <2>1. 3 \in 1 .. 6 /\ 3 - 1 = 2
    OBVIOUS
  <2>2. f[3] = f[2] \o Words(p, p[3])
    BY <1>3, <2>1
  <2>3. Words(p, p[3]) = <<11, 2>>
    BY <1>1, WordsOfJoining
  <2> QED BY <1>5, <2>2, <2>3, Concatenations, LastConcatenations DEF LoadWords
<1>7. f[4] = <<10, 4, 10, 3, 11, 2, 11, 1>>
  <2>1. 4 \in 1 .. 6 /\ 4 - 1 = 3
    OBVIOUS
  <2>2. f[4] = f[3] \o Words(p, p[4])
    BY <1>3, <2>1
  <2>3. Words(p, p[4]) = <<11, 1>>
    BY <1>1, WordsOfJoining
  <2> QED BY <1>6, <2>2, <2>3, Concatenations, LastConcatenations DEF LoadWords
<1>8. f[5] = <<10, 4, 10, 3, 11, 2, 11, 1, 45, 2, 3>>
  <2>1. 5 \in 1 .. 6 /\ 5 - 1 = 4
    OBVIOUS
  <2>2. f[5] = f[4] \o Words(p, p[5])
    BY <1>3, <2>1
  <2>3. Words(p, p[5]) = <<45, 2, 3>>
    BY <1>1, WordsOfJoining
  <2> QED BY <1>7, <2>2, <2>3, Concatenations, LastConcatenations DEF LoadWords
<1>9. f[6] = <<10, 4, 10, 3, 11, 2, 11, 1, 45, 2, 3, 21, 5>>
  <2>1. 6 \in 1 .. 6 /\ 6 - 1 = 5
    OBVIOUS
  <2>2. f[6] = f[5] \o Words(p, p[6])
    BY <1>3, <2>1
  <2>3. Words(p, p[6]) = <<21, 5>>
    BY <1>1, WordsOfJoining
  <2> QED BY <1>8, <2>2, <2>3, Concatenations, LastConcatenations DEF LoadWords
<1>10. FilterCode = f[6]
  BY <1>1, <1>2 DEF IsAssembly, FilterCode, Joining, p
<1> QED BY <1>9, <1>10

LEMMA UpdateWords == UpdateCode = <<10, 4, 10, 3, 11, 2, 11, 1, 43, 1, 2, 3, 21, 5>>
<1> DEFINE p == <<LoadB, LoadA, LoadY, LoadX, <<"JUPD", 1, 2, 3>>, <<"STV", IdLeft>> >>
<1>1. /\ Len(p) = 6 /\ p[1] = LoadB /\ p[2] = LoadA /\ p[3] = LoadY /\ p[4] = LoadX
      /\ p[5] = <<"JUPD", 1, 2, 3>> /\ p[6] = <<"STV", IdLeft>>
  OBVIOUS
<1> HIDE DEF p
<1>2. PICK f : IsAssembly(p, f)
  BY <1>1, AssemblySteps
<1>3. f[0] = << >> /\ \A i \in 1 .. 6 : f[i] = f[i - 1] \o Words(p, p[i])
  BY <1>1, <1>2 DEF IsAssembly
<1>4. f[1] = <<10, 4>>
  <2>1. 1 \in 1 .. 6 /\ 1 - 1 = 0
    OBVIOUS
  <2>2. f[1] = f[0] \o Words(p, p[1])
    BY <1>3, <2>1
  <2>3. Words(p, p[1]) = <<10, 4>>
    BY <1>1, WordsOfJoining
  <2> QED BY <1>3, <2>2, <2>3, Concatenations, LastConcatenations DEF LoadWords
<1>5. f[2] = <<10, 4, 10, 3>>
  <2>1. 2 \in 1 .. 6 /\ 2 - 1 = 1
    OBVIOUS
  <2>2. f[2] = f[1] \o Words(p, p[2])
    BY <1>3, <2>1
  <2>3. Words(p, p[2]) = <<10, 3>>
    BY <1>1, WordsOfJoining
  <2> QED BY <1>4, <2>2, <2>3, Concatenations, LastConcatenations DEF LoadWords
<1>6. f[3] = <<10, 4, 10, 3, 11, 2>>
  <2>1. 3 \in 1 .. 6 /\ 3 - 1 = 2
    OBVIOUS
  <2>2. f[3] = f[2] \o Words(p, p[3])
    BY <1>3, <2>1
  <2>3. Words(p, p[3]) = <<11, 2>>
    BY <1>1, WordsOfJoining
  <2> QED BY <1>5, <2>2, <2>3, Concatenations, LastConcatenations DEF LoadWords
<1>7. f[4] = <<10, 4, 10, 3, 11, 2, 11, 1>>
  <2>1. 4 \in 1 .. 6 /\ 4 - 1 = 3
    OBVIOUS
  <2>2. f[4] = f[3] \o Words(p, p[4])
    BY <1>3, <2>1
  <2>3. Words(p, p[4]) = <<11, 1>>
    BY <1>1, WordsOfJoining
  <2> QED BY <1>6, <2>2, <2>3, Concatenations, LastConcatenations DEF LoadWords
<1>8. f[5] = <<10, 4, 10, 3, 11, 2, 11, 1, 43, 1, 2, 3>>
  <2>1. 5 \in 1 .. 6 /\ 5 - 1 = 4
    OBVIOUS
  <2>2. f[5] = f[4] \o Words(p, p[5])
    BY <1>3, <2>1
  <2>3. Words(p, p[5]) = <<43, 1, 2, 3>>
    BY <1>1, WordsOfJoining
  <2> QED BY <1>7, <2>2, <2>3, Concatenations, LastConcatenations DEF LoadWords
<1>9. f[6] = <<10, 4, 10, 3, 11, 2, 11, 1, 43, 1, 2, 3, 21, 5>>
  <2>1. 6 \in 1 .. 6 /\ 6 - 1 = 5
    OBVIOUS
  <2>2. f[6] = f[5] \o Words(p, p[6])
    BY <1>3, <2>1
  <2>3. Words(p, p[6]) = <<21, 5>>
    BY <1>1, WordsOfJoining
  <2> QED BY <1>8, <2>2, <2>3, Concatenations, LastConcatenations DEF LoadWords
<1>10. UpdateCode = f[6]
  BY <1>1, <1>2 DEF IsAssembly, UpdateCode, Joining, p
<1> QED BY <1>9, <1>10

LEMMA AddWords == AddCode = <<10, 4, 10, 3, 11, 2, 11, 1, 44, 1, 2, 3, 21, 5>>
<1> DEFINE p == <<LoadB, LoadA, LoadY, LoadX, <<"JADD", 1, 2, 3>>, <<"STV", IdLeft>> >>
<1>1. /\ Len(p) = 6 /\ p[1] = LoadB /\ p[2] = LoadA /\ p[3] = LoadY /\ p[4] = LoadX
      /\ p[5] = <<"JADD", 1, 2, 3>> /\ p[6] = <<"STV", IdLeft>>
  OBVIOUS
<1> HIDE DEF p
<1>2. PICK f : IsAssembly(p, f)
  BY <1>1, AssemblySteps
<1>3. f[0] = << >> /\ \A i \in 1 .. 6 : f[i] = f[i - 1] \o Words(p, p[i])
  BY <1>1, <1>2 DEF IsAssembly
<1>4. f[1] = <<10, 4>>
  <2>1. 1 \in 1 .. 6 /\ 1 - 1 = 0
    OBVIOUS
  <2>2. f[1] = f[0] \o Words(p, p[1])
    BY <1>3, <2>1
  <2>3. Words(p, p[1]) = <<10, 4>>
    BY <1>1, WordsOfJoining
  <2> QED BY <1>3, <2>2, <2>3, Concatenations, LastConcatenations DEF LoadWords
<1>5. f[2] = <<10, 4, 10, 3>>
  <2>1. 2 \in 1 .. 6 /\ 2 - 1 = 1
    OBVIOUS
  <2>2. f[2] = f[1] \o Words(p, p[2])
    BY <1>3, <2>1
  <2>3. Words(p, p[2]) = <<10, 3>>
    BY <1>1, WordsOfJoining
  <2> QED BY <1>4, <2>2, <2>3, Concatenations, LastConcatenations DEF LoadWords
<1>6. f[3] = <<10, 4, 10, 3, 11, 2>>
  <2>1. 3 \in 1 .. 6 /\ 3 - 1 = 2
    OBVIOUS
  <2>2. f[3] = f[2] \o Words(p, p[3])
    BY <1>3, <2>1
  <2>3. Words(p, p[3]) = <<11, 2>>
    BY <1>1, WordsOfJoining
  <2> QED BY <1>5, <2>2, <2>3, Concatenations, LastConcatenations DEF LoadWords
<1>7. f[4] = <<10, 4, 10, 3, 11, 2, 11, 1>>
  <2>1. 4 \in 1 .. 6 /\ 4 - 1 = 3
    OBVIOUS
  <2>2. f[4] = f[3] \o Words(p, p[4])
    BY <1>3, <2>1
  <2>3. Words(p, p[4]) = <<11, 1>>
    BY <1>1, WordsOfJoining
  <2> QED BY <1>6, <2>2, <2>3, Concatenations, LastConcatenations DEF LoadWords
<1>8. f[5] = <<10, 4, 10, 3, 11, 2, 11, 1, 44, 1, 2, 3>>
  <2>1. 5 \in 1 .. 6 /\ 5 - 1 = 4
    OBVIOUS
  <2>2. f[5] = f[4] \o Words(p, p[5])
    BY <1>3, <2>1
  <2>3. Words(p, p[5]) = <<44, 1, 2, 3>>
    BY <1>1, WordsOfJoining
  <2> QED BY <1>7, <2>2, <2>3, Concatenations, LastConcatenations DEF LoadWords
<1>9. f[6] = <<10, 4, 10, 3, 11, 2, 11, 1, 44, 1, 2, 3, 21, 5>>
  <2>1. 6 \in 1 .. 6 /\ 6 - 1 = 5
    OBVIOUS
  <2>2. f[6] = f[5] \o Words(p, p[6])
    BY <1>3, <2>1
  <2>3. Words(p, p[6]) = <<21, 5>>
    BY <1>1, WordsOfJoining
  <2> QED BY <1>8, <2>2, <2>3, Concatenations, LastConcatenations DEF LoadWords
<1>10. AddCode = f[6]
  BY <1>1, <1>2 DEF IsAssembly, AddCode, Joining, p
<1> QED BY <1>9, <1>10

LEMMA UnionWords == UnionCode = <<10, 4, 10, 3, 40, 1, 20, 5>>
<1> DEFINE p == <<LoadB, LoadA, <<"LUNION", 1>>, <<"STL", IdLeft>> >>
<1>1. /\ Len(p) = 4 /\ p[1] = LoadB /\ p[2] = LoadA
      /\ p[3] = <<"LUNION", 1>> /\ p[4] = <<"STL", IdLeft>>
  OBVIOUS
<1> HIDE DEF p
<1>2. PICK f : IsAssembly(p, f)
  BY <1>1, AssemblySteps
<1>3. f[0] = << >> /\ \A i \in 1 .. 4 : f[i] = f[i - 1] \o Words(p, p[i])
  BY <1>1, <1>2 DEF IsAssembly
<1>4. f[1] = <<10, 4>>
  <2>1. 1 \in 1 .. 4 /\ 1 - 1 = 0
    OBVIOUS
  <2>2. f[1] = f[0] \o Words(p, p[1])
    BY <1>3, <2>1
  <2>3. Words(p, p[1]) = <<10, 4>>
    BY <1>1, WordsOfJoining
  <2> QED BY <1>3, <2>2, <2>3, Concatenations, LastConcatenations DEF LoadWords
<1>5. f[2] = <<10, 4, 10, 3>>
  <2>1. 2 \in 1 .. 4 /\ 2 - 1 = 1
    OBVIOUS
  <2>2. f[2] = f[1] \o Words(p, p[2])
    BY <1>3, <2>1
  <2>3. Words(p, p[2]) = <<10, 3>>
    BY <1>1, WordsOfJoining
  <2> QED BY <1>4, <2>2, <2>3, Concatenations, LastConcatenations DEF LoadWords
<1>6. f[3] = <<10, 4, 10, 3, 40, 1>>
  <2>1. 3 \in 1 .. 4 /\ 3 - 1 = 2
    OBVIOUS
  <2>2. f[3] = f[2] \o Words(p, p[3])
    BY <1>3, <2>1
  <2>3. Words(p, p[3]) = <<40, 1>>
    BY <1>1, WordsOfJoining
  <2> QED BY <1>5, <2>2, <2>3, Concatenations, LastConcatenations DEF LoadWords
<1>7. f[4] = <<10, 4, 10, 3, 40, 1, 20, 5>>
  <2>1. 4 \in 1 .. 4 /\ 4 - 1 = 3
    OBVIOUS
  <2>2. f[4] = f[3] \o Words(p, p[4])
    BY <1>3, <2>1
  <2>3. Words(p, p[4]) = <<20, 5>>
    BY <1>1, WordsOfJoining
  <2> QED BY <1>6, <2>2, <2>3, Concatenations, LastConcatenations DEF LoadWords
<1>8. UnionCode = f[4]
  BY <1>1, <1>2 DEF IsAssembly, UnionCode, p
<1> QED BY <1>7, <1>8

LEMMA SameLabelsWords == SameLabelsCode = <<10, 4, 10, 3, 11, 2, 11, 1, 43, 1, 2, 2, 21, 5>>
<1> DEFINE p == <<LoadB, LoadA, LoadY, LoadX, <<"JUPD", 1, 2, 2>>, <<"STV", IdLeft>> >>
<1>1. /\ Len(p) = 6 /\ p[1] = LoadB /\ p[2] = LoadA /\ p[3] = LoadY /\ p[4] = LoadX
      /\ p[5] = <<"JUPD", 1, 2, 2>> /\ p[6] = <<"STV", IdLeft>>
  OBVIOUS
<1> HIDE DEF p
<1>2. PICK f : IsAssembly(p, f)
  BY <1>1, AssemblySteps
<1>3. f[0] = << >> /\ \A i \in 1 .. 6 : f[i] = f[i - 1] \o Words(p, p[i])
  BY <1>1, <1>2 DEF IsAssembly
<1>4. f[1] = <<10, 4>>
  <2>1. 1 \in 1 .. 6 /\ 1 - 1 = 0
    OBVIOUS
  <2>2. f[1] = f[0] \o Words(p, p[1])
    BY <1>3, <2>1
  <2>3. Words(p, p[1]) = <<10, 4>>
    BY <1>1, WordsOfJoining
  <2> QED BY <1>3, <2>2, <2>3, Concatenations, LastConcatenations DEF LoadWords
<1>5. f[2] = <<10, 4, 10, 3>>
  <2>1. 2 \in 1 .. 6 /\ 2 - 1 = 1
    OBVIOUS
  <2>2. f[2] = f[1] \o Words(p, p[2])
    BY <1>3, <2>1
  <2>3. Words(p, p[2]) = <<10, 3>>
    BY <1>1, WordsOfJoining
  <2> QED BY <1>4, <2>2, <2>3, Concatenations, LastConcatenations DEF LoadWords
<1>6. f[3] = <<10, 4, 10, 3, 11, 2>>
  <2>1. 3 \in 1 .. 6 /\ 3 - 1 = 2
    OBVIOUS
  <2>2. f[3] = f[2] \o Words(p, p[3])
    BY <1>3, <2>1
  <2>3. Words(p, p[3]) = <<11, 2>>
    BY <1>1, WordsOfJoining
  <2> QED BY <1>5, <2>2, <2>3, Concatenations, LastConcatenations DEF LoadWords
<1>7. f[4] = <<10, 4, 10, 3, 11, 2, 11, 1>>
  <2>1. 4 \in 1 .. 6 /\ 4 - 1 = 3
    OBVIOUS
  <2>2. f[4] = f[3] \o Words(p, p[4])
    BY <1>3, <2>1
  <2>3. Words(p, p[4]) = <<11, 1>>
    BY <1>1, WordsOfJoining
  <2> QED BY <1>6, <2>2, <2>3, Concatenations, LastConcatenations DEF LoadWords
<1>8. f[5] = <<10, 4, 10, 3, 11, 2, 11, 1, 43, 1, 2, 2>>
  <2>1. 5 \in 1 .. 6 /\ 5 - 1 = 4
    OBVIOUS
  <2>2. f[5] = f[4] \o Words(p, p[5])
    BY <1>3, <2>1
  <2>3. Words(p, p[5]) = <<43, 1, 2, 2>>
    BY <1>1, WordsOfJoining
  <2> QED BY <1>7, <2>2, <2>3, Concatenations, LastConcatenations DEF LoadWords
<1>9. f[6] = <<10, 4, 10, 3, 11, 2, 11, 1, 43, 1, 2, 2, 21, 5>>
  <2>1. 6 \in 1 .. 6 /\ 6 - 1 = 5
    OBVIOUS
  <2>2. f[6] = f[5] \o Words(p, p[6])
    BY <1>3, <2>1
  <2>3. Words(p, p[6]) = <<21, 5>>
    BY <1>1, WordsOfJoining
  <2> QED BY <1>8, <2>2, <2>3, Concatenations, LastConcatenations DEF LoadWords
<1>10. SameLabelsCode = f[6]
  BY <1>1, <1>2 DEF IsAssembly, SameLabelsCode, Joining, p
<1> QED BY <1>9, <1>10

-----------------------------------------------------------------------------
(***************************************************************************)
(* One call, instruction by instruction.                                   *)
(***************************************************************************)
Holding(stack) == [stack |-> stack, registry |-> NewStack(1).registry]
Only(code, pc, stack) == <<Frame(code, pc, Holding(stack), 0, << >>)>>

LEMMA OneCall ==
    ASSUME NEW code, NEW pc, NEW stack, frames = Only(code, pc, stack)
    PROVE  /\ ~ Idle /\ Len(frames) = 1 /\ frames[1].code = code
           /\ Current.code = code /\ Current.pc = pc /\ M = Holding(stack)
           /\ Current.items = << >> /\ Current.outputs = 0
           /\ Finished <=> pc > Len(code)
           /\ \A n : /\ Word(n) = code[pc + n] /\ Arg(n) = code[pc + n]
                    /\ Pos(n) = code[pc + n] % USIZE
           /\ \A mnemonic, s : Replace(Advanced(mnemonic, Holding(s)))
                                  = Only(code, pc + 1 + Arity(mnemonic), s)
<1>1. frames = <<Frame(code, pc, Holding(stack), 0, << >>)>>
  BY DEF Only
<1> DEFINE f == Frame(code, pc, Holding(stack), 0, << >>)
<1>2. /\ f.code = code /\ f.pc = pc /\ f.m = Holding(stack) /\ f.items = << >> /\ f.outputs = 0
      /\ \A a, m : [f EXCEPT !.pc = @ + 1 + a, !.m = m] = Frame(code, pc + 1 + a, m, 0, << >>)
  <2>1. /\ f.code = code /\ f.pc = pc /\ f.m = Holding(stack)
        /\ f.items = << >> /\ f.outputs = 0
    BY DEF Frame
  <2>2. ASSUME NEW a, NEW m
        PROVE  [f EXCEPT !.pc = @ + 1 + a, !.m = m] = Frame(code, pc + 1 + a, m, 0, << >>)
    <3> DEFINE next == [f EXCEPT !.pc = @ + 1 + a, !.m = m]
    <3>1. f \in [code : {code}, pc : {pc}, m : {Holding(stack)}, outputs : {0}, items : {<< >>}]
      BY DEF Frame
    <3> HIDE DEF f
    <3>2. next \in [code : {code}, pc : {pc + 1 + a}, m : {m}, outputs : {0}, items : {<< >>}]
      BY <2>1, <3>1
    <3> HIDE DEF next
    <3>3. next = Frame(code, pc + 1 + a, m, 0, << >>)
      BY <3>2 DEF Frame
    <3> QED BY <3>3 DEF next
  <2> QED BY <2>1, <2>2
<1>3. frames = <<f>>
  BY <1>1
<1> HIDE DEF f
<1>4. Len(frames) = 1 /\ frames[1] = f /\ ~ Idle
  BY <1>3 DEF Idle
<1>5. Current = f
  BY <1>4 DEF Current
<1>6. \A g : Replace(g) = <<g>>
  BY <1>3, <1>4 DEF Replace
<1>7. ASSUME NEW mnemonic, NEW s
      PROVE  Advanced(mnemonic, Holding(s))
                = Frame(code, pc + 1 + Arity(mnemonic), Holding(s), 0, << >>)
  BY <1>2, <1>5 DEF Advanced
<1>8. \A mnemonic, s : Replace(Advanced(mnemonic, Holding(s)))
                          = Only(code, pc + 1 + Arity(mnemonic), s)
  BY <1>6, <1>7 DEF Only
<1>9. /\ Current.code = code /\ Current.pc = pc /\ M = Holding(stack)
      /\ Current.items = << >> /\ Current.outputs = 0 /\ frames[1].code = code
  BY <1>2, <1>4, <1>5 DEF M
<1>10. Finished <=> pc > Len(code)
  BY <1>9 DEF Finished
<1>11. \A n : Word(n) = code[pc + n] /\ Arg(n) = code[pc + n] /\ Pos(n) = code[pc + n] % USIZE
  BY <1>9 DEF Word, Arg, Pos
<1> QED BY <1>4, <1>8, <1>9, <1>10, <1>11

\* The instruction at pc, with its arguments in the code.
LEMMA NextInstruction ==
    ASSUME NEW code, NEW pc \in Nat, NEW stack, frames = Only(code, pc, stack), NEW x \in Mnemonics,
           Len(code) \in Nat, pc + Arity(x) <= Len(code), code[pc] = Opcode[x], Step
    PROVE  Does(x)
<1>1. Arity(x) \in Nat
  BY ArityType
<1>2. Current.code = code /\ Current.pc = pc /\ ~ Idle /\ ~ Finished /\ Word(0) = code[pc]
  <2>1. pc + 0 = pc /\ ~ (pc > Len(code))
    BY <1>1
  <2> QED BY <2>1, OneCall
<1>3. Fetch(x)
  BY <1>2 DEF Fetch
<1> QED BY <1>2, <1>3, StepDoes

\* The machine that holds a stack.
LEMMA HoldingStack ==
    ASSUME NEW s
    PROVE  /\ Depth(Holding(s)) = Len(s)
           /\ \A v : Push(Holding(s), v) = Holding(Append(s, v))
           /\ Top(Holding(s)) = s[Len(s)]
           /\ \A pos : At(Holding(s), pos) = s[Len(s) - pos]
           /\ \A n : Drop(Holding(s), n) = Holding(SubSeq(s, 1, Len(s) - n))
           /\ \A v : SetTop(Holding(s), v) = Holding([s EXCEPT ![Len(s)] = v])
<1>1. Holding(s).stack = s /\ Depth(Holding(s)) = Len(s)
  BY DEF Holding, Depth
<1>2. \A v : Push(Holding(s), v) = Holding(Append(s, v))
  BY DEF Holding, Push
<1>3. \A n : Drop(Holding(s), n) = Holding(SubSeq(s, 1, Len(s) - n))
  <2>1. ASSUME NEW n PROVE Drop(Holding(s), n) = Holding(SubSeq(s, 1, Len(s) - n))
    <3> DEFINE d == SubSeq(s, 1, Depth(Holding(s)) - n)
    <3>1. d = SubSeq(s, 1, Len(s) - n)
      BY <1>1
    <3>2. Drop(Holding(s), n) = [Holding(s) EXCEPT !.stack = d]
      BY <1>1 DEF Drop
    <3> HIDE DEF d
    <3>3. [Holding(s) EXCEPT !.stack = d] = Holding(d)
      BY DEF Holding
    <3> QED BY <3>1, <3>2, <3>3
  <2> QED BY <2>1
<1>4. \A v : SetTop(Holding(s), v) = Holding([s EXCEPT ![Len(s)] = v])
  BY <1>1 DEF Holding, SetTop
<1> QED BY <1>1, <1>2, <1>3, <1>4 DEF Top, At

\* An instruction that leaves one machine.
LEMMA InstructionLeaves ==
    ASSUME NEW code, NEW pc \in Nat, NEW stack, frames = Only(code, pc, stack),
           NEW mnemonic, NEW s, Instruction(mnemonic, {Holding(s)})
    PROVE  /\ frames' = Only(code, pc + 1 + Arity(mnemonic), s)
           /\ UNCHANGED <<owner, vectors, committed, tx>>
<1>1. {Holding(s)} # {}
  OBVIOUS
<1>2. /\ frames' = Replace(Advanced(mnemonic, Holding(s)))
      /\ UNCHANGED <<owner, vectors, committed, tx>>
  BY <1>1 DEF Instruction
<1>3. Replace(Advanced(mnemonic, Holding(s))) = Only(code, pc + 1 + Arity(mnemonic), s)
  BY OneCall
<1> QED BY <1>2, <1>3

LEMMA Arities ==
    /\ Arity("LDL") = 1 /\ Arity("LDV") = 1 /\ Arity("STL") = 1 /\ Arity("STV") = 1
    /\ Arity("LUNION") = 1 /\ Arity("JFLT") = 2 /\ Arity("JUPD") = 3 /\ Arity("JADD") = 3
BY DEF Arity

LEMMA Opcodes ==
    /\ Opcode["LDL"] = 10 /\ Opcode["LDV"] = 11 /\ Opcode["STL"] = 20 /\ Opcode["STV"] = 21
    /\ Opcode["LUNION"] = 40 /\ Opcode["JUPD"] = 43 /\ Opcode["JADD"] = 44 /\ Opcode["JFLT"] = 45
BY DEF Opcode

\* A load pushes what is stored.
LEMMA LoadLabelsStep ==
    ASSUME NEW code, NEW pc \in Nat, NEW stack, frames = Only(code, pc, stack), Step,
           Len(code) \in Nat, pc + 1 <= Len(code), code[pc] = 10, Loadable(code[pc + 1])
    PROVE  /\ frames' = Only(code, pc + 2, Append(stack, Labels(vectors[code[pc + 1]])))
           /\ UNCHANGED <<owner, vectors, committed, tx>>
<1> DEFINE s == Append(stack, Labels(vectors[code[pc + 1]]))
<1>1. LDL
  BY Arities, Opcodes, AreMnemonics, NextInstruction DEF Does
<1>2. M = Holding(stack) /\ Arg(1) = code[pc + 1]
  BY OneCall
<1>3. Load(Arg(1), Labels) = {Holding(s)}
  BY <1>2, HoldingStack DEF Load, When
<1> HIDE DEF s
<1>4. Instruction("LDL", {Holding(s)})
  BY <1>1, <1>3 DEF LDL
<1>5. pc + 1 + Arity("LDL") = pc + 2
  BY Arities
<1>6. frames' = Only(code, pc + 2, s) /\ UNCHANGED <<owner, vectors, committed, tx>>
  BY <1>4, <1>5, InstructionLeaves
<1> QED BY <1>6 DEF s

LEMMA LoadVectorStep ==
    ASSUME NEW code, NEW pc \in Nat, NEW stack, frames = Only(code, pc, stack), Step,
           Len(code) \in Nat, pc + 1 <= Len(code), code[pc] = 11, Loadable(code[pc + 1])
    PROVE  /\ frames' = Only(code, pc + 2, Append(stack, Vector(vectors[code[pc + 1]])))
           /\ UNCHANGED <<owner, vectors, committed, tx>>
<1> DEFINE s == Append(stack, Vector(vectors[code[pc + 1]]))
<1>1. LDV
  BY Arities, Opcodes, AreMnemonics, NextInstruction DEF Does
<1>2. M = Holding(stack) /\ Arg(1) = code[pc + 1]
  BY OneCall
<1>3. Load(Arg(1), Vector) = {Holding(s)}
  BY <1>2, HoldingStack DEF Load, When
<1> HIDE DEF s
<1>4. Instruction("LDV", {Holding(s)})
  BY <1>1, <1>3 DEF LDV
<1>5. pc + 1 + Arity("LDV") = pc + 2
  BY Arities
<1>6. frames' = Only(code, pc + 2, s) /\ UNCHANGED <<owner, vectors, committed, tx>>
  BY <1>4, <1>5, InstructionLeaves
<1> QED BY <1>6 DEF s

\* A store of the right kind writes the top of the stack.
LEMMA StoreVectorStep ==
    ASSUME NEW code, NEW pc \in Nat, NEW stack, frames = Only(code, pc, stack), Step,
           Len(code) \in Nat, pc + 1 <= Len(code), code[pc] = 21,
           Len(stack) > 0, stack[Len(stack)].kind = "Vector"
    PROVE  /\ frames' = Only(code, pc + 2, SubSeq(stack, 1, Len(stack) - 1))
           /\ vectors' = Put(vectors, code[pc + 1], stack[Len(stack)].data)
           /\ UNCHANGED <<owner, committed, tx>>
<1>1. STV
  BY Arities, Opcodes, AreMnemonics, NextInstruction DEF Does
<1>2. M = Holding(stack) /\ Arg(1) = code[pc + 1]
  BY OneCall
<1>3. Depth(M) > 0 /\ Top(M) = stack[Len(stack)]
  BY <1>2, HoldingStack
<1>4. /\ vectors' = Put(vectors, code[pc + 1], stack[Len(stack)].data)
      /\ frames' = Replace(Advanced("STV", Drop(M, 1)))
      /\ UNCHANGED <<owner, committed, tx>>
  BY <1>1, <1>2, <1>3 DEF STV, Store
<1>5. Drop(M, 1) = Holding(SubSeq(stack, 1, Len(stack) - 1))
  BY <1>2, HoldingStack
<1>6. pc + 1 + Arity("STV") = pc + 2
  BY Arities
<1>7. frames' = Only(code, pc + 2, SubSeq(stack, 1, Len(stack) - 1))
  BY <1>4, <1>5, <1>6, OneCall
<1> QED BY <1>4, <1>7

LEMMA StoreLabelsStep ==
    ASSUME NEW code, NEW pc \in Nat, NEW stack, frames = Only(code, pc, stack), Step,
           Len(code) \in Nat, pc + 1 <= Len(code), code[pc] = 20,
           Len(stack) > 0, stack[Len(stack)].kind = "Labels"
    PROVE  /\ frames' = Only(code, pc + 2, SubSeq(stack, 1, Len(stack) - 1))
           /\ vectors' = Put(vectors, code[pc + 1], stack[Len(stack)].data)
           /\ UNCHANGED <<owner, committed, tx>>
<1>1. STL
  BY Arities, Opcodes, AreMnemonics, NextInstruction DEF Does
<1>2. M = Holding(stack) /\ Arg(1) = code[pc + 1]
  BY OneCall
<1>3. Depth(M) > 0 /\ Top(M) = stack[Len(stack)]
  BY <1>2, HoldingStack
<1>4. /\ vectors' = Put(vectors, code[pc + 1], stack[Len(stack)].data)
      /\ frames' = Replace(Advanced("STL", Drop(M, 1)))
      /\ UNCHANGED <<owner, committed, tx>>
  BY <1>1, <1>2, <1>3 DEF STL, Store
<1>5. Drop(M, 1) = Holding(SubSeq(stack, 1, Len(stack) - 1))
  BY <1>2, HoldingStack
<1>6. pc + 1 + Arity("STL") = pc + 2
  BY Arities
<1>7. frames' = Only(code, pc + 2, SubSeq(stack, 1, Len(stack) - 1))
  BY <1>4, <1>5, <1>6, OneCall
<1> QED BY <1>4, <1>7

\* Behind its last word the program commits.
LEMMA EndStep ==
    ASSUME NEW code, NEW pc \in Nat, NEW stack, frames = Only(code, pc, stack), Step,
           pc > Len(code)
    PROVE  Commit
<1>1. Finished /\ Len(frames) = 1 /\ Current.items = << >>
  BY OneCall
<1>2. \A mnemonic, outcomes : ~ Instruction(mnemonic, outcomes)
  BY <1>1 DEF Instruction, Fetch
<1>3. ~ LoadsAndStores
  BY <1>1, <1>2 DEF LoadsAndStores, LDL, LDV, STL, STV, LDD, LDR, LDM, STR, POPN, SWAP, Store, Fetch
<1>4. ~ Structures
  BY <1>2 DEF Structures, PKV, PKL, UNPK, T, VPUSH, VPOP, LPUSH, LPOP
<1>5. ~ JoinsOfLabels
  BY <1>2 DEF JoinsOfLabels, LUNION, JUPD, JADD, JFLT
<1>6. ~ Arithmetic
  BY <1>2 DEF Arithmetic, ADD, SUB, SSB, MUL, DIV, SQRT, MIN, MAXOP
<1>7. ~ Aggregates /\ ~ Immediates
  BY <1>2 DEF Aggregates, VSUM, VMIN, VMAX, Immediates, IMMS, IMML, ZEROS, ONES
<1>8. ControlFlow
  BY <1>3, <1>4, <1>5, <1>6, <1>7 DEF Step
<1>9. ~ B /\ ~ FOLD /\ ~ FoldNext /\ ~ Malfunction
  BY <1>1 DEF B, FOLD, FoldNext, Malfunction, Fetch
<1>10. ~ Return
  <2>1. ~ (Len(frames) > 1)
    BY <1>1
  <2> QED BY <2>1 DEF Return
<1> QED BY <1>8, <1>9, <1>10 DEF ControlFlow, End

\* The four operands of a join, v on top.
Stacked(b, a, y, v) == <<Labels(b), Labels(a), Vector(y), v>>

LEMMA StackedOperands ==
    ASSUME NEW b, NEW a, NEW y, NEW v
    PROVE  /\ Len(Stacked(b, a, y, v)) = 4 /\ Depth(Holding(Stacked(b, a, y, v))) = 4
           /\ Top(Holding(Stacked(b, a, y, v))) = v
           /\ At(Holding(Stacked(b, a, y, v)), 1) = Vector(y)
           /\ At(Holding(Stacked(b, a, y, v)), 2) = Labels(a)
           /\ At(Holding(Stacked(b, a, y, v)), 3) = Labels(b)
           /\ \A u : SetTop(Holding(Stacked(b, a, y, v)), u) = Holding(Stacked(b, a, y, u))
           /\ SubSeq(Stacked(b, a, y, v), 1, 3) = <<Labels(b), Labels(a), Vector(y)>>
<1> DEFINE s == Stacked(b, a, y, v)
<1>1. /\ Len(s) = 4 /\ s[4] = v /\ s[3] = Vector(y) /\ s[2] = Labels(a) /\ s[1] = Labels(b)
      /\ \A u : [s EXCEPT ![4] = u] = Stacked(b, a, y, u)
  BY DEF Stacked
<1>2. SubSeq(s, 1, 3) = <<Labels(b), Labels(a), Vector(y)>>
  BY TupleFront DEF Stacked
<1> HIDE DEF s
<1>3. Depth(Holding(s)) = 4 /\ Top(Holding(s)) = v
  BY <1>1, HoldingStack
<1>4. /\ At(Holding(s), 1) = Vector(y) /\ At(Holding(s), 2) = Labels(a)
      /\ At(Holding(s), 3) = Labels(b)
  <2>1. Len(s) - 1 = 3 /\ Len(s) - 2 = 2 /\ Len(s) - 3 = 1
    BY <1>1
  <2>2. \A pos : At(Holding(s), pos) = s[Len(s) - pos]
    BY HoldingStack
  <2> QED BY <1>1, <2>1, <2>2
<1>5. \A u : SetTop(Holding(s), u) = Holding(Stacked(b, a, y, u))
  <2>1. \A u : SetTop(Holding(s), u) = Holding([s EXCEPT ![Len(s)] = u])
    BY HoldingStack
  <2> QED BY <1>1, <2>1
<1> QED BY <1>1, <1>2, <1>3, <1>4, <1>5 DEF s

LEMMA OperandFields ==
    \A d : /\ Vector(d).kind = "Vector" /\ Vector(d).data = d
           /\ Labels(d).kind = "Labels" /\ Labels(d).data = d
BY DEF Vector, Labels

LEMMA SmallPositions == 1 % USIZE = 1 /\ 2 % USIZE = 2 /\ 3 % USIZE = 3
<1>1. USIZE \in Nat /\ USIZE > 3
  BY LawsAssumption, DevilAssumption
<1> QED BY <1>1

\* The filter runs on the labels A and the vector on top, or fails.
LEMMA FilterRuns ==
    ASSUME NEW a, NEW b, NEW x, NEW y, Len(x) = Len(a), Step,
           Filtered(a, b, x).ok \in BOOLEAN,
           frames = Only(FilterCode, 9, Stacked(b, a, y, Vector(x)))
    PROVE  /\ Filtered(a, b, x).ok =>
                 /\ frames' = Only(FilterCode, 12, Stacked(b, a, y, Vector(Filtered(a, b, x).data)))
                 /\ UNCHANGED <<owner, vectors, committed, tx>>
           /\ ~ Filtered(a, b, x).ok => Revert
<1> DEFINE s    == Stacked(b, a, y, Vector(x))
           kept == Filtered(a, b, x)
           left == Stacked(b, a, y, Vector(kept.data))
<1>1. Len(FilterCode) = 13 /\ FilterCode[9] = 45 /\ FilterCode[10] = 2 /\ FilterCode[11] = 3
  BY FilterWords
<1>2. JFLT
  <2>0. 9 \in Nat /\ Len(FilterCode) \in Nat
    BY <1>1
  <2>1. /\ "JFLT" \in Mnemonics /\ 9 + Arity("JFLT") <= Len(FilterCode)
        /\ FilterCode[9] = Opcode["JFLT"]
    BY <1>1, Arities, Opcodes, AreMnemonics
  <2>2. Does("JFLT")
    BY <2>0, <2>1, NextInstruction
  <2> QED BY <2>2 DEF Does
<1>3. M = Holding(s) /\ Pos(1) = 2 /\ Pos(2) = 3
  BY <1>1, OneCall, SmallPositions
<1>4. /\ Top(M) = Vector(x) /\ At(M, 2) = Labels(a) /\ At(M, 3) = Labels(b) /\ Depth(M) = 4
      /\ \A u : SetTop(M, u) = Holding(Stacked(b, a, y, u))
  BY <1>3, StackedOperands
<1> HIDE DEF s, kept, left
<1>5. Jflt(M, 2, 3) = When(kept.ok, Holding(left))
  <2>1. /\ Top(M).kind = "Vector" /\ Top(M).data = x
        /\ At(M, 2).kind = "Labels" /\ At(M, 2).data = a
        /\ At(M, 3).kind = "Labels" /\ At(M, 3).data = b
        /\ Reaches(M, 2) /\ Reaches(M, 3)
    BY <1>4, OperandFields DEF Reaches
  <2>2. SetTop(M, Vector(kept.data)) = Holding(left)
    BY <1>4 DEF left
  <2>3. Filtered(At(M, 2).data, At(M, 3).data, Top(M).data) = kept
    BY <2>1 DEF kept
  <2>4. Jflt(M, 2, 3) = IF kept.ok THEN {SetTop(M, Vector(kept.data))} ELSE {}
    BY <2>1, <2>3 DEF Jflt, When
  <2> QED BY <2>2, <2>4 DEF When
<1>6. Instruction("JFLT", When(kept.ok, Holding(left)))
  BY <1>2, <1>3, <1>5 DEF JFLT
<1>7. CASE kept.ok
  <2>1. Instruction("JFLT", {Holding(left)})
    BY <1>6, <1>7 DEF When
  <2>2. 9 + 1 + Arity("JFLT") = 12
    BY Arities
  <2> QED BY <1>7, <2>1, <2>2, InstructionLeaves DEF kept, left
<1>8. CASE ~ kept.ok
  <2>1. Instruction("JFLT", {})
    BY <1>6, <1>8 DEF When
  <2>2. Revert
    BY <2>1 DEF Instruction
  <2> QED BY <1>8, <2>2 DEF kept
<1> QED BY <1>7, <1>8 DEF kept

\* JUPD and JADD run on the labels and the vectors, or fail.
LEMMA UpdateRuns ==
    ASSUME NEW a, NEW b, NEW x, NEW y, Len(x) = Len(a), Len(y) = Len(b), Step,
           frames = Only(UpdateCode, 9, Stacked(b, a, y, Vector(x))),
           NEW joined, joined = Join(a, b, x, y, SecondOf), joined.ok \in BOOLEAN
    PROVE  /\ joined.ok /\ AllRepresentable(joined.data) =>
                 /\ frames' = Only(UpdateCode, 13, Stacked(b, a, y, Vector(joined.data)))
                 /\ UNCHANGED <<owner, vectors, committed, tx>>
           /\ ~ (joined.ok /\ AllRepresentable(joined.data)) => Revert
<1> DEFINE s    == Stacked(b, a, y, Vector(x))
           left == Stacked(b, a, y, Vector(joined.data))
           works == joined.ok /\ AllRepresentable(joined.data)
<1>1. /\ Len(UpdateCode) = 14 /\ UpdateCode[9] = 43
      /\ UpdateCode[10] = 1 /\ UpdateCode[11] = 2 /\ UpdateCode[12] = 3
  BY UpdateWords
<1>2. JUPD
  <2>0. 9 \in Nat /\ Len(UpdateCode) \in Nat
    BY <1>1
  <2>1. /\ "JUPD" \in Mnemonics /\ 9 + Arity("JUPD") <= Len(UpdateCode)
        /\ UpdateCode[9] = Opcode["JUPD"]
    BY <1>1, Arities, Opcodes, AreMnemonics
  <2>2. Does("JUPD")
    BY <2>0, <2>1, NextInstruction
  <2> QED BY <2>2 DEF Does
<1>3. M = Holding(s) /\ Pos(1) = 1 /\ Pos(2) = 2 /\ Pos(3) = 3
  BY <1>1, OneCall, SmallPositions
<1>4. /\ Top(M) = Vector(x) /\ At(M, 1) = Vector(y) /\ At(M, 2) = Labels(a) /\ At(M, 3) = Labels(b)
      /\ Depth(M) = 4 /\ \A u : SetTop(M, u) = Holding(Stacked(b, a, y, u))
  BY <1>3, StackedOperands
<1> HIDE DEF s, left, works
<1>5. Jupd(M, 1, 2, 3) = When(works, Holding(left))
  <2>1. /\ Top(M).kind = "Vector" /\ Top(M).data = x
        /\ At(M, 1).kind = "Vector" /\ At(M, 1).data = y
        /\ At(M, 2).kind = "Labels" /\ At(M, 2).data = a
        /\ At(M, 3).kind = "Labels" /\ At(M, 3).data = b
        /\ Below(M, 1) /\ Reaches(M, 2) /\ Reaches(M, 3)
    BY <1>4, OperandFields DEF Below, Reaches
  <2>2. SetTop(M, Vector(joined.data)) = Holding(left)
    BY <1>4 DEF left
  <2>3. Join(At(M, 2).data, At(M, 3).data, Top(M).data, At(M, 1).data, SecondOf) = joined
    BY <2>1
  <2> DEFINE made == Join(At(M, 2).data, At(M, 3).data, Top(M).data, At(M, 1).data, SecondOf)
  <2>4. Jupd(M, 1, 2, 3) =
          IF /\ 2 >= 2 /\ 3 >= 2
             /\ Below(M, 1) /\ Reaches(M, 2) /\ Reaches(M, 3)
             /\ Top(M).kind = "Vector" /\ At(M, 1).kind = "Vector"
             /\ At(M, 2).kind = "Labels" /\ At(M, 3).kind = "Labels"
             /\ Len(Top(M).data) = Len(At(M, 2).data)
             /\ Len(At(M, 1).data) = Len(At(M, 3).data)
             /\ made.ok /\ AllRepresentable(made.data)
          THEN {SetTop(M, Vector(made.data))} ELSE {}
    BY DEF Jupd, JoinTop, When
  <2>5. made = joined
    BY <2>3
  <2> HIDE DEF made
  <2>6. Jupd(M, 1, 2, 3) = IF works THEN {SetTop(M, Vector(joined.data))} ELSE {}
    BY <2>1, <2>4, <2>5 DEF works
  <2> QED BY <2>2, <2>6 DEF When
<1>6. Instruction("JUPD", When(works, Holding(left)))
  BY <1>2, <1>3, <1>5 DEF JUPD
<1>7. CASE works
  <2>1. Instruction("JUPD", {Holding(left)})
    BY <1>6, <1>7 DEF When
  <2>2. 9 + 1 + Arity("JUPD") = 13
    BY Arities
  <2> QED BY <1>7, <2>1, <2>2, InstructionLeaves DEF works, left
<1>8. CASE ~ works
  <2>1. Instruction("JUPD", {})
    BY <1>6, <1>8 DEF When
  <2>2. Revert
    BY <2>1 DEF Instruction
  <2> QED BY <1>8, <2>2 DEF works
<1> QED BY <1>7, <1>8 DEF works

\* The same for JADD.
LEMMA AddRuns ==
    ASSUME NEW a, NEW b, NEW x, NEW y, Len(x) = Len(a), Len(y) = Len(b), Step,
           frames = Only(AddCode, 9, Stacked(b, a, y, Vector(x))),
           NEW joined, joined = Join(a, b, x, y, Plus), joined.ok \in BOOLEAN
    PROVE  /\ joined.ok /\ AllRepresentable(joined.data) =>
                 /\ frames' = Only(AddCode, 13, Stacked(b, a, y, Vector(joined.data)))
                 /\ UNCHANGED <<owner, vectors, committed, tx>>
           /\ ~ (joined.ok /\ AllRepresentable(joined.data)) => Revert
<1> DEFINE s    == Stacked(b, a, y, Vector(x))
           left == Stacked(b, a, y, Vector(joined.data))
           works == joined.ok /\ AllRepresentable(joined.data)
<1>1. /\ Len(AddCode) = 14 /\ AddCode[9] = 44
      /\ AddCode[10] = 1 /\ AddCode[11] = 2 /\ AddCode[12] = 3
  BY AddWords
<1>2. JADD
  <2>0. 9 \in Nat /\ Len(AddCode) \in Nat
    BY <1>1
  <2>1. "JADD" \in Mnemonics /\ 9 + Arity("JADD") <= Len(AddCode) /\ AddCode[9] = Opcode["JADD"]
    BY <1>1, Arities, Opcodes, AreMnemonics
  <2>2. Does("JADD")
    BY <2>0, <2>1, NextInstruction
  <2> QED BY <2>2 DEF Does
<1>3. M = Holding(s) /\ Pos(1) = 1 /\ Pos(2) = 2 /\ Pos(3) = 3
  BY <1>1, OneCall, SmallPositions
<1>4. /\ Top(M) = Vector(x) /\ At(M, 1) = Vector(y) /\ At(M, 2) = Labels(a) /\ At(M, 3) = Labels(b)
      /\ Depth(M) = 4 /\ \A u : SetTop(M, u) = Holding(Stacked(b, a, y, u))
  BY <1>3, StackedOperands
<1> HIDE DEF s, left, works
<1>5. Jadd(M, 1, 2, 3) = When(works, Holding(left))
  <2>1. /\ Top(M).kind = "Vector" /\ Top(M).data = x
        /\ At(M, 1).kind = "Vector" /\ At(M, 1).data = y
        /\ At(M, 2).kind = "Labels" /\ At(M, 2).data = a
        /\ At(M, 3).kind = "Labels" /\ At(M, 3).data = b
        /\ Below(M, 1) /\ Reaches(M, 2) /\ Reaches(M, 3)
    BY <1>4, OperandFields DEF Below, Reaches
  <2>2. SetTop(M, Vector(joined.data)) = Holding(left)
    BY <1>4 DEF left
  <2>3. Join(At(M, 2).data, At(M, 3).data, Top(M).data, At(M, 1).data, Plus) = joined
    BY <2>1
  <2> DEFINE made == Join(At(M, 2).data, At(M, 3).data, Top(M).data, At(M, 1).data, Plus)
  <2>4. Jadd(M, 1, 2, 3) =
          IF /\ 2 >= 2 /\ 3 >= 2
             /\ Below(M, 1) /\ Reaches(M, 2) /\ Reaches(M, 3)
             /\ Top(M).kind = "Vector" /\ At(M, 1).kind = "Vector"
             /\ At(M, 2).kind = "Labels" /\ At(M, 3).kind = "Labels"
             /\ Len(Top(M).data) = Len(At(M, 2).data)
             /\ Len(At(M, 1).data) = Len(At(M, 3).data)
             /\ made.ok /\ AllRepresentable(made.data)
          THEN {SetTop(M, Vector(made.data))} ELSE {}
    BY DEF Jadd, JoinTop, When
  <2>5. made = joined
    BY <2>3
  <2> HIDE DEF made
  <2>6. Jadd(M, 1, 2, 3) = IF works THEN {SetTop(M, Vector(joined.data))} ELSE {}
    BY <2>1, <2>4, <2>5 DEF works
  <2> QED BY <2>2, <2>6 DEF When
<1>6. Instruction("JADD", When(works, Holding(left)))
  BY <1>2, <1>3, <1>5 DEF JADD
<1>7. CASE works
  <2>1. Instruction("JADD", {Holding(left)})
    BY <1>6, <1>7 DEF When
  <2>2. 9 + 1 + Arity("JADD") = 13
    BY Arities
  <2> QED BY <1>7, <2>1, <2>2, InstructionLeaves DEF works, left
<1>8. CASE ~ works
  <2>1. Instruction("JADD", {})
    BY <1>6, <1>8 DEF When
  <2>2. Revert
    BY <2>1 DEF Instruction
  <2> QED BY <1>8, <2>2 DEF works
<1> QED BY <1>7, <1>8 DEF works

\* The union runs on the labels on top and those below.
LEMMA UnionRuns ==
    ASSUME NEW a, NEW b, Step, frames = Only(UnionCode, 5, <<Labels(b), Labels(a)>>)
    PROVE  /\ frames' = Only(UnionCode, 7, <<Labels(b), Labels(United(a, b))>>)
           /\ UNCHANGED <<owner, vectors, committed, tx>>
<1> DEFINE s    == <<Labels(b), Labels(a)>>
           left == <<Labels(b), Labels(United(a, b))>>
<1>1. Len(UnionCode) = 8 /\ UnionCode[5] = 40 /\ UnionCode[6] = 1
  BY UnionWords
<1>2. LUNION
  <2>0. 5 \in Nat /\ Len(UnionCode) \in Nat
    BY <1>1
  <2>1. /\ "LUNION" \in Mnemonics /\ 5 + Arity("LUNION") <= Len(UnionCode)
        /\ UnionCode[5] = Opcode["LUNION"]
    BY <1>1, Arities, Opcodes, AreMnemonics
  <2>2. Does("LUNION")
    BY <2>0, <2>1, NextInstruction
  <2> QED BY <2>2 DEF Does
<1>3. M = Holding(s) /\ Pos(1) = 1
  BY <1>1, OneCall, SmallPositions
<1>4. /\ Len(s) = 2 /\ s[2] = Labels(a) /\ s[1] = Labels(b)
      /\ [s EXCEPT ![2] = Labels(United(a, b))] = left
  OBVIOUS
<1> HIDE DEF s, left
<1>5. /\ Top(M) = Labels(a) /\ At(M, 1) = Labels(b) /\ Depth(M) = 2
      /\ SetTop(M, Labels(United(a, b))) = Holding(left)
  <2>1. Len(s) - 1 = 1
    BY <1>4
  <2> QED BY <1>3, <1>4, <2>1, HoldingStack
<1>6. Lunion(M, 1) = {Holding(left)}
  <2>1. Below(M, 1)
    BY <1>5 DEF Below, Reaches
  <2> QED BY <1>5, <2>1, OperandFields DEF Lunion, When
<1>7. Instruction("LUNION", {Holding(left)})
  BY <1>2, <1>3, <1>6 DEF LUNION
<1>8. 5 + 1 + Arity("LUNION") = 7
  BY Arities
<1>9. frames' = Only(UnionCode, 7, left) /\ UNCHANGED <<owner, vectors, committed, tx>>
  BY <1>7, <1>8, InstructionLeaves DEF s
<1> QED BY <1>9 DEF left

-----------------------------------------------------------------------------
(***************************************************************************)
(* The operands of a join, and what DevilLaws says of them.                *)
(***************************************************************************)
\* A transaction of the user that joins two labellings.
JoinsLabellings ==
    /\ tx = [sender |-> User, outcome |-> "running"]
    /\ \E a \in Labellings, b \in Labellings :
          committed = Operands([i \in DOMAIN a |-> ValueA(a[i])],
                               [i \in DOMAIN b |-> ValueB(b[i])], a, b)

LEMMA WhatIsStored ==
    ASSUME JoinsLabellings
    PROVE  /\ {IdX, IdY, IdA, IdB} \subseteq DOMAIN committed
           /\ IsLabels(LabA) /\ LabA # << >> /\ IsLabels(LabB) /\ LabB # << >>
           /\ VecX \in Seq(Amounts) /\ Len(VecX) = Len(LabA) /\ DOMAIN VecX = 1 .. Len(LabA)
           /\ VecY \in Seq(Amounts) /\ Len(VecY) = Len(LabB) /\ DOMAIN VecY = 1 .. Len(LabB)
<1>1. PICK a \in Labellings, b \in Labellings :
          committed = Operands([i \in DOMAIN a |-> ValueA(a[i])],
                               [i \in DOMAIN b |-> ValueB(b[i])], a, b)
  BY DEF JoinsLabellings
<1> DEFINE x == [i \in DOMAIN a |-> ValueA(a[i])]
           y == [i \in DOMAIN b |-> ValueB(b[i])]
<1>2. /\ a \in Seq(Amounts) /\ a # << >> /\ Ascending(a)
      /\ b \in Seq(Amounts) /\ b # << >> /\ Ascending(b)
      /\ \A i \in DOMAIN a : ValueA(a[i]) \in Amounts
      /\ \A i \in DOMAIN b : ValueB(b[i]) \in Amounts
  BY LawsAssumption
<1>3. /\ DOMAIN a = 1 .. Len(a) /\ Len(a) \in Nat /\ DOMAIN b = 1 .. Len(b) /\ Len(b) \in Nat
  BY <1>2
<1>4. x \in [1 .. Len(a) -> Amounts] /\ y \in [1 .. Len(b) -> Amounts]
  BY <1>2, <1>3
<1> HIDE DEF x, y
<1>5. committed = Operands(x, y, a, b)
  BY <1>1 DEF x, y
<1>6. /\ x \in Seq(Amounts) /\ Len(x) = Len(a) /\ DOMAIN x = 1 .. Len(a)
      /\ y \in Seq(Amounts) /\ Len(y) = Len(b) /\ DOMAIN y = 1 .. Len(b)
  BY <1>3, <1>4, FunctionIsSeq
<1>7. /\ {IdX, IdY, IdA, IdB} \subseteq DOMAIN committed
      /\ committed[IdX] = x /\ committed[IdY] = y /\ committed[IdA] = a /\ committed[IdB] = b
  BY <1>5 DEF Operands, IdX, IdY, IdA, IdB
<1> QED BY <1>2, <1>6, <1>7 DEF VecX, VecY, LabA, LabB, IsLabels

\* All four can be loaded.
LEMMA OperandsLoad ==
    ASSUME JoinsLabellings, vectors = committed
    PROVE  /\ Loadable(1) /\ Loadable(2) /\ Loadable(3) /\ Loadable(4)
           /\ vectors[1] = VecX /\ vectors[2] = VecY /\ vectors[3] = LabA /\ vectors[4] = LabB
<1>1. \A s \in Seq(Amounts) : s # MALFORMED
  BY LawsAssumption
<1>2. LabA \in Seq(Amounts) /\ LabB \in Seq(Amounts)
  BY WhatIsStored DEF IsLabels
<1>3. VecX # << >> /\ VecY # << >>
  <2>1. Len(LabA) # 0 /\ Len(LabB) # 0
    BY <1>2, WhatIsStored
  <2> QED BY <2>1, WhatIsStored
<1>4. LabA # << >> /\ LabB # << >> /\ VecX \in Seq(Amounts) /\ VecY \in Seq(Amounts)
  BY WhatIsStored
<1>5. /\ vectors[1] = VecX /\ vectors[2] = VecY /\ vectors[3] = LabA /\ vectors[4] = LabB
  BY DEF VecX, VecY, LabA, LabB, IdX, IdY, IdA, IdB
<1>6. 1 \in DOMAIN vectors /\ 2 \in DOMAIN vectors /\ 3 \in DOMAIN vectors /\ 4 \in DOMAIN vectors
  BY WhatIsStored DEF IdX, IdY, IdA, IdB
<1> QED BY <1>1, <1>2, <1>3, <1>4, <1>5, <1>6 DEF Loadable, Stored

\* The labels of B, and those of A among them.
LEMMA InB ==
    ASSUME JoinsLabellings
    PROVE  \A i \in 1 .. Len(LabA) : LabA[i] \in SetB <=> Occurs(LabA[i], LabB)
<1>1. DOMAIN LabB = 1 .. Len(LabB)
  BY WhatIsStored DEF IsLabels
<1> QED BY <1>1 DEF SetB, ToSet, Occurs

LEMMA CoveredIs ==
    ASSUME JoinsLabellings
    PROVE  Covered <=> Covers(LabA, LabB)
<1>1. DOMAIN LabB = 1 .. Len(LabB) /\ DOMAIN LabA = 1 .. Len(LabA)
  BY WhatIsStored DEF IsLabels
<1>2. \A x : x \in SetA <=> \E i \in 1 .. Len(LabA) : LabA[i] = x
  BY <1>1 DEF SetA, ToSet
<1>3. \A x : x \in SetB <=> \E q \in 1 .. Len(LabB) : LabB[q] = x
  BY <1>1 DEF SetB, ToSet
<1>4. Last(LabA) = LabA[Len(LabA)]
  BY DEF Last
<1> QED BY <1>2, <1>3, <1>4 DEF Covered, Covers

\* The result of the filter is what FilterRestricts says.
Restricts(d) ==
    /\ Covered
    /\ Len(d) = Cardinality(Kept)
    /\ \A i \in Kept : d[RankOf(i)] = VecX[i]

LEMMA FilterGives ==
    ASSUME JoinsLabellings
    PROVE  /\ Filtered(LabA, LabB, VecX).ok \in BOOLEAN
           /\ Filtered(LabA, LabB, VecX).ok => Restricts(Filtered(LabA, LabB, VecX).data)
           /\ ~ Filtered(LabA, LabB, VecX).ok => ~ Covered
<1> DEFINE kept == Filtered(LabA, LabB, VecX)
           n    == Len(LabA)
<1>1. /\ kept.ok \in BOOLEAN /\ (kept.ok <=> Covers(LabA, LabB))
      /\ kept.ok => KeptUpTo(LabA, LabB, VecX, n, kept.data)
  BY WhatIsStored, FilteredCorrect
<1>2. DOMAIN LabA = 1 .. n /\ n \in Nat
  BY WhatIsStored DEF IsLabels
<1>3. Kept = Matching(LabA, LabB, n)
  BY <1>2, InB DEF Kept, Matching
<1>4. \A i \in Kept : RankOf(i) = Rank(LabA, LabB, i)
  <2>1. ASSUME NEW i \in Kept PROVE RankOf(i) = Rank(LabA, LabB, i)
    <3>1. i \in 1 .. n
      BY <1>3 DEF Matching
    <3>2. \A k : k \in 1 .. n /\ k <= i <=> k \in 1 .. i
      BY <1>2, <3>1
    <3>3. {k \in Kept : k <= i} = Matching(LabA, LabB, i)
      BY <1>3, <3>2 DEF Matching
    <3> QED BY <3>3 DEF RankOf, Rank
  <2> QED BY <2>1
<1> HIDE DEF kept
<1>5. kept.ok => Restricts(kept.data)
  BY <1>1, <1>3, <1>4, CoveredIs DEF KeptUpTo, Restricts, Rank
<1> QED BY <1>1, <1>5, CoveredIs DEF kept

\* A label of B occurs once, so its value is the one OfB finds.
LEMMA OfBIs ==
    ASSUME JoinsLabellings, NEW q \in 1 .. Len(LabB)
    PROVE  OfB(LabB[q]) = VecY[q]
<1>1. DOMAIN LabB = 1 .. Len(LabB) /\ \A i, k \in 1 .. Len(LabB) : i < k => LabB[i] < LabB[k]
  BY WhatIsStored, LabelsAscend
<1>2. \A i \in 1 .. Len(LabB) : LabB[i] \in Nat
  BY WhatIsStored, LabelsAscend
<1> DEFINE p == CHOOSE i \in DOMAIN LabB : LabB[i] = LabB[q]
<1>3. p \in 1 .. Len(LabB) /\ LabB[p] = LabB[q]
  BY <1>1
<1> HIDE DEF p
<1>4. p = q
  <2>1. ~ p < q /\ ~ q < p
    BY <1>1, <1>2, <1>3
  <2> QED BY <1>3, <2>1
<1> QED BY <1>4 DEF OfB, p

\* The results of the joins are what JoinsCombine says.
LEMMA JoinedData ==
    ASSUME JoinsLabellings, NEW joined \in JoinStates(LabB, Len(LabA)), NEW w,
           JoinCorrect(LabA, LabB, VecX, w, joined), joined.ok,
           w = [i \in DOMAIN LabA |-> w[i]],
           \A i \in 1 .. Len(LabA) : ~ Occurs(LabA[i], LabB) => w[i] = VecX[i]
    PROVE  joined.data = w
<1> DEFINE d == joined.data
<1>1. DOMAIN LabA = 1 .. Len(LabA) /\ Len(LabA) \in Nat
  BY WhatIsStored DEF IsLabels
<1>2. \A i \in 1 .. Len(LabA) : i <= Len(LabA)
  BY <1>1
<1>3. \A i \in 1 .. Len(LabA) : d[i] = w[i]
  BY <1>2 DEF JoinCorrect, JoinedUpTo
<1>4. d = [i \in 1 .. Len(LabA) |-> d[i]]
  BY DEF JoinStates
<1> HIDE DEF d
<1>5. d = w
  BY <1>1, <1>3, <1>4
<1> QED BY <1>5 DEF d

LEMMA UpdateGives ==
    ASSUME JoinsLabellings, NEW joined, joined = Join(LabA, LabB, VecX, VecY, SecondOf)
    PROVE  /\ joined.ok \in BOOLEAN
           /\ joined.ok => Covered /\ joined.data = Updated /\ AllRepresentable(joined.data)
           /\ ~ joined.ok => ~ Covered
<1>1. /\ DOMAIN LabA = 1 .. Len(LabA) /\ LabA \in Seq(Amounts) /\ LabB \in Seq(Amounts)
      /\ DOMAIN Updated = 1 .. Len(LabA)
  BY WhatIsStored DEF IsLabels, Updated
<1>2. /\ \A i \in 1 .. Len(LabA) : Occurs(LabA[i], LabB) => Updated[i] = OfB(LabA[i])
      /\ \A i \in 1 .. Len(LabA) : ~ Occurs(LabA[i], LabB) => Updated[i] = VecX[i]
  BY <1>1, InB DEF Updated
<1>3. Replaces(LabA, LabB, VecY, Updated)
  <2>1. ASSUME NEW i \in 1 .. Len(LabA), NEW q \in 1 .. Len(LabB), LabB[q] = LabA[i]
        PROVE  Updated[i] = VecY[q]
    <3>1. Occurs(LabA[i], LabB)
      BY <2>1 DEF Occurs
    <3> QED BY <1>2, <2>1, <3>1, OfBIs
  <2> QED BY <2>1 DEF Replaces
<1>4. JoinCorrect(LabA, LabB, VecX, Updated, joined)
  BY <1>3, WhatIsStored, JupdCorrect
<1>5. joined \in JoinStates(LabB, Len(LabA))
  BY <1>1, WhatIsStored, JoinedType
<1>6. Updated = [i \in DOMAIN LabA |-> Updated[i]]
  BY <1>1 DEF Updated
<1>7. joined.ok => joined.data = Updated
  BY <1>2, <1>4, <1>5, <1>6, JoinedData
<1>8. AllRepresentable(Updated)
  <2>1. ASSUME NEW i \in 1 .. Len(LabA) PROVE Updated[i] \in Amounts
    <3>1. CASE ~ Occurs(LabA[i], LabB)
      BY <1>2, <3>1, WhatIsStored, ElementOfSeq
    <3>2. CASE Occurs(LabA[i], LabB)
      <4>1. PICK q \in 1 .. Len(LabB) : LabB[q] = LabA[i]
        BY <3>2 DEF Occurs
      <4>2. Updated[i] = VecY[q]
        BY <1>3, <4>1 DEF Replaces
      <4> QED BY <4>2, WhatIsStored, ElementOfSeq
    <3> QED BY <3>1, <3>2
  <2> QED BY <1>1, <2>1 DEF AllRepresentable, Representable
<1> QED BY <1>4, <1>7, <1>8, CoveredIs DEF JoinCorrect

LEMMA AddGives ==
    ASSUME JoinsLabellings, NEW joined, joined = Join(LabA, LabB, VecX, VecY, Plus)
    PROVE  /\ joined.ok \in BOOLEAN
           /\ joined.ok => Covered /\ joined.data = Added
           /\ ~ joined.ok => ~ Covered
<1>1. /\ DOMAIN LabA = 1 .. Len(LabA) /\ LabA \in Seq(Amounts) /\ LabB \in Seq(Amounts)
      /\ DOMAIN Added = 1 .. Len(LabA)
  BY WhatIsStored DEF IsLabels, Added
<1>2. /\ \A i \in 1 .. Len(LabA) : Occurs(LabA[i], LabB) => Added[i] = VecX[i] + OfB(LabA[i])
      /\ \A i \in 1 .. Len(LabA) : ~ Occurs(LabA[i], LabB) => Added[i] = VecX[i] + 0
  BY <1>1, InB DEF Added
<1>3. \A i \in 1 .. Len(LabA) : VecX[i] + 0 = VecX[i]
  <2>1. \A i \in 1 .. Len(LabA) : VecX[i] \in Amounts
    BY WhatIsStored, ElementOfSeq
  <2> QED BY <2>1, AmountAssumption DEF Amounts
<1>4. Sums(LabA, LabB, VecX, VecY, Added)
  <2>1. ASSUME NEW i \in 1 .. Len(LabA), NEW q \in 1 .. Len(LabB), LabB[q] = LabA[i]
        PROVE  Added[i] = VecX[i] + VecY[q]
    <3>1. Occurs(LabA[i], LabB)
      BY <2>1 DEF Occurs
    <3> QED BY <1>2, <2>1, <3>1, OfBIs
  <2> QED BY <2>1 DEF Sums
<1>5. JoinCorrect(LabA, LabB, VecX, Added, joined)
  BY <1>4, WhatIsStored, JaddCorrect
<1>6. joined \in JoinStates(LabB, Len(LabA))
  BY <1>1, WhatIsStored, JoinedType
<1>7. Added = [i \in DOMAIN LabA |-> Added[i]]
  BY <1>1 DEF Added
<1>8. joined.ok => joined.data = Added
  BY <1>2, <1>3, <1>5, <1>6, <1>7, JoinedData
<1> QED BY <1>5, <1>8, CoveredIs DEF JoinCorrect

\* The result of the union is what UnionStaysOrdered says.
StaysOrdered(d) ==
    /\ Ascending(d)
    /\ ToSet(d) \subseteq SetA \cup SetB
    /\ \A b \in SetB : b <= Last(LabA) => b \in ToSet(d)
    /\ Cardinality(SetA \ ToSet(d)) <= 1

LEMMA UnionGives ==
    ASSUME JoinsLabellings
    PROVE  StaysOrdered(United(LabA, LabB))
<1>1. UnionCorrect(LabA, LabB, United(LabA, LabB))
  BY WhatIsStored, UnitedCorrect
<1>2. Last(LabA) = LabA[Len(LabA)]
  BY DEF Last
<1> QED BY <1>1, <1>2 DEF UnionCorrect, StaysOrdered, SetA, SetB

-----------------------------------------------------------------------------
(***************************************************************************)
(* The other programs.  Whatever they do, the outermost call keeps its     *)
(* code.                                                                   *)
(***************************************************************************)
IsCall(f) == f = Frame(f.code, f.pc, f.m, f.outputs, f.items)
Calls == frames # << >> /\ \E S : frames \in Seq(S) /\ \A f \in S : IsCall(f)
Keeps == frames' = << >> \/ (Calls' /\ frames'[1].code = frames[1].code)

LEMMA FrameIsCall ==
    ASSUME NEW c, NEW p, NEW m, NEW o, NEW i
    PROVE  /\ IsCall(Frame(c, p, m, o, i)) /\ Frame(c, p, m, o, i).code = c
           /\ \A n : IsCall([Frame(c, p, m, o, i) EXCEPT !.m = n])
           /\ \A n : [Frame(c, p, m, o, i) EXCEPT !.m = n].code = c
BY DEF IsCall, Frame

LEMMA InnermostCall ==
    ASSUME Calls
    PROVE  /\ Len(frames) \in Nat \ {0} /\ IsCall(Current)
           /\ \A k \in 1 .. Len(frames) : IsCall(frames[k])
<1>1. PICK S : frames \in Seq(S) /\ \A f \in S : IsCall(f)
  BY DEF Calls
<1>2. Len(frames) \in Nat \ {0}
  BY <1>1 DEF Calls
<1>3. \A k \in 1 .. Len(frames) : IsCall(frames[k])
  BY <1>1, ElementOfSeq
<1> QED BY <1>2, <1>3 DEF Current

LEMMA AdvancedIsCall ==
    ASSUME Calls, NEW mnemonic, NEW m
    PROVE  IsCall(Advanced(mnemonic, m)) /\ Advanced(mnemonic, m).code = Current.code
<1> DEFINE f == Current
           a == f.pc + 1 + Arity(mnemonic)
           next == [f EXCEPT !.pc = @ + 1 + Arity(mnemonic), !.m = m]
<1>1. f = Frame(f.code, f.pc, f.m, f.outputs, f.items)
  BY InnermostCall DEF IsCall
<1>2. f \in [code : {f.code}, pc : {f.pc}, m : {f.m}, outputs : {f.outputs}, items : {f.items}]
  BY <1>1 DEF Frame
<1> HIDE DEF f
<1>3. next \in [code : {f.code}, pc : {a}, m : {m}, outputs : {f.outputs}, items : {f.items}]
  BY <1>2
<1> HIDE DEF next
<1>4. next = Frame(f.code, a, m, f.outputs, f.items)
  BY <1>3 DEF Frame
<1>5. IsCall(next) /\ next.code = f.code
  BY <1>4, FrameIsCall
<1> QED BY <1>5 DEF next, f, Advanced

\* The innermost call goes on.
LEMMA ReplaceKeeps ==
    ASSUME Calls, NEW g, IsCall(g), g.code = Current.code, NEW next, next = Replace(g)
    PROVE  /\ Len(next) = Len(frames) /\ next[1].code = frames[1].code
           /\ \E S : next \in Seq(S) /\ \A f \in S : IsCall(f)
<1>1. PICK S : frames \in Seq(S) /\ \A f \in S : IsCall(f)
  BY DEF Calls
<1> DEFINE R == S \cup {g}
           n == Len(frames)
<1>2. n \in 1 .. n /\ 1 \in 1 .. n
  BY InnermostCall
<1>3. \A f \in R : IsCall(f)
  BY <1>1
<1>4. \A k \in 1 .. n : frames[k] \in R
  BY <1>1, ElementOfSeq
<1>5. frames \in Seq(R) /\ g \in R
  <2>1. S \subseteq R /\ g \in R
    OBVIOUS
  <2> HIDE DEF R
  <2> QED BY <1>1, <2>1
<1> HIDE DEF R
<1>6. next \in Seq(R) /\ Len(next) = n /\ \A k \in 1 .. n : next[k] = IF k = n THEN g ELSE frames[k]
  BY <1>2, <1>5, ExceptSeq DEF Replace
<1>7. next[1].code = frames[1].code
  BY <1>2, <1>6 DEF Current
<1> QED BY <1>3, <1>6, <1>7

LEMMA GoesOn ==
    ASSUME Calls, NEW g, IsCall(g), g.code = Current.code, frames' = Replace(g)
    PROVE  Keeps
<1>1. /\ Len(frames') = Len(frames) /\ frames'[1].code = frames[1].code
      /\ \E S : frames' \in Seq(S) /\ \A f \in S : IsCall(f)
  BY ReplaceKeeps
<1>2. frames' # << >>
  BY <1>1, InnermostCall
<1> QED BY <1>1, <1>2 DEF Keeps, Calls

LEMMA RevertKeeps == Revert => Keeps
BY DEF Revert, Keeps

LEMMA InstructionKeeps ==
    ASSUME Calls, NEW mnemonic, NEW outcomes, Instruction(mnemonic, outcomes)
    PROVE  Keeps
<1>1. CASE outcomes = {}
  BY <1>1, RevertKeeps DEF Instruction
<1>2. CASE outcomes # {}
  <2>1. PICK m \in outcomes : frames' = Replace(Advanced(mnemonic, m))
    BY <1>2 DEF Instruction
  <2> QED BY <2>1, AdvancedIsCall, GoesOn
<1> QED BY <1>1, <1>2

LEMMA StoreKeeps ==
    ASSUME Calls, NEW mnemonic, NEW id, NEW kind, Store(mnemonic, id, kind)
    PROVE  Keeps
<1>1. Revert \/ frames' = Replace(Advanced(mnemonic, Drop(M, 1)))
  BY DEF Store
<1> QED BY <1>1, RevertKeeps, AdvancedIsCall, GoesOn

\* A subroutine comes on top.
LEMMA EnterKeeps ==
    ASSUME Calls, NEW mnemonic, NEW m, NEW pc, NEW items, Enter(mnemonic, m, pc, items)
    PROVE  Keeps
<1> DEFINE code   == vectors[Arg(1)]
           callee == [NewStack(Pos(4)) EXCEPT !.stack = TopN(m, Pos(2))]
           g      == Advanced(mnemonic, Drop(m, Pos(2)))
           sub    == Frame(code, IF pc = 0 THEN Len(code) + 1 ELSE pc, callee, Pos(3), items)
           next   == Replace(g)
<1>1. frames' = Append(next, sub)
  BY DEF Enter
<1>2. IsCall(g) /\ g.code = Current.code
  BY AdvancedIsCall
<1>3. IsCall(sub)
  BY FrameIsCall
<1> HIDE DEF g, sub
<1>4. Len(next) = Len(frames) /\ next[1].code = frames[1].code
  BY <1>2, ReplaceKeeps
<1>5. \E S : next \in Seq(S) /\ \A f \in S : IsCall(f)
  BY <1>2, ReplaceKeeps
<1> HIDE DEF next
<1>6. PICK S : next \in Seq(S) /\ \A f \in S : IsCall(f)
  BY <1>5
<1> DEFINE R == S \cup {sub}
<1>7. (\A f \in R : IsCall(f)) /\ S \subseteq R /\ sub \in R
  BY <1>3, <1>6
<1> HIDE DEF R
<1>8. next \in Seq(R)
  BY <1>6, <1>7
<1>9. 1 \in 1 .. Len(next) /\ Len(next) \in Nat
  BY <1>4, InnermostCall
<1>10. /\ frames' \in Seq(R) /\ Len(frames') = Len(next) + 1
       /\ \A k \in 1 .. Len(next) : frames'[k] = next[k]
  BY <1>1, <1>7, <1>8, AppendProperties
<1>11. frames' # << >> /\ frames'[1].code = frames[1].code
  BY <1>4, <1>9, <1>10
<1> QED BY <1>7, <1>10, <1>11 DEF Keeps, Calls

LEMMA FoldNextKeeps ==
    ASSUME Calls, FoldNext
    PROVE  Keeps
<1>1. PICK pc, m, o, items : frames' = Replace(Frame(Current.code, pc, m, o, items))
  BY DEF FoldNext
<1> QED BY <1>1, FrameIsCall, GoesOn

\* Its caller goes on when it returns.
LEMMA ReturnKeeps ==
    ASSUME Calls, Return
    PROVE  Keeps
<1> DEFINE n      == Len(frames)
           caller == frames[n - 1]
           below  == SubSeq(frames, 1, n - 2)
           g      == [caller EXCEPT !.m = PushAll(@, TopN(M, Current.outputs))]
<1>1. n \in Nat /\ n > 1 /\ n - 1 \in 1 .. n
  BY InnermostCall DEF Return
<1>2. Revert \/ frames' = Append(below, g)
  BY DEF Return
<1>3. IsCall(g) /\ g.code = caller.code
  <2>1. caller = Frame(caller.code, caller.pc, caller.m, caller.outputs, caller.items)
    BY <1>1, InnermostCall DEF IsCall
  <2> HIDE DEF caller
  <2> DEFINE f == Frame(caller.code, caller.pc, caller.m, caller.outputs, caller.items)
             v == PushAll(caller.m, TopN(M, Current.outputs))
  <2>2. g = [f EXCEPT !.m = v]
    BY <2>1
  <2> QED BY <2>2, FrameIsCall
<1>4. PICK S : frames \in Seq(S) /\ \A f \in S : IsCall(f)
  BY DEF Calls
<1> DEFINE R == S \cup {g}
<1>5. (\A f \in R : IsCall(f)) /\ S \subseteq R /\ g \in R
  BY <1>3, <1>4
<1> HIDE DEF g, R
<1>6. \A k \in 1 .. n - 2 : frames[k] \in R
  <2>1. \A k \in 1 .. n - 2 : k \in 1 .. n
    BY <1>1
  <2> QED BY <1>4, <1>5, <2>1, ElementOfSeq
<1>7. below \in Seq(R) /\ Len(below) = n - 2 /\ \A k \in 1 .. n - 2 : below[k] = frames[k]
  <2>1. n - 2 \in Int /\ 1 \in Int /\ 1 <= (n - 2) + 1 /\ (n - 2) - 1 + 1 = n - 2
    BY <1>1
  <2>2. below \in Seq(R) /\ Len(below) = n - 2
    BY <1>1, <1>6, <2>1, SubSeqProperties
  <2>3. \A k \in 1 .. n - 2 : below[k] = frames[1 + k - 1]
    BY <1>1, <1>6, <2>1, SubSeqProperties
  <2>4. \A k \in 1 .. n - 2 : 1 + k - 1 = k
    BY <1>1
  <2> QED BY <2>2, <2>3, <2>4
<1> HIDE DEF below
<1>8. CASE frames' = Append(below, g)
  <2>1. /\ frames' \in Seq(R) /\ Len(frames') = (n - 2) + 1 /\ frames'[(n - 2) + 1] = g
        /\ \A k \in 1 .. n - 2 : frames'[k] = below[k]
    BY <1>5, <1>7, <1>8, AppendProperties
  <2>2. frames'[1].code = frames[1].code
    <3>1. CASE n = 2
      <4>1. frames'[1] = g /\ caller = frames[1]
        BY <2>1, <3>1
      <4> QED BY <1>3, <4>1
    <3>2. CASE n # 2
      <4>1. 1 \in 1 .. n - 2
        <5>1. \A k \in Nat : k > 1 /\ k # 2 => 1 \in 1 .. k - 2
          OBVIOUS
        <5> QED BY <1>1, <3>2, <5>1
      <4> QED BY <1>7, <2>1, <4>1
    <3> QED BY <3>1, <3>2
  <2>3. frames' # << >>
    BY <1>1, <2>1
  <2> QED BY <1>5, <2>1, <2>2, <2>3 DEF Keeps, Calls
<1> QED BY <1>2, <1>8, RevertKeeps

LEMMA StepKeeps ==
    ASSUME Calls, Step
    PROVE  Keeps
<1>1. CASE LoadsAndStores
  BY <1>1, InstructionKeeps, StoreKeeps
     DEF LoadsAndStores, LDL, LDV, STL, STV, LDD, LDR, LDM, STR, POPN, SWAP
<1>2. CASE Structures
  BY <1>2, InstructionKeeps DEF Structures, PKV, PKL, UNPK, T, VPUSH, VPOP, LPUSH, LPOP
<1>3. CASE JoinsOfLabels
  BY <1>3, InstructionKeeps DEF JoinsOfLabels, LUNION, JUPD, JADD, JFLT
<1>4. CASE Arithmetic
  BY <1>4, InstructionKeeps DEF Arithmetic, ADD, SUB, SSB, MUL, DIV, SQRT, MIN, MAXOP
<1>5. CASE Aggregates \/ Immediates
  BY <1>5, InstructionKeeps DEF Aggregates, VSUM, VMIN, VMAX, Immediates, IMMS, IMML, ZEROS, ONES
<1>6. CASE ControlFlow
  <2>1. ASSUME B \/ FOLD PROVE Keeps
    <3>1. Revert \/ Enter("B", M, 1, << >>) \/ Enter("FOLD", Drop(M, 1), 0, Items(Top(M)))
      BY <2>1 DEF B, FOLD
    <3> QED BY <3>1, RevertKeeps, EnterKeeps
  <2>2. ASSUME End \/ Malfunction PROVE Keeps
    BY <2>2, RevertKeeps DEF End, Commit, Malfunction, Keeps
  <2> QED BY <1>6, <2>1, <2>2, FoldNextKeeps, ReturnKeeps DEF ControlFlow
<1> QED BY <1>1, <1>2, <1>3, <1>4, <1>5, <1>6 DEF Step

-----------------------------------------------------------------------------
(***************************************************************************)
(* The programs of the laws, and the join of equal labels, are not the     *)
(* four that are followed: the joins load the labels B first.              *)
(***************************************************************************)
IsInstruction(i) == (\E W : i \in Seq(W)) /\ Len(i) >= 1
IsProgram(p) == \E P : p \in Seq(P) /\ Len(p) >= 1 /\ \A i \in P : IsInstruction(i)

\* Every instruction becomes a sequence of words.
LEMMA WordsAreSequences ==
    ASSUME NEW p, NEW i, IsInstruction(i)
    PROVE  \E W : Words(p, i) \in Seq(W)
<1> DEFINE args == CASE NamesRegister(i) -> <<RegisterOf(p, i[2])>>
                     [] HoldsAmount(i)   -> <<i[2] * SCALE>>
                     [] OTHER            -> Tail(i)
<1>1. PICK V : i \in Seq(V) /\ Len(i) >= 1
  BY DEF IsInstruction
<1> DEFINE W == V \cup {Opcode[i[1]], RegisterOf(p, i[2]), i[2] * SCALE}
<1>2. i # << >>
  BY <1>1
<1>3. Tail(i) \in Seq(V)
  BY <1>1, <1>2
<1>4. /\ RegisterOf(p, i[2]) \in W /\ i[2] * SCALE \in W /\ Opcode[i[1]] \in W
      /\ V \subseteq W
  OBVIOUS
<1> HIDE DEF W
<1>5. \A x \in W : <<x>> \in Seq(W)
  OBVIOUS
<1>6. Tail(i) \in Seq(W)
  BY <1>3, <1>4
<1>7. args \in Seq(W)
  BY <1>4, <1>5, <1>6
<1>8. <<Opcode[i[1]]>> \in Seq(W)
  BY <1>4, <1>5
<1>9. Words(p, i) = <<Opcode[i[1]]>> \o args
  BY DEF Words
<1> HIDE DEF args
<1>10. Words(p, i) \in Seq(W)
  BY <1>7, <1>8, <1>9, ConcatProperties
<1> QED BY <1>10

\* The code of a program begins with the words of its first instruction.
LEMMA SecondWord ==
    ASSUME NEW p, IsProgram(p), NEW w \in Nat, NEW z \in Nat, Words(p, p[1]) = <<w, z>>
    PROVE  Assemble(p)[2] = z
<1> DEFINE n == Len(p)
<1>1. n \in Nat /\ n >= 1 /\ \A i \in 1 .. n : IsInstruction(p[i])
  <2>1. PICK P : p \in Seq(P) /\ Len(p) >= 1 /\ \A i \in P : IsInstruction(i)
    BY DEF IsProgram
  <2> QED BY <2>1, ElementOfSeq
<1>2. PICK f : IsAssembly(p, f)
  BY <1>1, AssemblySteps
<1> DEFINE Begins(s) == (\E W : s \in Seq(W)) /\ Len(s) >= 2 /\ s[2] = z
           Good == {k \in 0 .. n : k = 0 \/ Begins(f[k])}
<1>3. f[0] = << >> /\ \A i \in 1 .. n : f[i] = f[i - 1] \o Words(p, p[i])
  BY <1>2 DEF IsAssembly
<1>4. Begins(f[1])
  <2>1. 1 \in 1 .. n /\ 1 - 1 = 0
    BY <1>1
  <2>2. f[1] = << >> \o <<w, z>>
    BY <1>3, <2>1
  <2>3. << >> \o <<w, z>> = <<w, z>>
    OBVIOUS
  <2>4. <<w, z>> \in Seq(Nat) /\ Len(<<w, z>>) >= 2 /\ <<w, z>>[2] = z
    OBVIOUS
  <2> QED BY <2>2, <2>3, <2>4
<1>5. ASSUME NEW s, Begins(s), NEW i, IsInstruction(i) PROVE Begins(s \o Words(p, i))
  <2>1. PICK V : s \in Seq(V)
    BY <1>5
  <2>2. PICK W : Words(p, i) \in Seq(W)
    BY <1>5, WordsAreSequences
  <2> DEFINE R == V \cup W
             t == Words(p, i)
  <2>3. V \subseteq R /\ W \subseteq R
    OBVIOUS
  <2> HIDE DEF R, t
  <2>4. s \in Seq(R) /\ t \in Seq(R)
    BY <2>1, <2>2, <2>3 DEF t
  <2>5. /\ s \o t \in Seq(R) /\ Len(s \o t) = Len(s) + Len(t)
        /\ \A k \in 1 .. Len(s) : (s \o t)[k] = s[k]
    BY <2>4, ConcatProperties
  <2>6. Len(s) \in Nat /\ Len(t) \in Nat /\ Len(s) >= 2 /\ s[2] = z
    BY <1>5, <2>4
  <2>7. 2 \in 1 .. Len(s) /\ Len(s) + Len(t) >= 2
    BY <2>6
  <2>8. (s \o t)[2] = z /\ Len(s \o t) >= 2
    BY <2>5, <2>6, <2>7
  <2> QED BY <2>5, <2>8 DEF t
<1> HIDE DEF Begins
<1>6. 0 \in Good
  BY <1>1
<1>7. ASSUME NEW k \in 1 .. n, k - 1 \in Good PROVE k \in Good
  <2>1. k \in 0 .. n
    BY <1>1
  <2>2. CASE k = 1
    BY <1>4, <2>1, <2>2
  <2>3. CASE k # 1
    <3>1. Begins(f[k - 1])
      BY <1>1, <1>7, <2>3
    <3>2. Begins(f[k - 1] \o Words(p, p[k]))
      BY <1>1, <1>5, <3>1
    <3> QED BY <1>3, <2>1, <3>2
  <2> QED BY <2>2, <2>3
<1>8. 0 .. n \subseteq Good
  <2> HIDE DEF Good
  <2> QED BY <1>1, <1>6, <1>7, UpTo
<1>9. n \in 0 .. n /\ n # 0
  BY <1>1
<1>10. Begins(f[n])
  BY <1>8, <1>9
<1>11. Assemble(p) = f[n]
  BY <1>2 DEF IsAssembly
<1> QED BY <1>10, <1>11 DEF Begins

\* Both sides of a law load a vector, or the labels A, first.
FirstLoads == {LoadX, LoadY, LoadA}
LawLike(law) == /\ IsProgram(law.left) /\ law.left[1] \in FirstLoads
                /\ IsProgram(law.right)

LEMMA TuplesAre ==
    ASSUME NEW a, NEW b, NEW c, NEW d, NEW e
    PROVE  /\ IsInstruction(<<a>>) /\ IsInstruction(<<a, b>>) /\ IsInstruction(<<a, b, c, d, e>>)
<1> DEFINE W == {a, b, c, d, e}
<1>1. a \in W /\ b \in W /\ c \in W /\ d \in W /\ e \in W
  OBVIOUS
<1> HIDE DEF W
<1>2. <<a>> \in Seq(W) /\ <<a, b>> \in Seq(W) /\ <<a, b, c, d, e>> \in Seq(W)
  BY <1>1
<1>3. Len(<<a>>) = 1 /\ Len(<<a, b>>) = 2 /\ Len(<<a, b, c, d, e>>) = 5
  OBVIOUS
<1> QED BY <1>2, <1>3 DEF IsInstruction

\* Programs of up to seven instructions.
LEMMA ProgramOver ==
    ASSUME NEW P, \A i \in P : IsInstruction(i), NEW p, p \in Seq(P), Len(p) >= 1
    PROVE  IsProgram(p)
BY DEF IsProgram

LEMMA OneInstruction ==
    ASSUME NEW a, IsInstruction(a)
    PROVE  IsProgram(<<a>>)
<1> DEFINE P == {a}  p == <<a>>
<1>1. \A i \in P : IsInstruction(i)
  OBVIOUS
<1>2. p \in Seq(P) /\ Len(p) >= 1
  OBVIOUS
<1> HIDE DEF P, p
<1>3. IsProgram(p)
  BY <1>1, <1>2, ProgramOver
<1> QED BY <1>3 DEF p

LEMMA TwoInstructions ==
    ASSUME NEW a, IsInstruction(a), NEW b, IsInstruction(b)
    PROVE  IsProgram(<<a, b>>)
<1> DEFINE P == {a, b}  p == <<a, b>>
<1>1. \A i \in P : IsInstruction(i)
  OBVIOUS
<1>2. p \in Seq(P) /\ Len(p) >= 1
  OBVIOUS
<1> HIDE DEF P, p
<1>3. IsProgram(p)
  BY <1>1, <1>2, ProgramOver
<1> QED BY <1>3 DEF p

LEMMA ThreeInstructions ==
    ASSUME NEW a, IsInstruction(a), NEW b, IsInstruction(b), NEW c, IsInstruction(c)
    PROVE  IsProgram(<<a, b, c>>)
<1> DEFINE P == {a, b, c}  p == <<a, b, c>>
<1>1. \A i \in P : IsInstruction(i)
  OBVIOUS
<1>2. p \in Seq(P) /\ Len(p) >= 1
  OBVIOUS
<1> HIDE DEF P, p
<1>3. IsProgram(p)
  BY <1>1, <1>2, ProgramOver
<1> QED BY <1>3 DEF p

LEMMA FourInstructions ==
    ASSUME NEW a, IsInstruction(a), NEW b, IsInstruction(b), NEW c, IsInstruction(c),
           NEW d, IsInstruction(d)
    PROVE  IsProgram(<<a, b, c, d>>)
<1> DEFINE P == {a, b, c, d}  p == <<a, b, c, d>>
<1>1. \A i \in P : IsInstruction(i)
  OBVIOUS
<1>2. p \in Seq(P) /\ Len(p) >= 1
  OBVIOUS
<1> HIDE DEF P, p
<1>3. IsProgram(p)
  BY <1>1, <1>2, ProgramOver
<1> QED BY <1>3 DEF p

LEMMA FiveInstructions ==
    ASSUME NEW a, IsInstruction(a), NEW b, IsInstruction(b), NEW c, IsInstruction(c),
           NEW d, IsInstruction(d), NEW e, IsInstruction(e)
    PROVE  IsProgram(<<a, b, c, d, e>>)
<1> DEFINE P == {a, b, c, d, e}  p == <<a, b, c, d, e>>
<1>1. \A i \in P : IsInstruction(i)
  OBVIOUS
<1>2. p \in Seq(P) /\ Len(p) >= 1
  OBVIOUS
<1> HIDE DEF P, p
<1>3. IsProgram(p)
  BY <1>1, <1>2, ProgramOver
<1> QED BY <1>3 DEF p

LEMMA SixInstructions ==
    ASSUME NEW a, IsInstruction(a), NEW b, IsInstruction(b), NEW c, IsInstruction(c),
           NEW d, IsInstruction(d), NEW e, IsInstruction(e), NEW f, IsInstruction(f)
    PROVE  IsProgram(<<a, b, c, d, e, f>>)
<1> DEFINE P == {a, b, c, d, e, f}  p == <<a, b, c, d, e, f>>
<1>1. \A i \in P : IsInstruction(i)
  OBVIOUS
<1>2. p \in Seq(P) /\ Len(p) >= 1
  OBVIOUS
<1> HIDE DEF P, p
<1>3. IsProgram(p)
  BY <1>1, <1>2, ProgramOver
<1> QED BY <1>3 DEF p

LEMMA SevenInstructions ==
    ASSUME NEW a, IsInstruction(a), NEW b, IsInstruction(b), NEW c, IsInstruction(c),
           NEW d, IsInstruction(d), NEW e, IsInstruction(e), NEW f, IsInstruction(f),
           NEW g, IsInstruction(g)
    PROVE  IsProgram(<<a, b, c, d, e, f, g>>)
<1> DEFINE P == {a, b, c, d, e, f, g}  p == <<a, b, c, d, e, f, g>>
<1>1. \A i \in P : IsInstruction(i)
  OBVIOUS
<1>2. p \in Seq(P) /\ Len(p) >= 1
  OBVIOUS
<1> HIDE DEF P, p
<1>3. IsProgram(p)
  BY <1>1, <1>2, ProgramOver
<1> QED BY <1>3 DEF p

LEMMA LoadsAre == IsInstruction(LoadX) /\ IsInstruction(LoadY) /\ IsInstruction(LoadA)
BY TuplesAre DEF LoadX, LoadY, LoadA

\* A pair of programs is a law.
LEMMA PairIsLaw ==
    ASSUME NEW l, IsProgram(l), l[1] \in FirstLoads, NEW r, IsProgram(r)
    PROVE  LawLike(Law(l, r))
BY DEF Law, LawLike

LEMMA FoldLawsLoad ==
    ASSUME NEW s, NEW m
    PROVE  LawLike(Law(FoldAll(s), OfAll(m)))
<1> DEFINE i == <<"VPOP">>  j == <<"SWAP", 1>>  k == <<"FOLD", s, 1, 1, 0>>  h == <<"PKV", 1>>
           o == <<m>>
<1>1. /\ IsInstruction(i) /\ IsInstruction(j) /\ IsInstruction(k) /\ IsInstruction(h)
      /\ IsInstruction(o)
  BY TuplesAre
<1>2. FoldAll(s) = <<LoadX, i, j, k, h>> /\ OfAll(m) = <<LoadX, o, h>>
  BY DEF FoldAll, OfAll
<1> HIDE DEF i, j, k, h, o
<1>3. IsProgram(FoldAll(s)) /\ FoldAll(s)[1] = LoadX
  <2>1. IsProgram(<<LoadX, i, j, k, h>>)
    BY <1>1, LoadsAre, FiveInstructions
  <2> QED BY <1>2, <2>1
<1>4. IsProgram(OfAll(m))
  BY <1>1, <1>2, LoadsAre, ThreeInstructions
<1> QED BY <1>3, <1>4, PairIsLaw DEF FirstLoads

\* So all the laws are.
LEMMA StructureLawsLoad == \A law \in StructureLaws : LawLike(law)
<1> DEFINE i1 == <<"T", 2>>   i2 == <<"T", Size>>   i3 == <<"POPN", 1>>
           i4 == <<"UNPK">>   i5 == <<"PKV", Size>>   i6 == <<"VPUSH", 2>>
           i7 == <<"VPOP">>
<1>1. /\ IsInstruction(i1) /\ IsInstruction(i2) /\ IsInstruction(i3) /\ IsInstruction(i4)
      /\ IsInstruction(i5) /\ IsInstruction(i6) /\ IsInstruction(i7)
  BY TuplesAre
<1> HIDE DEF i1, i2, i3, i4, i5, i6, i7
<1>2. LawLike(Law(<<LoadX, LoadY, i1, i2>>, <<LoadY>>))
  <2>1. IsProgram(<<LoadX, LoadY, i1, i2>>) /\ IsProgram(<<LoadY>>)
    BY <1>1, LoadsAre, FourInstructions, OneInstruction
  <2> QED BY <2>1, PairIsLaw DEF FirstLoads
<1>3. LawLike(Law(<<LoadX, LoadY, i1, i2, i3>>, <<LoadX>>))
  <2>1. IsProgram(<<LoadX, LoadY, i1, i2, i3>>) /\ IsProgram(<<LoadX>>)
    BY <1>1, LoadsAre, FiveInstructions, OneInstruction
  <2> QED BY <2>1, PairIsLaw DEF FirstLoads
<1>4. LawLike(Law(<<LoadX, i4, i5>>, <<LoadX>>))
  <2>1. IsProgram(<<LoadX, i4, i5>>) /\ IsProgram(<<LoadX>>)
    BY <1>1, LoadsAre, OneInstruction, ThreeInstructions
  <2> QED BY <2>1, PairIsLaw DEF FirstLoads
<1>5. LawLike(Law(<<LoadX, i6, i7, i3>>, <<LoadX>>))
  <2>1. IsProgram(<<LoadX, i6, i7, i3>>) /\ IsProgram(<<LoadX>>)
    BY <1>1, LoadsAre, FourInstructions, OneInstruction
  <2> QED BY <2>1, PairIsLaw DEF FirstLoads
<1> QED BY <1>2, <1>3, <1>4, <1>5 DEF StructureLaws, i1, i2, i3, i4, i5, i6, i7

LEMMA ArithmeticLawsLoad == \A law \in ArithmeticLaws : LawLike(law)
<1> DEFINE i1 == <<"SSB", 1>>   i2 == <<"ADD", 1>>   i3 == <<"MAX", 1>>
           i4 == <<"MIN", 1>>   i5 == <<"ADD", 2>>   i6 == <<"SUB", 1>>
           i7 == <<"ZEROS", 0>>   i8 == <<"ONES", 0>>   i9 == <<"LDD", 1>>
           i10 == <<"MUL", 1>>   i11 == <<"DIV", 1>>   i12 == <<"SQRT">>
<1>1. /\ IsInstruction(i1) /\ IsInstruction(i2) /\ IsInstruction(i3) /\ IsInstruction(i4)
      /\ IsInstruction(i5) /\ IsInstruction(i6) /\ IsInstruction(i7) /\ IsInstruction(i8)
      /\ IsInstruction(i9) /\ IsInstruction(i10) /\ IsInstruction(i11) /\ IsInstruction(i12)
  BY TuplesAre
<1> HIDE DEF i1, i2, i3, i4, i5, i6, i7, i8, i9, i10, i11, i12
<1>2. LawLike(Law(<<LoadY, LoadX, i1, i2>>, <<LoadY, LoadX, i3>>))
  <2>1. IsProgram(<<LoadY, LoadX, i1, i2>>) /\ IsProgram(<<LoadY, LoadX, i3>>)
    BY <1>1, LoadsAre, FourInstructions, ThreeInstructions
  <2> QED BY <2>1, PairIsLaw DEF FirstLoads
<1>3. LawLike(Law(<<LoadY, LoadX, i4, LoadY, LoadX, i3, i5>>, <<LoadY, LoadX, i2>>))
  <2>1. IsProgram(<<LoadY, LoadX, i4, LoadY, LoadX, i3, i5>>) /\ IsProgram(<<LoadY, LoadX, i2>>)
    BY <1>1, LoadsAre, SevenInstructions, ThreeInstructions
  <2> QED BY <2>1, PairIsLaw DEF FirstLoads
<1>4. LawLike(Law(<<LoadY, LoadX, i2, i6>>, <<LoadX>>))
  <2>1. IsProgram(<<LoadY, LoadX, i2, i6>>) /\ IsProgram(<<LoadX>>)
    BY <1>1, LoadsAre, FourInstructions, OneInstruction
  <2> QED BY <2>1, PairIsLaw DEF FirstLoads
<1>5. LawLike(Law(<<LoadX, i7, i2>>, <<LoadX>>))
  <2>1. IsProgram(<<LoadX, i7, i2>>) /\ IsProgram(<<LoadX>>)
    BY <1>1, LoadsAre, OneInstruction, ThreeInstructions
  <2> QED BY <2>1, PairIsLaw DEF FirstLoads
<1>6. LawLike(Law(<<LoadX, i8, i9, i10, i11>>, <<LoadX>>))
  <2>1. IsProgram(<<LoadX, i8, i9, i10, i11>>) /\ IsProgram(<<LoadX>>)
    BY <1>1, LoadsAre, FiveInstructions, OneInstruction
  <2> QED BY <2>1, PairIsLaw DEF FirstLoads
<1>7. LawLike(Law(<<LoadX, i8, i12>>, <<LoadX, i8>>))
  <2>1. IsProgram(<<LoadX, i8, i12>>) /\ IsProgram(<<LoadX, i8>>)
    BY <1>1, LoadsAre, ThreeInstructions, TwoInstructions
  <2> QED BY <2>1, PairIsLaw DEF FirstLoads
<1> QED BY <1>2, <1>3, <1>4, <1>5, <1>6, <1>7
        DEF ArithmeticLaws, i1, i2, i3, i4, i5, i6, i7, i8, i9, i10, i11, i12

LEMMA CallLawsLoad == \A law \in CallLaws : LawLike(law)
<1> DEFINE i1 == <<"STR", "R">>   i2 == <<"B", IdOccupy, 1, 1, 2>>   i3 == <<"LDM", "R">>
           i4 == <<"LDR", "R">>   i5 == <<"SWAP", 1>>
<1>1. /\ IsInstruction(i1) /\ IsInstruction(i2) /\ IsInstruction(i3) /\ IsInstruction(i4)
      /\ IsInstruction(i5)
  BY TuplesAre
<1> HIDE DEF i1, i2, i3, i4, i5
<1>2. LawLike(Law(<<LoadX, i1, LoadY, i2, i3>>, <<LoadX>>))
  <2>1. IsProgram(<<LoadX, i1, LoadY, i2, i3>>) /\ IsProgram(<<LoadX>>)
    BY <1>1, LoadsAre, FiveInstructions, OneInstruction
  <2> QED BY <2>1, PairIsLaw DEF FirstLoads
<1>3. LawLike(Law(<<LoadX, LoadY, i1, i2, i4, i5>>, <<LoadX>>))
  <2>1. IsProgram(<<LoadX, LoadY, i1, i2, i4, i5>>) /\ IsProgram(<<LoadX>>)
    BY <1>1, LoadsAre, OneInstruction, SixInstructions
  <2> QED BY <2>1, PairIsLaw DEF FirstLoads
<1> QED BY <1>2, <1>3 DEF CallLaws, i1, i2, i3, i4, i5

LEMMA LabelLawsLoad == \A law \in LabelLaws : LawLike(law)
<1> DEFINE i1 == <<"UNPK">>   i2 == <<"PKL", Size>>   i3 == <<"FOLD", IdItem, 0, Size, 0>>
           i4 == <<"LPUSH", 9>>   i5 == <<"LPOP">>   i6 == <<"POPN", 1>>
           i7 == <<"PKL", 1>>   i8 == <<"IMML", 9>>
<1>1. /\ IsInstruction(i1) /\ IsInstruction(i2) /\ IsInstruction(i3) /\ IsInstruction(i4)
      /\ IsInstruction(i5) /\ IsInstruction(i6) /\ IsInstruction(i7) /\ IsInstruction(i8)
  BY TuplesAre
<1> HIDE DEF i1, i2, i3, i4, i5, i6, i7, i8
<1>2. LawLike(Law(<<LoadA, i1, i2>>, <<LoadA>>))
  <2>1. IsProgram(<<LoadA, i1, i2>>) /\ IsProgram(<<LoadA>>)
    BY <1>1, LoadsAre, OneInstruction, ThreeInstructions
  <2> QED BY <2>1, PairIsLaw DEF FirstLoads
<1>3. LawLike(Law(<<LoadA, i3, i2>>, <<LoadA>>))
  <2>1. IsProgram(<<LoadA, i3, i2>>) /\ IsProgram(<<LoadA>>)
    BY <1>1, LoadsAre, OneInstruction, ThreeInstructions
  <2> QED BY <2>1, PairIsLaw DEF FirstLoads
<1>4. LawLike(Law(<<LoadA, i4, i5, i6>>, <<LoadA>>))
  <2>1. IsProgram(<<LoadA, i4, i5, i6>>) /\ IsProgram(<<LoadA>>)
    BY <1>1, LoadsAre, FourInstructions, OneInstruction
  <2> QED BY <2>1, PairIsLaw DEF FirstLoads
<1>5. LawLike(Law(<<LoadA, i4, i5, i7>>, <<i8, i7>>))
  <2>1. IsProgram(<<LoadA, i4, i5, i7>>) /\ IsProgram(<<i8, i7>>)
    BY <1>1, LoadsAre, FourInstructions, TwoInstructions
  <2> QED BY <2>1, PairIsLaw DEF FirstLoads
<1> QED BY <1>2, <1>3, <1>4, <1>5 DEF LabelLaws, i1, i2, i3, i4, i5, i6, i7, i8

\* The program of a law begins with its first load.
LEMMA SidesBegin ==
    ASSUME NEW law, LawLike(law), NEW store
    PROVE  Sides(law, store)[2] \in {1, 2, 3}
<1> DEFINE u == <<store, IdLeft>>
           v == <<store, IdRight>>
<1>1. PICK L : law.left \in Seq(L) /\ Len(law.left) >= 1 /\ \A i \in L : IsInstruction(i)
  BY DEF LawLike, IsProgram
<1>2. PICK R : law.right \in Seq(R) /\ \A i \in R : IsInstruction(i)
  BY DEF LawLike, IsProgram
<1> DEFINE P == L \cup R \cup {u, v}
           l == law.left
           r == law.right
<1>3. \A i \in P : IsInstruction(i)
  <2>1. IsInstruction(u) /\ IsInstruction(v)
    BY TuplesAre
  <2> QED BY <1>1, <1>2, <2>1
<1>4. L \subseteq P /\ R \subseteq P /\ u \in P /\ v \in P
  OBVIOUS
<1> HIDE DEF P, u, v
<1>5. l \in Seq(P) /\ r \in Seq(P) /\ Len(l) >= 1 /\ l[1] \in FirstLoads
  BY <1>1, <1>2, <1>4 DEF LawLike
<1> HIDE DEF l, r
<1> DEFINE left == Append(l, u)
           right == Append(r, v)
<1>6. /\ left \in Seq(P) /\ Len(left) = Len(l) + 1
      /\ \A i \in 1 .. Len(l) : left[i] = l[i]
  BY <1>4, <1>5, AppendProperties
<1>7. right \in Seq(P)
  BY <1>4, <1>5, AppendProperties
<1>8. Len(l) \in Nat /\ 1 \in 1 .. Len(l)
  BY <1>5
<1> HIDE DEF left, right
<1>9. Len(left) \in Nat /\ Len(left) >= 1 /\ 1 \in 1 .. Len(left) /\ left[1] \in FirstLoads
  BY <1>5, <1>6, <1>8
<1> DEFINE p == left \o right
<1>10. /\ p \in Seq(P) /\ Len(p) = Len(left) + Len(right)
       /\ \A i \in 1 .. Len(left) : p[i] = left[i]
  BY <1>6, <1>7, ConcatProperties
<1> HIDE DEF p
<1>11. Len(right) \in Nat
  BY <1>7
<1>12. Len(p) >= 1 /\ p[1] \in FirstLoads
  BY <1>9, <1>10, <1>11
<1>13. IsProgram(p)
  BY <1>3, <1>10, <1>12, ProgramOver
<1>14. Words(p, p[1]) \in {<<11, 1>>, <<11, 2>>, <<10, 3>>}
  BY <1>12, WordsOfJoining DEF FirstLoads
<1>15. Assemble(p)[2] \in {1, 2, 3}
  <2>1. ASSUME NEW w \in Nat, NEW z \in Nat, Words(p, p[1]) = <<w, z>>
        PROVE  Assemble(p)[2] = z
    BY <1>13, <2>1, SecondWord
  <2> QED BY <1>14, <2>1
<1>16. Sides(law, store) = Assemble(p)
  BY DEF Sides, p, left, right, u, v, l, r
<1> QED BY <1>15, <1>16

LEMMA LawsBegin ==
    ASSUME NEW code \in LawCodes
    PROVE  code[2] \in {1, 2, 3}
<1>1. PICK law, store : law \in FoldLaws \cup StructureLaws \cup ArithmeticLaws \cup CallLaws
                                  \cup LabelLaws /\ code = Sides(law, store)
  BY DEF LawCodes
<1>2. CASE law \in FoldLaws
  <2>1. LawLike(law)
    BY <1>2, FoldLawsLoad DEF FoldLaws
  <2> QED BY <1>1, <2>1, SidesBegin
<1>3. CASE law \notin FoldLaws
  <2>1. LawLike(law)
    BY <1>1, <1>3, StructureLawsLoad, ArithmeticLawsLoad, CallLawsLoad, LabelLawsLoad
  <2> QED BY <1>1, <2>1, SidesBegin
<1> QED BY <1>2, <1>3

\* The programs that are followed, and what tells them from the others.
Followed == {FilterCode, UpdateCode, AddCode, UnionCode}

LEMMA OthersDiffer ==
    /\ \A code \in LawCodes \cup {SameLabelsCode} : code \notin Followed
    /\ FilterCode # UpdateCode /\ FilterCode # AddCode /\ FilterCode # UnionCode
    /\ UpdateCode # AddCode /\ UpdateCode # UnionCode /\ AddCode # UnionCode
<1>1. \A code \in Followed : code[2] = 4
  <2>1. FilterCode[2] = 4
    BY FilterWords
  <2>2. UpdateCode[2] = 4
    BY UpdateWords
  <2>3. AddCode[2] = 4
    BY AddWords
  <2>4. UnionCode[2] = 4
    BY UnionWords
  <2> QED BY <2>1, <2>2, <2>3, <2>4 DEF Followed
<1>2. \A code \in LawCodes : code \notin Followed
  <2>1. 4 \notin {1, 2, 3}
    OBVIOUS
  <2> QED BY <1>1, <2>1, LawsBegin
<1>3. FilterCode[9] = 45 /\ Len(FilterCode) = 13
  BY FilterWords
<1>4. UpdateCode[9] = 43 /\ UpdateCode[12] = 3 /\ Len(UpdateCode) = 14
  BY UpdateWords
<1>5. AddCode[9] = 44 /\ Len(AddCode) = 14
  BY AddWords
<1>6. Len(UnionCode) = 8
  BY UnionWords
<1>7. SameLabelsCode[9] = 43 /\ SameLabelsCode[12] = 2 /\ Len(SameLabelsCode) = 14
  BY SameLabelsWords
<1>8. SameLabelsCode \notin Followed
  BY <1>3, <1>4, <1>5, <1>6, <1>7 DEF Followed
<1> QED BY <1>2, <1>3, <1>4, <1>5, <1>6, <1>8

-----------------------------------------------------------------------------
(***************************************************************************)
(* The four programs that are followed, from their first word to their     *)
(* end.                                                                    *)
(***************************************************************************)
FilterMade == Filtered(LabA, LabB, VecX)
UpdateMade == Join(LabA, LabB, VecX, VecY, SecondOf)
AddMade    == Join(LabA, LabB, VecX, VecY, Plus)
UnionMade  == United(LabA, LabB)

\* Before the join: the operands are loaded one by one.
LoadedA == <<Labels(LabB), Labels(LabA)>>
LoadedY == <<Labels(LabB), Labels(LabA), Vector(VecY)>>
LoadedX == Stacked(LabB, LabA, VecY, Vector(VecX))
LoadsLabels(code) ==
    /\ vectors = committed
    /\ \/ frames = Only(code, 1, << >>)
       \/ frames = Only(code, 3, <<Labels(LabB)>>)
       \/ frames = Only(code, 5, LoadedA)
LoadsVectors(code) ==
    /\ vectors = committed
    /\ frames = Only(code, 7, LoadedY) \/ frames = Only(code, 9, LoadedX)

\* After the join: its result d is on top of the stack, or it is stored.
Stores(code, stack, d) ==
    \/ vectors = committed /\ frames = Only(code, Len(code) - 1, stack)
    \/ /\ vectors = Put(committed, IdLeft, d)
       /\ frames = Only(code, Len(code) + 1, SubSeq(stack, 1, Len(stack) - 1))

JoinsVectors(code, ok, d) ==
    \/ LoadsLabels(code)
    \/ LoadsVectors(code)
    \/ ok /\ Stores(code, Stacked(LabB, LabA, VecY, Vector(d)), d)

FollowsFilter == JoinsVectors(FilterCode, FilterMade.ok, FilterMade.data)
FollowsUpdate == JoinsVectors(UpdateCode, UpdateMade.ok, UpdateMade.data)
FollowsAdd ==
    JoinsVectors(AddCode, AddMade.ok /\ AllRepresentable(AddMade.data), AddMade.data)
FollowsUnion ==
    LoadsLabels(UnionCode) \/ Stores(UnionCode, <<Labels(LabB), Labels(UnionMade)>>, UnionMade)

Follows == /\ JoinsLabellings
           /\ FollowsFilter \/ FollowsUpdate \/ FollowsAdd \/ FollowsUnion

\* The programs over, another program running, or one of the four.
LawsInv == \/ Idle
           \/ Calls /\ frames[1].code \notin Followed
           \/ Follows

LEMMA SameOperands ==
    ASSUME UNCHANGED committed
    PROVE  /\ LabA' = LabA /\ LabB' = LabB /\ VecX' = VecX /\ VecY' = VecY
           /\ FilterMade' = FilterMade /\ UpdateMade' = UpdateMade
           /\ AddMade' = AddMade /\ UnionMade' = UnionMade
           /\ LoadedA' = LoadedA /\ LoadedY' = LoadedY /\ LoadedX' = LoadedX
<1>1. LabA' = LabA /\ LabB' = LabB /\ VecX' = VecX /\ VecY' = VecY
  BY DEF LabA, LabB, VecX, VecY
<1>2. FilterMade' = FilterMade
  BY <1>1 DEF FilterMade
<1>3. UpdateMade' = UpdateMade
  BY <1>1 DEF UpdateMade
<1>4. AddMade' = AddMade
  BY <1>1 DEF AddMade
<1>5. UnionMade' = UnionMade
  BY <1>1 DEF UnionMade
<1>6. LoadedA' = LoadedA /\ LoadedY' = LoadedY /\ LoadedX' = LoadedX
  BY <1>1 DEF LoadedA, LoadedY, LoadedX
<1> QED BY <1>1, <1>2, <1>3, <1>4, <1>5, <1>6

LEMMA StillJoins ==
    ASSUME JoinsLabellings, UNCHANGED <<committed, tx>>
    PROVE  JoinsLabellings'
BY DEF JoinsLabellings

LEMMA OnlyRuns ==
    \A code, pc, stack : Only(code, pc, stack) # << >>
BY DEF Only

\* The words that all four begin with.
LEMMA FollowedBegin ==
    ASSUME NEW code \in Followed
    PROVE  /\ Len(code) \in Nat /\ Len(code) >= 8
           /\ code[1] = 10 /\ code[2] = 4 /\ code[3] = 10 /\ code[4] = 3
           /\ code # UnionCode =>
                 /\ Len(code) >= 13
                 /\ code[5] = 11 /\ code[6] = 2 /\ code[7] = 11 /\ code[8] = 1
           /\ code[Len(code) - 1] = (IF code = UnionCode THEN 20 ELSE 21)
           /\ code[(Len(code) - 1) + 1] = 5
<1>1. CASE code = FilterCode
  BY <1>1, FilterWords, UnionWords
<1>2. CASE code = UpdateCode
  BY <1>2, UpdateWords, UnionWords
<1>3. CASE code = AddCode
  BY <1>3, AddWords, UnionWords
<1>4. CASE code = UnionCode
  BY <1>4, UnionWords
<1> QED BY <1>1, <1>2, <1>3, <1>4 DEF Followed

LEMMA LabelsLoad ==
    ASSUME JoinsLabellings, NEW code \in Followed, LoadsLabels(code), Step,
           frames # Only(code, 5, LoadedA)
    PROVE  LoadsLabels(code)' /\ frames' # << >> /\ UNCHANGED <<committed, tx>>
<1>1. vectors = committed
  BY DEF LoadsLabels
<1>2. CASE frames = Only(code, 1, << >>)
  <2>1. /\ 1 \in Nat /\ 1 + 1 = 2 /\ 1 + 2 = 3 /\ 2 <= Len(code) /\ code[1] = 10 /\ code[2] = 4
        /\ Len(code) \in Nat
    BY FollowedBegin
  <2>2. Loadable(4) /\ vectors[4] = LabB
    BY <1>1, OperandsLoad
  <2>3. /\ frames' = Only(code, 3, Append(<< >>, Labels(LabB)))
        /\ UNCHANGED <<owner, vectors, committed, tx>>
    BY <1>2, <2>1, <2>2, LoadLabelsStep
  <2>4. frames' = Only(code, 3, <<Labels(LabB)>>)
    BY <2>3, TupleAppend
  <2>5. LabB' = LabB
    BY <2>3, SameOperands
  <2> QED BY <1>1, <2>3, <2>4, <2>5, OnlyRuns DEF LoadsLabels
<1>3. CASE frames = Only(code, 3, <<Labels(LabB)>>)
  <2>1. /\ 3 \in Nat /\ 3 + 1 = 4 /\ 3 + 2 = 5 /\ 4 <= Len(code) /\ code[3] = 10 /\ code[4] = 3
        /\ Len(code) \in Nat
    BY FollowedBegin
  <2>2. Loadable(3) /\ vectors[3] = LabA
    BY <1>1, OperandsLoad
  <2>3. /\ frames' = Only(code, 5, Append(<<Labels(LabB)>>, Labels(LabA)))
        /\ UNCHANGED <<owner, vectors, committed, tx>>
    BY <1>3, <2>1, <2>2, LoadLabelsStep
  <2>4. frames' = Only(code, 5, LoadedA)
    BY <2>3, TupleAppend DEF LoadedA
  <2>5. LoadedA' = LoadedA
    BY <2>3, SameOperands
  <2> QED BY <1>1, <2>3, <2>4, <2>5, OnlyRuns DEF LoadsLabels
<1> QED BY <1>2, <1>3 DEF LoadsLabels

LEMMA VectorsLoad ==
    ASSUME JoinsLabellings, NEW code \in Followed, code # UnionCode, vectors = committed, Step,
           frames = Only(code, 5, LoadedA) \/ frames = Only(code, 7, LoadedY)
    PROVE  LoadsVectors(code)' /\ frames' # << >> /\ UNCHANGED <<committed, tx>>
<1>1. CASE frames = Only(code, 5, LoadedA)
  <2>1. /\ 5 \in Nat /\ 5 + 1 = 6 /\ 5 + 2 = 7 /\ 6 <= Len(code) /\ code[5] = 11 /\ code[6] = 2
        /\ Len(code) \in Nat
    BY FollowedBegin
  <2>2. Loadable(2) /\ vectors[2] = VecY
    BY OperandsLoad
  <2>3. /\ frames' = Only(code, 7, Append(LoadedA, Vector(VecY)))
        /\ UNCHANGED <<owner, vectors, committed, tx>>
    BY <1>1, <2>1, <2>2, LoadVectorStep
  <2>4. frames' = Only(code, 7, LoadedY)
    BY <2>3, TupleAppend DEF LoadedA, LoadedY
  <2>5. LoadedY' = LoadedY
    BY <2>3, SameOperands
  <2> QED BY <2>3, <2>4, <2>5, OnlyRuns DEF LoadsVectors
<1>2. CASE frames = Only(code, 7, LoadedY)
  <2>1. /\ 7 \in Nat /\ 7 + 1 = 8 /\ 7 + 2 = 9 /\ 8 <= Len(code) /\ code[7] = 11 /\ code[8] = 1
        /\ Len(code) \in Nat
    BY FollowedBegin
  <2>2. Loadable(1) /\ vectors[1] = VecX
    BY OperandsLoad
  <2>3. /\ frames' = Only(code, 9, Append(LoadedY, Vector(VecX)))
        /\ UNCHANGED <<owner, vectors, committed, tx>>
    BY <1>2, <2>1, <2>2, LoadVectorStep
  <2>4. frames' = Only(code, 9, LoadedX)
    <3>1. Append(LoadedY, Vector(VecX)) = <<Labels(LabB), Labels(LabA), Vector(VecY), Vector(VecX)>>
      BY FourthAppended DEF LoadedY
    <3>2. LoadedX = <<Labels(LabB), Labels(LabA), Vector(VecY), Vector(VecX)>>
      BY DEF LoadedX, Stacked
    <3> QED BY <2>3, <3>1, <3>2
  <2>5. LoadedX' = LoadedX
    BY <2>3, SameOperands
  <2> QED BY <2>3, <2>4, <2>5, OnlyRuns DEF LoadsVectors
<1> QED BY <1>1, <1>2

\* The result is stored, and committed as it is stored.
CommitsResult(code, d) == vectors = Put(committed, IdLeft, d) /\ Commit /\ frames[1].code = code

LEMMA ResultStored ==
    ASSUME NEW code \in Followed, NEW stack, NEW d, Step, Len(stack) \in Nat \ {0},
           stack[Len(stack)] = IF code = UnionCode THEN Labels(d) ELSE Vector(d),
           Stores(code, stack, d)
    PROVE  \/ /\ vectors' = Put(committed, IdLeft, d) /\ UNCHANGED <<committed, tx>>
              /\ frames' = Only(code, Len(code) + 1, SubSeq(stack, 1, Len(stack) - 1))
           \/ CommitsResult(code, d)
<1> DEFINE n == Len(code) - 1
<1>1. /\ Len(code) \in Nat /\ n \in Nat /\ n + 1 <= Len(code) /\ n + 2 = Len(code) + 1
      /\ code[n] = (IF code = UnionCode THEN 20 ELSE 21) /\ code[n + 1] = 5
  BY FollowedBegin
<1>2. CASE vectors = committed /\ frames = Only(code, n, stack)
  <2>0. Len(stack) > 0
    OBVIOUS
  <2> HIDE DEF n
  <2>1. CASE code = UnionCode
    <3>1. stack[Len(stack)].kind = "Labels" /\ stack[Len(stack)].data = d
      BY <2>1, OperandFields
    <3>2. /\ frames' = Only(code, n + 2, SubSeq(stack, 1, Len(stack) - 1))
          /\ vectors' = Put(vectors, code[n + 1], stack[Len(stack)].data)
          /\ UNCHANGED <<owner, committed, tx>>
      BY <1>1, <1>2, <2>0, <2>1, <3>1, StoreLabelsStep
    <3> QED BY <1>1, <1>2, <3>1, <3>2 DEF IdLeft
  <2>2. CASE code # UnionCode
    <3>1. stack[Len(stack)].kind = "Vector" /\ stack[Len(stack)].data = d
      BY <2>2, OperandFields
    <3>2. /\ frames' = Only(code, n + 2, SubSeq(stack, 1, Len(stack) - 1))
          /\ vectors' = Put(vectors, code[n + 1], stack[Len(stack)].data)
          /\ UNCHANGED <<owner, committed, tx>>
      BY <1>1, <1>2, <2>0, <2>2, <3>1, StoreVectorStep
    <3> QED BY <1>1, <1>2, <3>1, <3>2 DEF IdLeft
  <2> QED BY <2>1, <2>2
<1>3. CASE /\ vectors = Put(committed, IdLeft, d)
           /\ frames = Only(code, Len(code) + 1, SubSeq(stack, 1, Len(stack) - 1))
  <2>1. Len(code) + 1 \in Nat /\ Len(code) + 1 > Len(code)
    BY <1>1
  <2>2. Commit
    BY <1>3, <2>1, EndStep
  <2>3. frames[1].code = code
    BY <1>3, OneCall
  <2> QED BY <1>3, <2>2, <2>3 DEF CommitsResult
<1> QED BY <1>2, <1>3 DEF Stores

\* What the three properties say of a step.
FilterHolds ==
    Ran({FilterCode}) =>
        IF Committing
        THEN /\ Covered
             /\ Len(Result) = Cardinality(Kept)
             /\ \A i \in Kept : Result[RankOf(i)] = VecX[i]
        ELSE ~ Covered
CombineHolds ==
    /\ Ran({UpdateCode}) => IF Committing THEN Covered /\ Result = Updated ELSE ~ Covered
    /\ Ran({AddCode})    => IF Committing THEN Covered /\ Result = Added
                            ELSE ~ (Covered /\ AllRepresentable(Added))
UnionHolds ==
    Ran({UnionCode}) =>
        /\ Committing
        /\ Ascending(Result)
        /\ ToSet(Result) \subseteq SetA \cup SetB
        /\ \A b \in SetB : b <= Last(LabA) => b \in ToSet(Result)
        /\ Cardinality(SetA \ ToSet(Result)) <= 1
Holds == FilterHolds /\ CombineHolds /\ UnionHolds

\* They ask nothing of a step that does not end one of the four programs.
LEMMA HoldsElsewhere ==
    ASSUME frames' # << >> \/ frames[1].code \notin Followed
    PROVE  Holds
BY DEF Holds, FilterHolds, CombineHolds, UnionHolds, Ran, Idle, Followed

LEMMA HoldsForFilter ==
    ASSUME frames[1].code = FilterCode,
           tx'.outcome = "done" => Restricts(committed'[IdLeft]),
           tx'.outcome # "done" => ~ Covered
    PROVE  Holds
BY OthersDiffer
   DEF Holds, FilterHolds, CombineHolds, UnionHolds, Ran, Committing, Result, Restricts

LEMMA HoldsForUpdate ==
    ASSUME frames[1].code = UpdateCode,
           tx'.outcome = "done" => Covered /\ committed'[IdLeft] = Updated,
           tx'.outcome # "done" => ~ Covered
    PROVE  Holds
BY OthersDiffer
   DEF Holds, FilterHolds, CombineHolds, UnionHolds, Ran, Committing, Result

LEMMA HoldsForAdd ==
    ASSUME frames[1].code = AddCode,
           tx'.outcome = "done" => Covered /\ committed'[IdLeft] = Added,
           tx'.outcome # "done" => ~ (Covered /\ AllRepresentable(Added))
    PROVE  Holds
BY OthersDiffer
   DEF Holds, FilterHolds, CombineHolds, UnionHolds, Ran, Committing, Result

LEMMA HoldsForUnion ==
    ASSUME frames[1].code = UnionCode, tx'.outcome = "done", StaysOrdered(committed'[IdLeft])
    PROVE  Holds
BY OthersDiffer
   DEF Holds, FilterHolds, CombineHolds, UnionHolds, Ran, Committing, Result, StaysOrdered

\* What a transaction of the user ends with.
LEMMA HowItEnds ==
    ASSUME JoinsLabellings
    PROVE  /\ \A code, d : CommitsResult(code, d) =>
                 /\ frames[1].code = code /\ frames' = << >>
                 /\ tx'.outcome = "done" /\ committed'[IdLeft] = d
           /\ Revert => frames' = << >> /\ tx'.outcome = "reverted"
<1>1. tx = [sender |-> User, outcome |-> "running"]
  BY DEF JoinsLabellings
<1>2. [tx EXCEPT !.outcome = "done"].outcome = "done"
  BY <1>1
<1>3. [tx EXCEPT !.outcome = "reverted"].outcome = "reverted"
  BY <1>1
<1>4. \A d : Put(committed, IdLeft, d)[IdLeft] = d
  BY DEF Put
<1> QED BY <1>2, <1>3, <1>4 DEF CommitsResult, Commit, Revert

\* A step after the join of two vectors.
LEMMA VectorsStored ==
    ASSUME JoinsLabellings, NEW code \in Followed, code # UnionCode, NEW d, Step,
           Stores(code, Stacked(LabB, LabA, VecY, Vector(d)), d)
    PROVE  \/ /\ Stores(code, Stacked(LabB, LabA, VecY, Vector(d)), d)'
              /\ frames' # << >> /\ UNCHANGED <<committed, tx>>
           \/ CommitsResult(code, d)
<1> DEFINE stack == Stacked(LabB, LabA, VecY, Vector(d))
<1>1. Len(stack) = 4 /\ stack[4] = Vector(d)
  BY StackedOperands DEF Stacked
<1>2. UNCHANGED committed => stack' = stack
  BY SameOperands
<1> HIDE DEF stack
<1>3. Stores(code, stack, d)
  BY DEF stack
<1>4. \/ /\ vectors' = Put(committed, IdLeft, d) /\ UNCHANGED <<committed, tx>>
         /\ frames' = Only(code, Len(code) + 1, SubSeq(stack, 1, Len(stack) - 1))
      \/ CommitsResult(code, d)
  <2>1. Len(stack) \in Nat \ {0}
    BY <1>1
  <2>2. stack[Len(stack)] = IF code = UnionCode THEN Labels(d) ELSE Vector(d)
    BY <1>1
  <2> QED BY <1>3, <2>1, <2>2, ResultStored
<1>5. CASE /\ vectors' = Put(committed, IdLeft, d) /\ UNCHANGED <<committed, tx>>
           /\ frames' = Only(code, Len(code) + 1, SubSeq(stack, 1, Len(stack) - 1))
  <2>1. Stores(code, stack, d)'
    BY <1>2, <1>5 DEF Stores
  <2> QED BY <1>5, <2>1, OnlyRuns DEF stack
<1> QED BY <1>4, <1>5

\* Every step but the join itself.
LEMMA VectorsFollowed ==
    ASSUME JoinsLabellings, NEW code \in Followed, code # UnionCode, NEW ok, NEW d, Step,
           JoinsVectors(code, ok, d), ~ (vectors = committed /\ frames = Only(code, 9, LoadedX))
    PROVE  \/ JoinsVectors(code, ok, d)' /\ frames' # << >> /\ UNCHANGED <<committed, tx>>
           \/ ok /\ CommitsResult(code, d)
<1>1. CASE LoadsLabels(code) /\ frames # Only(code, 5, LoadedA)
  BY <1>1, LabelsLoad DEF JoinsVectors
<1>2. CASE \/ LoadsLabels(code) /\ frames = Only(code, 5, LoadedA)
           \/ LoadsVectors(code)
  <2>1. vectors = committed
    BY <1>2 DEF LoadsLabels, LoadsVectors
  <2>2. frames = Only(code, 5, LoadedA) \/ frames = Only(code, 7, LoadedY)
    BY <1>2, <2>1 DEF LoadsVectors
  <2> QED BY <2>1, <2>2, VectorsLoad DEF JoinsVectors
<1>3. CASE ok /\ Stores(code, Stacked(LabB, LabA, VecY, Vector(d)), d)
  BY <1>3, VectorsStored DEF JoinsVectors
<1> QED BY <1>1, <1>2, <1>3 DEF JoinsVectors

LEMMA FilterFollowed ==
    ASSUME JoinsLabellings, FollowsFilter, Step
    PROVE  \/ FollowsFilter' /\ frames' # << >> /\ UNCHANGED <<committed, tx>>
           \/ frames' = << >> /\ Holds
<1>1. PICK ok, d : ok = FilterMade.ok /\ d = FilterMade.data
  OBVIOUS
<1>2. /\ ok \in BOOLEAN
      /\ ok => Restricts(d)
      /\ ~ ok => ~ Covered
  BY <1>1, FilterGives DEF FilterMade
<1>3. UNCHANGED committed => ok = FilterMade'.ok /\ d = FilterMade'.data
  BY <1>1, SameOperands
<1>4. FilterCode \in Followed /\ FilterCode # UnionCode
  BY OthersDiffer DEF Followed
<1>5. JoinsVectors(FilterCode, ok, d)
  BY <1>1 DEF FollowsFilter
<1>6. ASSUME JoinsVectors(FilterCode, ok, d)', UNCHANGED <<committed, tx>>
      PROVE  FollowsFilter'
  BY <1>3, <1>6 DEF FollowsFilter
<1>7. CASE vectors = committed /\ frames = Only(FilterCode, 9, LoadedX)
  <2>1. frames = Only(FilterCode, 9, Stacked(LabB, LabA, VecY, Vector(VecX)))
    BY <1>7 DEF LoadedX
  <2>2. /\ ok => /\ frames' = Only(FilterCode, 12, Stacked(LabB, LabA, VecY, Vector(d)))
                 /\ UNCHANGED <<owner, vectors, committed, tx>>
        /\ ~ ok => Revert
    BY <1>1, <1>2, <2>1, FilterRuns, WhatIsStored DEF FilterMade
  <2>3. CASE ok
    <3>1. Len(FilterCode) - 1 = 12
      BY FilterWords
    <3>2. LabA' = LabA /\ LabB' = LabB /\ VecY' = VecY
      BY <2>2, <2>3, SameOperands
    <3>3. JoinsVectors(FilterCode, ok, d)'
      BY <1>7, <2>2, <2>3, <3>1, <3>2 DEF JoinsVectors, Stores
    <3> QED BY <1>6, <2>2, <2>3, <3>3, OnlyRuns
  <2>4. CASE ~ ok
    <3>1. frames[1].code = FilterCode
      BY <2>1, OneCall
    <3> QED BY <1>2, <2>2, <2>4, <3>1, HowItEnds, HoldsForFilter
  <2> QED BY <1>2, <2>3, <2>4
<1>8. CASE ~ (vectors = committed /\ frames = Only(FilterCode, 9, LoadedX))
  <2>1. \/ /\ JoinsVectors(FilterCode, ok, d)'
           /\ frames' # << >> /\ UNCHANGED <<committed, tx>>
        \/ ok /\ CommitsResult(FilterCode, d)
    BY <1>4, <1>5, <1>8, VectorsFollowed
  <2>2. CASE ok /\ CommitsResult(FilterCode, d)
    BY <1>2, <2>2, HowItEnds, HoldsForFilter
  <2> QED BY <1>6, <2>1, <2>2
<1> QED BY <1>7, <1>8

LEMMA UpdateFollowed ==
    ASSUME JoinsLabellings, FollowsUpdate, Step
    PROVE  \/ FollowsUpdate' /\ frames' # << >> /\ UNCHANGED <<committed, tx>>
           \/ frames' = << >> /\ Holds
<1>1. PICK ok, d : ok = UpdateMade.ok /\ d = UpdateMade.data
  OBVIOUS
<1>2. /\ ok \in BOOLEAN
      /\ ok => Covered /\ d = Updated /\ AllRepresentable(d)
      /\ ~ ok => ~ Covered
  BY <1>1, UpdateGives DEF UpdateMade
<1>3. UNCHANGED committed => ok = UpdateMade'.ok /\ d = UpdateMade'.data
  BY <1>1, SameOperands
<1>4. UpdateCode \in Followed /\ UpdateCode # UnionCode
  BY OthersDiffer DEF Followed
<1>5. JoinsVectors(UpdateCode, ok, d)
  BY <1>1 DEF FollowsUpdate
<1>6. ASSUME JoinsVectors(UpdateCode, ok, d)', UNCHANGED <<committed, tx>>
      PROVE  FollowsUpdate'
  BY <1>3, <1>6 DEF FollowsUpdate
<1>7. CASE vectors = committed /\ frames = Only(UpdateCode, 9, LoadedX)
  <2>1. frames = Only(UpdateCode, 9, Stacked(LabB, LabA, VecY, Vector(VecX)))
    BY <1>7 DEF LoadedX
  <2>2. /\ ok => /\ frames' = Only(UpdateCode, 13, Stacked(LabB, LabA, VecY, Vector(d)))
                 /\ UNCHANGED <<owner, vectors, committed, tx>>
        /\ ~ ok => Revert
    BY <1>1, <1>2, <2>1, UpdateRuns, WhatIsStored DEF UpdateMade
  <2>3. CASE ok
    <3>1. Len(UpdateCode) - 1 = 13
      BY UpdateWords
    <3>2. LabA' = LabA /\ LabB' = LabB /\ VecY' = VecY
      BY <2>2, <2>3, SameOperands
    <3>3. JoinsVectors(UpdateCode, ok, d)'
      BY <1>7, <2>2, <2>3, <3>1, <3>2 DEF JoinsVectors, Stores
    <3> QED BY <1>6, <2>2, <2>3, <3>3, OnlyRuns
  <2>4. CASE ~ ok
    <3>1. frames[1].code = UpdateCode
      BY <2>1, OneCall
    <3> QED BY <1>2, <2>2, <2>4, <3>1, HowItEnds, HoldsForUpdate
  <2> QED BY <1>2, <2>3, <2>4
<1>8. CASE ~ (vectors = committed /\ frames = Only(UpdateCode, 9, LoadedX))
  <2>1. \/ /\ JoinsVectors(UpdateCode, ok, d)'
           /\ frames' # << >> /\ UNCHANGED <<committed, tx>>
        \/ ok /\ CommitsResult(UpdateCode, d)
    BY <1>4, <1>5, <1>8, VectorsFollowed
  <2>2. CASE ok /\ CommitsResult(UpdateCode, d)
    BY <1>2, <2>2, HowItEnds, HoldsForUpdate
  <2> QED BY <1>6, <2>1, <2>2
<1> QED BY <1>7, <1>8

LEMMA AddFollowed ==
    ASSUME JoinsLabellings, FollowsAdd, Step
    PROVE  \/ FollowsAdd' /\ frames' # << >> /\ UNCHANGED <<committed, tx>>
           \/ frames' = << >> /\ Holds
<1>1. PICK ok, d : ok = (AddMade.ok /\ AllRepresentable(AddMade.data)) /\ d = AddMade.data
  OBVIOUS
<1>2. /\ ok \in BOOLEAN
      /\ ok => Covered /\ d = Added
      /\ ~ ok => ~ (Covered /\ AllRepresentable(Added))
  BY <1>1, AddGives DEF AddMade
<1>3. /\ AddMade.ok \in BOOLEAN
      /\ UNCHANGED committed => /\ ok = (AddMade'.ok /\ AllRepresentable(AddMade'.data))
                                /\ d = AddMade'.data
  BY <1>1, AddGives, SameOperands DEF AddMade
<1>4. AddCode \in Followed /\ AddCode # UnionCode
  BY OthersDiffer DEF Followed
<1>5. JoinsVectors(AddCode, ok, d)
  BY <1>1 DEF FollowsAdd
<1>6. ASSUME JoinsVectors(AddCode, ok, d)', UNCHANGED <<committed, tx>>
      PROVE  FollowsAdd'
  BY <1>3, <1>6 DEF FollowsAdd
<1>7. CASE vectors = committed /\ frames = Only(AddCode, 9, LoadedX)
  <2>1. frames = Only(AddCode, 9, Stacked(LabB, LabA, VecY, Vector(VecX)))
    BY <1>7 DEF LoadedX
  <2>2. /\ ok => /\ frames' = Only(AddCode, 13, Stacked(LabB, LabA, VecY, Vector(d)))
                 /\ UNCHANGED <<owner, vectors, committed, tx>>
        /\ ~ ok => Revert
    BY <1>1, <1>3, <2>1, AddRuns, WhatIsStored DEF AddMade
  <2>3. CASE ok
    <3>1. Len(AddCode) - 1 = 13
      BY AddWords
    <3>2. LabA' = LabA /\ LabB' = LabB /\ VecY' = VecY
      BY <2>2, <2>3, SameOperands
    <3>3. JoinsVectors(AddCode, ok, d)'
      BY <1>7, <2>2, <2>3, <3>1, <3>2 DEF JoinsVectors, Stores
    <3> QED BY <1>6, <2>2, <2>3, <3>3, OnlyRuns
  <2>4. CASE ~ ok
    <3>1. frames[1].code = AddCode
      BY <2>1, OneCall
    <3> QED BY <1>2, <2>2, <2>4, <3>1, HowItEnds, HoldsForAdd
  <2> QED BY <1>2, <2>3, <2>4
<1>8. CASE ~ (vectors = committed /\ frames = Only(AddCode, 9, LoadedX))
  <2>1. \/ /\ JoinsVectors(AddCode, ok, d)'
           /\ frames' # << >> /\ UNCHANGED <<committed, tx>>
        \/ ok /\ CommitsResult(AddCode, d)
    BY <1>4, <1>5, <1>8, VectorsFollowed
  <2>2. CASE ok /\ CommitsResult(AddCode, d)
    BY <1>2, <2>2, HowItEnds, HoldsForAdd
  <2> QED BY <1>6, <2>1, <2>2
<1> QED BY <1>7, <1>8

LEMMA UnionFollowed ==
    ASSUME JoinsLabellings, FollowsUnion, Step
    PROVE  \/ FollowsUnion' /\ frames' # << >> /\ UNCHANGED <<committed, tx>>
           \/ frames' = << >> /\ Holds
<1>1. UnionCode \in Followed
  BY DEF Followed
<1> DEFINE stack == <<Labels(LabB), Labels(UnionMade)>>
<1>2. CASE LoadsLabels(UnionCode) /\ frames # Only(UnionCode, 5, LoadedA)
  BY <1>1, <1>2, LabelsLoad DEF FollowsUnion
<1>3. CASE LoadsLabels(UnionCode) /\ frames = Only(UnionCode, 5, LoadedA)
  <2>1. vectors = committed
    BY <1>3 DEF LoadsLabels
  <2>2. frames = Only(UnionCode, 5, <<Labels(LabB), Labels(LabA)>>)
    BY <1>3 DEF LoadedA
  <2>3. /\ frames' = Only(UnionCode, 7, stack)
        /\ UNCHANGED <<owner, vectors, committed, tx>>
    BY <2>2, UnionRuns DEF UnionMade
  <2>4. LabB' = LabB /\ UnionMade' = UnionMade
    BY <2>3, SameOperands
  <2>5. Len(UnionCode) - 1 = 7
    BY UnionWords
  <2>6. FollowsUnion'
    BY <2>1, <2>3, <2>4, <2>5 DEF FollowsUnion, Stores
  <2> QED BY <2>3, <2>6, OnlyRuns
<1>4. CASE Stores(UnionCode, stack, UnionMade)
  <2>1. PICK s, d : s = stack /\ d = UnionMade
    OBVIOUS
  <2>2. Len(s) \in Nat \ {0} /\ s[Len(s)] = Labels(d)
    BY <2>1
  <2>3. UNCHANGED committed => s = stack' /\ d = UnionMade'
    <3>1. UNCHANGED committed => LabB' = LabB /\ UnionMade' = UnionMade
      BY SameOperands
    <3> QED BY <2>1, <3>1
  <2>4. Stores(UnionCode, s, d)
    BY <1>4, <2>1
  <2>5. StaysOrdered(d)
    BY <2>1, UnionGives DEF UnionMade
  <2> HIDE DEF stack
  <2>6. \/ /\ vectors' = Put(committed, IdLeft, d) /\ UNCHANGED <<committed, tx>>
           /\ frames' = Only(UnionCode, Len(UnionCode) + 1, SubSeq(s, 1, Len(s) - 1))
        \/ CommitsResult(UnionCode, d)
    BY <1>1, <2>2, <2>4, ResultStored
  <2>7. CASE /\ vectors' = Put(committed, IdLeft, d) /\ UNCHANGED <<committed, tx>>
             /\ frames' = Only(UnionCode, Len(UnionCode) + 1, SubSeq(s, 1, Len(s) - 1))
    <3>1. Stores(UnionCode, stack, UnionMade)'
      BY <2>3, <2>7 DEF Stores
    <3> QED BY <2>7, <3>1, OnlyRuns DEF FollowsUnion, stack
  <2>8. CASE CommitsResult(UnionCode, d)
    BY <2>5, <2>8, HowItEnds, HoldsForUnion
  <2> QED BY <2>6, <2>7, <2>8
<1> QED BY <1>2, <1>3, <1>4 DEF FollowsUnion

-----------------------------------------------------------------------------
(***************************************************************************)
(* The invariant of the laws, and what it gives.                           *)
(***************************************************************************)
LEMMA LawsInvInit == LawsInit => LawsInv
<1>1. ASSUME NEW code, NEW operands, Started(code, operands)
      PROVE  /\ Calls /\ frames[1].code = code
             /\ frames = Only(code, 1, << >>) /\ vectors = committed
             /\ committed = operands /\ tx = [sender |-> User, outcome |-> "running"]
  <2> DEFINE f == Frame(code, 1, NewStack(1), 0, << >>)
  <2>1. frames = <<f>> /\ f.code = code /\ IsCall(f)
    BY <1>1, FrameIsCall DEF Started
  <2>2. NewStack(1) = Holding(<< >>)
    BY DEF NewStack, Holding
  <2>3. frames = Only(code, 1, << >>)
    BY <2>1, <2>2 DEF Only
  <2> HIDE DEF f
  <2>4. frames[1].code = code /\ frames # << >>
    BY <2>1
  <2>5. frames \in Seq({f}) /\ \A g \in {f} : IsCall(g)
    BY <2>1
  <2>6. Calls
    <3>1. \E S : frames \in Seq(S) /\ \A g \in S : IsCall(g)
      BY <2>5
    <3> QED BY <2>4, <3>1 DEF Calls
  <2> QED BY <1>1, <2>3, <2>4, <2>6 DEF Started
<1>2. ASSUME NEW code \in LawCodes, NEW operands, Started(code, operands)
      PROVE  LawsInv
  BY <1>1, <1>2, OthersDiffer DEF LawsInv
<1>3. ASSUME NEW code \in JoinCodes, NEW a \in Labellings, NEW b \in Labellings,
             Started(code, Operands([i \in DOMAIN a |-> ValueA(a[i])],
                                    [i \in DOMAIN b |-> ValueB(b[i])], a, b))
      PROVE  LawsInv
  <2> DEFINE operands == Operands([i \in DOMAIN a |-> ValueA(a[i])],
                                  [i \in DOMAIN b |-> ValueB(b[i])], a, b)
  <2>1. /\ Calls /\ frames[1].code = code
        /\ frames = Only(code, 1, << >>) /\ vectors = committed
        /\ committed = operands /\ tx = [sender |-> User, outcome |-> "running"]
    <3>1. Started(code, operands)
      BY <1>3
    <3> HIDE DEF operands
    <3> QED BY <1>1, <3>1
  <2>2. JoinsLabellings
    BY <2>1 DEF JoinsLabellings
  <2>3. LoadsLabels(code)
    BY <2>1 DEF LoadsLabels
  <2>4. CASE code = SameLabelsCode
    BY <2>1, <2>4, OthersDiffer DEF LawsInv
  <2>5. CASE code # SameLabelsCode
    <3>1. code \in {FilterCode, UpdateCode, AddCode, UnionCode}
      BY <2>5 DEF JoinCodes
    <3>2. FollowsFilter \/ FollowsUpdate \/ FollowsAdd \/ FollowsUnion
      BY <2>3, <3>1 DEF FollowsFilter, FollowsUpdate, FollowsAdd, FollowsUnion, JoinsVectors
    <3> QED BY <2>2, <3>2 DEF LawsInv, Follows
  <2> QED BY <2>4, <2>5
<1> QED BY <1>2, <1>3 DEF LawsInit

\* Every step keeps the invariant and does what the properties say.
LEMMA LawsInvStep ==
    ASSUME LawsInv, Step
    PROVE  LawsInv' /\ Holds
<1>1. CASE Idle
  <2>1. FALSE
    <3>1. ~ \E mnemonic : Fetch(mnemonic)
      BY <1>1 DEF Fetch
    <3>2. \A mnemonic, outcomes : ~ Instruction(mnemonic, outcomes)
      BY <3>1 DEF Instruction
    <3>3. \A mnemonic, id, kind : ~ Store(mnemonic, id, kind)
      BY <3>1 DEF Store
    <3>4. ~ LoadsAndStores
      BY <3>2, <3>3 DEF LoadsAndStores, LDL, LDV, STL, STV, LDD, LDR, LDM, STR, POPN, SWAP
    <3>5. ~ Structures
      BY <3>2 DEF Structures, PKV, PKL, UNPK, T, VPUSH, VPOP, LPUSH, LPOP
    <3>6. ~ JoinsOfLabels
      BY <3>2 DEF JoinsOfLabels, LUNION, JUPD, JADD, JFLT
    <3>7. ~ Arithmetic
      BY <3>2 DEF Arithmetic, ADD, SUB, SSB, MUL, DIV, SQRT, MIN, MAXOP
    <3>8. ~ Aggregates /\ ~ Immediates
      BY <3>2 DEF Aggregates, VSUM, VMIN, VMAX, Immediates, IMMS, IMML, ZEROS, ONES
    <3>9. Len(frames) = 0
      BY <1>1 DEF Idle
    <3>10. ~ ControlFlow
      BY <1>1, <3>1, <3>9 DEF ControlFlow, B, FOLD, FoldNext, Return, End, Malfunction
    <3> QED BY <3>4, <3>5, <3>6, <3>7, <3>8, <3>10 DEF Step
  <2> QED BY <2>1
<1>2. CASE Calls /\ frames[1].code \notin Followed
  <2>1. Keeps
    BY <1>2, StepKeeps
  <2>2. LawsInv'
    BY <1>2, <2>1 DEF LawsInv, Keeps, Idle, Followed
  <2> QED BY <1>2, <2>2, HoldsElsewhere
<1>3. CASE Follows
  <2>1. JoinsLabellings
    BY <1>3 DEF Follows
  <2>2. \/ /\ FollowsFilter' \/ FollowsUpdate' \/ FollowsAdd' \/ FollowsUnion'
           /\ frames' # << >> /\ UNCHANGED <<committed, tx>>
        \/ frames' = << >> /\ Holds
    BY <1>3, <2>1, FilterFollowed, UpdateFollowed, AddFollowed, UnionFollowed DEF Follows
  <2>3. CASE frames' # << >>
    <3>1. JoinsLabellings'
      BY <2>1, <2>2, <2>3, StillJoins
    <3>2. Follows'
      BY <2>2, <2>3, <3>1 DEF Follows
    <3> QED BY <2>3, <3>2, HoldsElsewhere DEF LawsInv
  <2>4. CASE frames' = << >>
    BY <2>2, <2>4 DEF LawsInv, Idle
  <2> QED BY <2>3, <2>4
<1> QED BY <1>1, <1>2, <1>3 DEF LawsInv

LEMMA LawsInvStutters ==
    ASSUME LawsInv, UNCHANGED vars
    PROVE  LawsInv'
<1>1. UNCHANGED <<owner, vectors, committed, frames, tx>>
  BY DEF vars
<1>2. CASE Idle
  BY <1>1, <1>2 DEF LawsInv, Idle
<1>3. CASE Calls /\ frames[1].code \notin Followed
  BY <1>1, <1>3 DEF LawsInv, Calls, Followed
<1>4. CASE Follows
  <2>1. JoinsLabellings'
    BY <1>1, <1>4, StillJoins DEF Follows
  <2>2. /\ LabA' = LabA /\ LabB' = LabB /\ VecX' = VecX /\ VecY' = VecY
        /\ FilterMade' = FilterMade /\ UpdateMade' = UpdateMade
        /\ AddMade' = AddMade /\ UnionMade' = UnionMade
        /\ LoadedA' = LoadedA /\ LoadedY' = LoadedY /\ LoadedX' = LoadedX
    BY <1>1, SameOperands
  <2>3. \A code : LoadsLabels(code) => LoadsLabels(code)'
    BY <1>1, <2>2 DEF LoadsLabels
  <2>4. \A code : LoadsVectors(code) => LoadsVectors(code)'
    BY <1>1, <2>2 DEF LoadsVectors
  <2>5. \A code, stack, d : Stores(code, stack, d) => Stores(code, stack, d)'
    BY <1>1 DEF Stores
  <2>6. ASSUME NEW code, NEW ok, NEW d, JoinsVectors(code, ok, d)
        PROVE  JoinsVectors(code, ok, d)'
    <3>1. PICK stack : stack = Stacked(LabB, LabA, VecY, Vector(d))
      OBVIOUS
    <3>2. stack = Stacked(LabB, LabA, VecY, Vector(d))'
      BY <2>2, <3>1
    <3> QED BY <2>3, <2>4, <2>5, <2>6, <3>1, <3>2 DEF JoinsVectors
  <2>7. FollowsFilter => FollowsFilter'
    <3>1. PICK ok, d : ok = FilterMade.ok /\ d = FilterMade.data
      OBVIOUS
    <3>2. ok = FilterMade'.ok /\ d = FilterMade'.data
      BY <2>2, <3>1
    <3> QED BY <2>6, <3>1, <3>2 DEF FollowsFilter
  <2>8. FollowsUpdate => FollowsUpdate'
    <3>1. PICK ok, d : ok = UpdateMade.ok /\ d = UpdateMade.data
      OBVIOUS
    <3>2. ok = UpdateMade'.ok /\ d = UpdateMade'.data
      BY <2>2, <3>1
    <3> QED BY <2>6, <3>1, <3>2 DEF FollowsUpdate
  <2>9. FollowsAdd => FollowsAdd'
    <3>1. PICK ok, d : ok = (AddMade.ok /\ AllRepresentable(AddMade.data)) /\ d = AddMade.data
      OBVIOUS
    <3>2. ok = (AddMade'.ok /\ AllRepresentable(AddMade'.data)) /\ d = AddMade'.data
      BY <2>2, <3>1
    <3> QED BY <2>6, <3>1, <3>2 DEF FollowsAdd
  <2>10. FollowsUnion => FollowsUnion'
    <3>1. PICK stack, d : stack = <<Labels(LabB), Labels(UnionMade)>> /\ d = UnionMade
      OBVIOUS
    <3>2. stack = <<Labels(LabB), Labels(UnionMade)>>' /\ d = UnionMade'
      BY <2>2, <3>1
    <3> QED BY <2>3, <2>5, <3>1, <3>2 DEF FollowsUnion
  <2>11. Follows'
    BY <1>4, <2>1, <2>7, <2>8, <2>9, <2>10 DEF Follows
  <2> QED BY <2>11 DEF LawsInv
<1> QED BY <1>2, <1>3, <1>4 DEF LawsInv

\* Every transaction of the laws ends as the properties say, whatever the
\* labels, the values and the vectors are.
LEMMA LawsKeep == LawsSpec => [][LawsInv /\ Holds]_vars
<1>1. LawsInit => LawsInv
  BY LawsInvInit
<1>2. LawsInv /\ [Step]_vars => LawsInv'
  BY LawsInvStep, LawsInvStutters
<1>3. LawsInv /\ [Step]_vars => [LawsInv /\ Holds]_vars
  BY LawsInvStep
<1> QED BY <1>1, <1>2, <1>3, PTL DEF LawsSpec

\* JFLT (program.rs) keeps, in their order, exactly the values whose labels
\* are in B, and fails exactly when B has a label missing among those of A.
THEOREM FiltersRestrict == LawsSpec => FilterRestricts
BY LawsKeep, PTL DEF FilterRestricts, Holds, FilterHolds

\* JUPD (program.rs) replaces exactly the values of the labels of B, JADD adds
\* to exactly these, and both fail only for a missing label or an overflow.
THEOREM UpdatesCombine == LawsSpec => JoinsCombine
BY LawsKeep, PTL DEF JoinsCombine, Holds, CombineHolds

\* LUNION (program.rs) never fails on labels, leaves them ascending, keeps the
\* labels of B up to the last of A and loses at most one label of A.
THEOREM UnionsStayOrdered == LawsSpec => UnionStaysOrdered
BY LawsKeep, PTL DEF UnionStaysOrdered, Holds, UnionHolds

=============================================================================
