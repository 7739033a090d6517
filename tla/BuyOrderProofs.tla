--------------------------- MODULE BuyOrderProofs ---------------------------
(***************************************************************************)
(* Proofs about BuyOrderVM: the buy order program and its subroutine never *)
(* read an empty operand and leave the stack empty.                        *)
(*                                                                         *)
(* The argument is the one a type checker would make.  A shape says how    *)
(* deep the stack is before an instruction, which registers hold a value   *)
(* and whether the top of the stack is three words long.  An instruction   *)
(* that Fits between two shapes takes every machine of the first to one of *)
(* the second, or its transaction reverts: that is proved once, for any    *)
(* program.  The two programs fit their shapes, line by line.              *)
(***************************************************************************)
EXTENDS BuyOrderVM, DevilProofs

-----------------------------------------------------------------------------
(***************************************************************************)
(* Instructions and their words.                                           *)
(***************************************************************************)

\* An instruction: a mnemonic and its arguments.
IsInstruction(i) ==
    /\ i[1] \in Mnemonics
    /\ \/ Arity(i[1]) = 0 /\ i = <<i[1]>>
       \/ /\ Arity(i[1]) = 1 /\ i = <<i[1], i[2]>>
          /\ NamesRegister(i) \/ i[2] \in Nat
       \/ /\ Arity(i[1]) = 2 /\ i = <<i[1], i[2], i[3]>>
          /\ i[2] \in Nat /\ i[3] \in Nat
       \/ /\ Arity(i[1]) = 3 /\ i = <<i[1], i[2], i[3], i[4]>>
          /\ i[2] \in Nat /\ i[3] \in Nat /\ i[4] \in Nat
       \/ /\ Arity(i[1]) = 4 /\ i = <<i[1], i[2], i[3], i[4], i[5]>>
          /\ i[2] \in Nat /\ i[3] \in Nat /\ i[4] \in Nat /\ i[5] \in Nat

IsProgram(program) ==
    /\ Len(program) \in Nat /\ Len(program) < 100
    /\ DOMAIN program = 1 .. Len(program)
    /\ \A n \in 1 .. Len(program) : IsInstruction(program[n])

\* What an instruction assembles to.
Assembled(instruction, words) ==
    /\ words \in Seq(Nat)
    /\ Len(words) = 1 + Arity(instruction[1])
    /\ words[1] = Opcode[instruction[1]]
    /\ ~ NamesRegister(instruction) /\ ~ HoldsAmount(instruction) =>
          \A k \in 2 .. 1 + Arity(instruction[1]) : words[k] = instruction[k]

LEMMA NamesOne ==
    ASSUME NEW i, NamesRegister(i) \/ HoldsAmount(i)
    PROVE  Arity(i[1]) = 1
BY DEF NamesRegister, HoldsAmount, Arity

LEMMA OpcodesAreNat == \A x \in Mnemonics : Opcode[x] \in Nat
BY DEF Opcode, Mnemonics

LEMMA FirstNumbers ==
    ASSUME NEW h \in Nat
    PROVE  IsFiniteSet(1 .. h) /\ Cardinality(1 .. h) = h
<1>1. \A a, b \in Int : /\ IsFiniteSet(a .. b)
                        /\ Cardinality(a .. b) = IF a > b THEN 0 ELSE b - a + 1
  BY FS_Interval
<1>2. IsFiniteSet(1 .. h) /\ Cardinality(1 .. h) = IF 1 > h THEN 0 ELSE h - 1 + 1
  BY <1>1
<1> QED BY <1>2

\* A register's number counts the names before it: fewer than there are lines.
LEMMA RegisterBound ==
    ASSUME NEW program, IsProgram(program),
           NEW n \in 1 .. Len(program), NamesRegister(program[n])
    PROVE  /\ Namings(program, program[n][2]) \in SUBSET (1 .. Len(program))
           /\ n \in Namings(program, program[n][2])
           /\ RegisterOf(program, program[n][2]) \in 0 .. 99
<1> DEFINE name  == program[n][2]
           first == Min(Namings(program, name))
           lines == {j \in 1 .. first - 1 : NamesRegister(program[j])}
           names == {program[i][2] : i \in lines}
<1>1. Len(program) \in Nat /\ Len(program) < 100 /\ DOMAIN program = 1 .. Len(program)
  BY DEF IsProgram
<1>2. /\ Namings(program, name) \in SUBSET (1 .. Len(program))
      /\ n \in Namings(program, name)
  BY <1>1 DEF Namings
<1>3. first \in 1 .. Len(program)
  BY <1>1, <1>2, MinProperty
<1>4. IsFiniteSet(1 .. first - 1) /\ Cardinality(1 .. first - 1) = first - 1
  <2> HIDE DEF first
  <2>1. first \in Nat \ {0}
    BY <1>1, <1>3
  <2>2. first - 1 \in Nat
    BY <2>1
  <2> QED BY <2>2, FirstNumbers
<1>5. lines \in SUBSET (1 .. first - 1)
  OBVIOUS
<1>6. IsFiniteSet(lines) /\ Cardinality(lines) <= first - 1
  BY <1>4, <1>5, FS_Subset
<1>7. [i \in lines |-> program[i][2]] \in Surjection(lines, names)
  BY DEF Surjection
<1>8. IsFiniteSet(names) /\ Cardinality(names) <= Cardinality(lines)
  BY <1>6, <1>7, FS_Surjection
<1>9. Cardinality(names) \in Nat /\ Cardinality(lines) \in Nat
  BY <1>6, <1>8, FS_CardinalityType
<1>10. RegisterOf(program, name) = Cardinality(names)
  BY DEF RegisterOf
<1> HIDE DEF first, lines, names
<1>11. first \in Nat /\ first <= Len(program)
  BY <1>1, <1>3
<1>12. Cardinality(names) <= first - 1
  BY <1>6, <1>8, <1>9, <1>11
<1>13. Cardinality(names) <= 99
  BY <1>1, <1>9, <1>11, <1>12
<1>14. ASSUME NEW c \in Nat, c <= 99 PROVE c \in 0 .. 99
  BY <1>14
<1>15. RegisterOf(program, name) \in 0 .. 99
  BY <1>9, <1>10, <1>13, <1>14
<1> QED BY <1>2, <1>15

\* Two names have two registers.
LEMMA RegistersDiffer ==
    ASSUME NEW program, IsProgram(program),
           NEW n \in 1 .. Len(program), NamesRegister(program[n]),
           NEW k \in 1 .. Len(program), NamesRegister(program[k]),
           program[n][2] # program[k][2]
    PROVE  RegisterOf(program, program[n][2]) # RegisterOf(program, program[k][2])
<1> DEFINE first(name) == Min(Namings(program, name))
           lines(name) == {j \in 1 .. first(name) - 1 : NamesRegister(program[j])}
           names(name) == {program[i][2] : i \in lines(name)}
<1>1. Len(program) \in Nat /\ DOMAIN program = 1 .. Len(program)
  BY DEF IsProgram
<1>2. ASSUME NEW i \in 1 .. Len(program), NamesRegister(program[i])
      PROVE  /\ first(program[i][2]) \in 1 .. Len(program)
             /\ NamesRegister(program[first(program[i][2])])
             /\ program[first(program[i][2])][2] = program[i][2]
             /\ \A j \in 1 .. Len(program) :
                   NamesRegister(program[j]) /\ program[j][2] = program[i][2]
                       => first(program[i][2]) <= j
             /\ IsFiniteSet(names(program[i][2]))
             /\ RegisterOf(program, program[i][2]) = Cardinality(names(program[i][2]))
  <2> DEFINE x == program[i][2]
  <2>1. Namings(program, x) \in SUBSET (1 .. Len(program)) /\ Namings(program, x) # {}
    BY <1>2, RegisterBound
  <2>2. first(x) \in Namings(program, x) /\ \A j \in Namings(program, x) : first(x) <= j
    BY <1>1, <2>1, MinProperty
  <2>3. first(x) \in 1 .. Len(program)
    BY <2>1, <2>2
  <2>4. IsFiniteSet(1 .. first(x) - 1) /\ lines(x) \in SUBSET (1 .. first(x) - 1)
    <3>1. first(x) - 1 \in Int
      <4> HIDE DEF first
      <4> QED BY <1>1, <2>3
    <3> QED BY <3>1, FS_Interval
  <2>5. IsFiniteSet(lines(x))
    BY <2>4, FS_Subset
  <2>6. [l \in lines(x) |-> program[l][2]] \in Surjection(lines(x), names(x))
    BY DEF Surjection
  <2>7. IsFiniteSet(names(x))
    BY <2>5, <2>6, FS_Surjection
  <2>8. RegisterOf(program, x) = Cardinality(names(x))
    BY DEF RegisterOf
  <2>9. \A j \in 1 .. Len(program) :
           NamesRegister(program[j]) /\ program[j][2] = x => j \in Namings(program, x)
    BY <1>1 DEF Namings
  <2>10. NamesRegister(program[first(x)]) /\ program[first(x)][2] = x
    BY <2>2 DEF Namings
  <2> HIDE DEF x, first, lines, names
  <2>11. \A j \in 1 .. Len(program) :
           NamesRegister(program[j]) /\ program[j][2] = x => first(x) <= j
    BY <2>2, <2>9
  <2> QED BY <2>3, <2>7, <2>8, <2>10, <2>11 DEF x
<1>3. ASSUME NEW i \in 1 .. Len(program), NamesRegister(program[i]),
             NEW j \in 1 .. Len(program), NamesRegister(program[j]),
             first(program[i][2]) < first(program[j][2])
      PROVE  RegisterOf(program, program[i][2]) # RegisterOf(program, program[j][2])
  <2> DEFINE x == program[i][2]
             y == program[j][2]
  <2>1. /\ first(x) \in Nat /\ first(y) \in Nat /\ first(x) \in 1 .. first(y) - 1
        /\ first(x) \in 1 .. Len(program)
    <3>1. first(x) \in 1 .. Len(program) /\ first(y) \in 1 .. Len(program)
      BY <1>2, <1>3
    <3>2. first(x) < first(y)
      BY <1>3
    <3> HIDE DEF first
    <3> QED BY <1>1, <3>1, <3>2
  <2>2. first(x) \in lines(y)
    BY <1>2, <1>3, <2>1
  <2>3. x \in names(y)
    BY <1>2, <1>3, <2>2
  <2>4. x \notin names(x)
    <3>1. SUFFICES ASSUME NEW l \in lines(x), program[l][2] = x PROVE FALSE
      OBVIOUS
    <3>2. l \in 1 .. Len(program) /\ l < first(x) /\ NamesRegister(program[l])
      BY <1>1, <2>1
    <3>3. first(x) <= l
      BY <1>2, <1>3, <3>1, <3>2
    <3> QED BY <1>1, <2>1, <3>2, <3>3
  <2>5. lines(x) \subseteq lines(y)
    BY <2>1
  <2>6. names(x) \in SUBSET names(y)
    BY <2>5
  <2>7. IsFiniteSet(names(y))
    BY <1>2, <1>3
  <2>8. Cardinality(names(y)) # Cardinality(names(x))
    BY <2>3, <2>4, <2>6, <2>7, FS_Subset
  <2> QED BY <1>2, <1>3, <2>8
<1>4. first(program[n][2]) # first(program[k][2])
  BY <1>2
<1>5. first(program[n][2]) \in Nat /\ first(program[k][2]) \in Nat
  <2>1. /\ first(program[n][2]) \in 1 .. Len(program)
        /\ first(program[k][2]) \in 1 .. Len(program)
    BY <1>2
  <2> HIDE DEF first
  <2> QED BY <1>1, <2>1
<1>6. \/ first(program[n][2]) < first(program[k][2])
      \/ first(program[k][2]) < first(program[n][2])
  BY <1>4, <1>5
<1> HIDE DEF first
<1> QED BY <1>3, <1>6

\* Every instruction of a program assembles to its op code and its arguments.
LEMMA WordsOf ==
    ASSUME NEW program, IsProgram(program), NEW n \in 1 .. Len(program)
    PROVE  Assembled(program[n], Words(program, program[n]))
<1> DEFINE i    == program[n]
           args == CASE NamesRegister(i) -> <<RegisterOf(program, i[2])>>
                     [] HoldsAmount(i)   -> <<i[2] * SCALE>>
                     [] OTHER            -> Tail(i)
<1>1. IsInstruction(i)
  BY DEF IsProgram
<1>2. Opcode[i[1]] \in Nat /\ Arity(i[1]) \in 0 .. 4
  BY <1>1, OpcodesAreNat, ArityType DEF IsInstruction
<1>3. SCALE \in Nat
  BY AmountAssumption DEF SCALE
<1>4. /\ args \in Seq(Nat) /\ Len(args) = Arity(i[1])
      /\ ~ NamesRegister(i) /\ ~ HoldsAmount(i) =>
            \A k \in 1 .. Arity(i[1]) : args[k] = i[k + 1]
  <2> HIDE DEF i
  <2>1. CASE NamesRegister(i)
    <3>1. RegisterOf(program, i[2]) \in 0 .. 99
      BY <2>1, RegisterBound DEF i
    <3>2. Arity(i[1]) = 1
      BY <2>1, NamesOne
    <3>3. ~ HoldsAmount(i)
      BY <2>1 DEF NamesRegister, HoldsAmount
    <3>4. args = <<RegisterOf(program, i[2])>>
      BY <2>1, <3>3
    <3> HIDE DEF args
    <3>5. \A r \in 0 .. 99 : <<r>> \in Seq(Nat) /\ Len(<<r>>) = 1
      OBVIOUS
    <3> QED BY <2>1, <3>1, <3>2, <3>5, <3>4
  <2>2. CASE HoldsAmount(i) /\ ~ NamesRegister(i)
    <3>1. Arity(i[1]) = 1 /\ i[2] \in Nat
      BY <1>1, <2>2, NamesOne DEF IsInstruction
    <3>2. args = <<i[2] * SCALE>>
      BY <2>2
    <3>3. i[2] * SCALE \in Nat
      BY <1>3, <3>1
    <3> HIDE DEF args
    <3> QED BY <2>2, <3>1, <3>2, <3>3
  <2>3. CASE ~ HoldsAmount(i) /\ ~ NamesRegister(i)
    <3>1. args = Tail(i)
      BY <2>3
    <3> HIDE DEF args
    <3>2. CASE Arity(i[1]) = 0
      <4>1. i = <<i[1]>>
        BY <1>1, <3>2 DEF IsInstruction
      <4>2. \A a : Tail(<<a>>) = << >>
        OBVIOUS
      <4>3. args = << >>
        BY <3>1, <4>1, <4>2
      <4>4. << >> \in Seq(Nat) /\ Len(<< >>) = 0 /\ 1 .. 0 = {}
        OBVIOUS
      <4> QED BY <3>2, <4>3, <4>4
    <3>3. CASE Arity(i[1]) = 1
      <4>1. i = <<i[1], i[2]>> /\ i[2] \in Nat
        BY <1>1, <2>3, <3>3 DEF IsInstruction
      <4>2. \A a, b : Tail(<<a, b>>) = <<b>>
        OBVIOUS
      <4>3. args = <<i[2]>>
        BY <3>1, <4>1, <4>2
      <4> QED BY <3>3, <4>1, <4>3
    <3>4. CASE Arity(i[1]) = 2
      <4>1. i = <<i[1], i[2], i[3]>> /\ i[2] \in Nat /\ i[3] \in Nat
        BY <1>1, <3>4 DEF IsInstruction
      <4>2. \A a, b, c : Tail(<<a, b, c>>) = <<b, c>>
        OBVIOUS
      <4>3. args = <<i[2], i[3]>>
        BY <3>1, <4>1, <4>2
      <4> QED BY <3>4, <4>1, <4>3
    <3>5. CASE Arity(i[1]) = 3
      <4>1. i = <<i[1], i[2], i[3], i[4]>> /\ i[2] \in Nat /\ i[3] \in Nat /\ i[4] \in Nat
        BY <1>1, <3>5 DEF IsInstruction
      <4>2. \A a, b, c, d : Tail(<<a, b, c, d>>) = <<b, c, d>>
        OBVIOUS
      <4>3. PICK a, b, c, d : i = <<a, b, c, d>>
        BY <4>1
      <4>4. args = <<b, c, d>>
        BY <3>1, <4>2, <4>3
      <4>5. i[2] = b /\ i[3] = c /\ i[4] = d
        BY <4>3
      <4> QED BY <3>5, <4>1, <4>4, <4>5
    <3>6. CASE Arity(i[1]) = 4
      <4>1. /\ i = <<i[1], i[2], i[3], i[4], i[5]>>
            /\ i[2] \in Nat /\ i[3] \in Nat /\ i[4] \in Nat /\ i[5] \in Nat
        BY <1>1, <3>6 DEF IsInstruction
      <4>2. \A a, b, c, d, e : Tail(<<a, b, c, d, e>>) = <<b, c, d, e>>
        OBVIOUS
      <4>3. PICK a, b, c, d, e : i = <<a, b, c, d, e>>
        BY <4>1
      <4>4. args = <<b, c, d, e>>
        BY <3>1, <4>2, <4>3
      <4>5. i[2] = b /\ i[3] = c /\ i[4] = d /\ i[5] = e
        BY <4>3
      <4> QED BY <3>6, <4>1, <4>4, <4>5
    <3> QED BY <1>2, <3>2, <3>3, <3>4, <3>5, <3>6
  <2> QED BY <2>1, <2>2, <2>3
<1>5. Words(program, i) = <<Opcode[i[1]]>> \o args
  BY DEF Words
<1> HIDE DEF i, args
<1>6. /\ Words(program, i) \in Seq(Nat) /\ Len(Words(program, i)) = 1 + Arity(i[1])
      /\ Words(program, i)[1] = Opcode[i[1]]
      /\ \A k \in 2 .. 1 + Arity(i[1]) : Words(program, i)[k] = args[k - 1]
  BY <1>2, <1>4, <1>5
<1>7. ASSUME ~ NamesRegister(i), ~ HoldsAmount(i), NEW k \in 2 .. 1 + Arity(i[1])
      PROVE  Words(program, i)[k] = i[k]
  <2>1. k - 1 \in 1 .. Arity(i[1]) /\ (k - 1) + 1 = k
    BY <1>2
  <2>2. args[k - 1] = i[(k - 1) + 1]
    BY <1>4, <1>7, <2>1
  <2> QED BY <1>6, <2>1, <2>2
<1>8. Assembled(i, Words(program, i))
  BY <1>6, <1>7 DEF Assembled
<1> QED BY <1>8 DEF i

-----------------------------------------------------------------------------
(***************************************************************************)
(* The lines of a program in its code.                                     *)
(***************************************************************************)
Assembly(program) == CHOOSE f : IsAssembly(program, f)

\* The position of the first word of line n.
Line(program, n) == Len(Assembly(program)[n - 1]) + 1

LEMMA Grows ==
    ASSUME NEW s \in Seq(Nat), NEW w \in Seq(Nat)
    PROVE  /\ s \o w \in Seq(Nat) /\ Len(s \o w) = Len(s) + Len(w)
           /\ \A k \in 1 .. Len(s) : (s \o w)[k] = s[k]
           /\ \A k \in 1 .. Len(w) : (s \o w)[Len(s) + k] = w[k]
OBVIOUS

\* The assembly of the first lines is the beginning of that of more lines.
LEMMA AssemblyGrows ==
    ASSUME NEW program, IsProgram(program)
    PROVE  /\ IsAssembly(program, Assembly(program))
           /\ \A i \in 0 .. Len(program) :
                 /\ Assembly(program)[i] \in Seq(Nat)
                 /\ Len(Assembly(program)[i]) <= Len(Assemble(program))
                 /\ \A k \in 1 .. Len(Assembly(program)[i]) :
                       Assemble(program)[k] = Assembly(program)[i][k]
<1> DEFINE f == Assembly(program)
           n == Len(program)
           Begins(a, b) == Len(a) <= Len(b) /\ \A k \in 1 .. Len(a) : b[k] = a[k]
<1>1. n \in Nat
  BY DEF IsProgram
<1>2. IsAssembly(program, f)
  BY <1>1, AssemblySteps DEF Assembly
<1> HIDE DEF f
<1>3. /\ f[0] = << >> /\ Assemble(program) = f[n]
      /\ \A i \in 1 .. n : f[i] = f[i - 1] \o Words(program, program[i])
  BY <1>2 DEF IsAssembly
<1>4. \A i \in 1 .. n : Words(program, program[i]) \in Seq(Nat)
  BY WordsOf DEF Assembled
<1>5. \A i \in 0 .. n : f[i] \in Seq(Nat)
  <2> DEFINE S == {i \in 0 .. n : f[i] \in Seq(Nat)}
  <2>1. 0 \in S
    <3>1. f[0] \in Seq(Nat)
      BY <1>3
    <3>2. 0 \in 0 .. n
      BY <1>1
    <3> QED BY <3>1, <3>2
  <2>2. ASSUME NEW i \in 1 .. n, i - 1 \in S PROVE i \in S
    <3>1. f[i - 1] \in Seq(Nat) /\ Words(program, program[i]) \in Seq(Nat)
      BY <1>4, <2>2
    <3>2. f[i] = f[i - 1] \o Words(program, program[i])
      BY <1>3
    <3>3. f[i] \in Seq(Nat)
      BY <3>1, <3>2, Grows
    <3>4. i \in 0 .. n
      BY <1>1
    <3> QED BY <3>3, <3>4
  <2> HIDE DEF S
  <2>3. 0 .. n \subseteq S
    BY <1>1, <2>1, <2>2, UpTo
  <2> QED BY <2>3 DEF S
<1>6. \A i \in 0 .. n : Begins(f[i], f[n])
  <2> DEFINE S == {j \in 0 .. n : \A i \in 0 .. j : Begins(f[i], f[j])}
  <2>1. 0 \in S
    BY <1>1
  <2>2. ASSUME NEW j \in 1 .. n, j - 1 \in S PROVE j \in S
    <3>1. j \in 0 .. n /\ j - 1 \in 0 .. n
      BY <1>1
    <3>2. f[j - 1] \in Seq(Nat) /\ Words(program, program[j]) \in Seq(Nat)
      BY <1>4, <1>5, <3>1
    <3>3. f[j] = f[j - 1] \o Words(program, program[j])
      BY <1>3
    <3>4. Begins(f[j - 1], f[j])
      <4> DEFINE a == f[j - 1]
                 w == Words(program, program[j])
      <4>1. a \in Seq(Nat) /\ w \in Seq(Nat) /\ f[j] = a \o w
        BY <3>2, <3>3
      <4> HIDE DEF a, w
      <4>2. Len(a) \in Nat /\ Len(w) \in Nat
        BY <4>1
      <4>3. /\ Len(a \o w) = Len(a) + Len(w)
            /\ \A k \in 1 .. Len(a) : (a \o w)[k] = a[k]
        BY <4>1, Grows
      <4>4. Begins(a, f[j])
        BY <4>1, <4>2, <4>3
      <4> QED BY <4>4 DEF a
    <3>5. ASSUME NEW i \in 0 .. j PROVE Begins(f[i], f[j])
      <4>1. CASE i = j
        BY <4>1, <1>5, <3>1
      <4>2. CASE i # j
        <5>1. i \in 0 .. j - 1 /\ i \in 0 .. n
          BY <1>1, <4>2
        <5>2. Begins(f[i], f[j - 1])
          BY <2>2, <5>1
        <5>3. Len(f[i]) \in Nat /\ Len(f[j - 1]) \in Nat /\ Len(f[j]) \in Nat
          BY <1>5, <3>1, <5>1
        <5> QED BY <3>4, <5>2, <5>3
      <4> QED BY <4>1, <4>2
    <3> QED BY <3>1, <3>5
  <2> HIDE DEF S
  <2>3. 0 .. n \subseteq S
    BY <1>1, <2>1, <2>2, UpTo
  <2>4. n \in 0 .. n
    BY <1>1
  <2> QED BY <2>3, <2>4 DEF S
<1>7. /\ IsAssembly(program, f)
      /\ \A i \in 0 .. n : /\ f[i] \in Seq(Nat) /\ Len(f[i]) <= Len(Assemble(program))
                          /\ \A k \in 1 .. Len(f[i]) : Assemble(program)[k] = f[i][k]
  BY <1>2, <1>3, <1>5, <1>6
<1> QED BY <1>7 DEF f

\* Where a program begins and ends.
LEMMA FirstAndLastLine ==
    ASSUME NEW program, IsProgram(program)
    PROVE  /\ Line(program, 1) = 1
           /\ Line(program, Len(program) + 1) = Len(Assemble(program)) + 1
           /\ Assemble(program) \in Seq(Nat)
<1>1. Len(program) \in Nat /\ Len(program) \in 0 .. Len(program) /\ 1 - 1 = 0
      /\ (Len(program) + 1) - 1 = Len(program)
  BY DEF IsProgram
<1>2. /\ Assembly(program)[0] = << >>
      /\ Assembly(program)[Len(program)] = Assemble(program)
  BY AssemblyGrows DEF IsAssembly
<1>3. Assemble(program) \in Seq(Nat)
  BY <1>1, <1>2, AssemblyGrows
<1> QED BY <1>1, <1>2, <1>3 DEF Line

\* The words of a line are in the code from its position on, and the next line
\* follows them.
LEMMA LineHolds ==
    ASSUME NEW program, IsProgram(program), NEW n \in 1 .. Len(program)
    PROVE  /\ Line(program, n) \in Nat \ {0}
           /\ Line(program, n + 1) = Line(program, n) + 1 + Arity(program[n][1])
           /\ Line(program, n + 1) <= Len(Assemble(program)) + 1
           /\ \A k \in 0 .. Arity(program[n][1]) :
                 Assemble(program)[Line(program, n) + k] = Words(program, program[n])[k + 1]
<1> DEFINE f == Assembly(program)
           a == f[n - 1]
           w == Words(program, program[n])
           r == Arity(program[n][1])
<1>1. Len(program) \in Nat /\ n - 1 \in 0 .. Len(program) /\ n \in 0 .. Len(program)
      /\ (n + 1) - 1 = n
  BY DEF IsProgram
<1>2. f[n] = a \o w
  BY AssemblyGrows DEF IsAssembly
<1>3. /\ a \in Seq(Nat) /\ f[n] \in Seq(Nat) /\ Len(f[n]) <= Len(Assemble(program))
      /\ \A k \in 1 .. Len(f[n]) : Assemble(program)[k] = f[n][k]
  BY <1>1, AssemblyGrows
<1>4. w \in Seq(Nat) /\ Len(w) = 1 + r
  BY WordsOf DEF Assembled
<1>5. r \in Nat
  BY ArityType
<1>6. Line(program, n) = Len(a) + 1 /\ Line(program, n + 1) = Len(f[n]) + 1
  BY <1>1 DEF Line
<1> HIDE DEF f, a, w, r
<1>7. Len(a) \in Nat /\ Len(f[n]) = Len(a) + 1 + r
  <2>1. a \in Seq(Nat) /\ w \in Seq(Nat)
    BY <1>3, <1>4
  <2>2. Len(a \o w) = Len(a) + Len(w)
    BY <2>1, Grows
  <2>3. Len(a) \in Nat
    BY <2>1
  <2> QED BY <1>2, <1>4, <1>5, <2>2, <2>3
<1>8. ASSUME NEW k \in 0 .. r
      PROVE  Assemble(program)[Len(a) + 1 + k] = w[k + 1]
  <2>1. k + 1 \in 1 .. Len(w) /\ Len(a) + (k + 1) = Len(a) + 1 + k
    BY <1>4, <1>5, <1>7
  <2>2. f[n][Len(a) + (k + 1)] = w[k + 1]
    BY <1>2, <1>3, <1>4, <2>1, Grows
  <2>3. Len(a) + 1 + k \in 1 .. Len(f[n])
    BY <1>5, <1>7
  <2> QED BY <1>3, <2>1, <2>2, <2>3
<1>9. Len(Assemble(program)) \in Nat
  BY FirstAndLastLine
<1>10. /\ Line(program, n) \in Nat \ {0}
       /\ Line(program, n + 1) = Line(program, n) + 1 + r
       /\ Line(program, n + 1) <= Len(Assemble(program)) + 1
  BY <1>3, <1>5, <1>6, <1>7, <1>9
<1>11. \A k \in 0 .. r : Assemble(program)[Line(program, n) + k] = w[k + 1]
  BY <1>6, <1>8
<1> QED BY <1>10, <1>11 DEF r, w

-----------------------------------------------------------------------------
(***************************************************************************)
(* Stacks without an empty operand.                                        *)
(***************************************************************************)
Full(stack) == \A k \in 1 .. Len(stack) : stack[k].kind # "None"

\* An operation on m that leaves the registers alone, and its depth after it.
Leaves(m, next, depth) ==
    /\ Full(next.stack)
    /\ Depth(next) = depth
    /\ next.registry = m.registry

LEMMA PushLeaves ==
    ASSUME NEW m \in Machine, Full(m.stack), NEW v \in Operand, v.kind # "None"
    PROVE  Leaves(m, Push(m, v), Depth(m) + 1) /\ Top(Push(m, v)) = v
<1>1. Push(m, v).stack = Append(m.stack, v) /\ Push(m, v).registry = m.registry
  BY DEF Push, Machine
<1>2. m.stack \in Seq(Operand) /\ Depth(m) = Len(m.stack)
  BY DepthType DEF Depth
<1>3. /\ Len(Append(m.stack, v)) = Len(m.stack) + 1
      /\ \A k \in 1 .. Len(m.stack) : Append(m.stack, v)[k] = m.stack[k]
      /\ Append(m.stack, v)[Len(m.stack) + 1] = v
      /\ Len(m.stack) \in Nat
  BY <1>2, AppendProperties
<1>4. Full(Append(m.stack, v))
  <2>1. SUFFICES ASSUME NEW k \in 1 .. Len(m.stack) + 1
                 PROVE  Append(m.stack, v)[k].kind # "None"
    BY <1>3 DEF Full
  <2>2. k \in 1 .. Len(m.stack) \/ k = Len(m.stack) + 1
    BY <1>3
  <2> QED BY <1>3, <2>2 DEF Full
<1> QED BY <1>1, <1>2, <1>3, <1>4 DEF Leaves, Depth, Top

LEMMA DropLeaves ==
    ASSUME NEW m \in Machine, Full(m.stack), NEW n \in Nat, n <= Depth(m)
    PROVE  Leaves(m, Drop(m, n), Depth(m) - n)
<1>1. /\ Drop(m, n).stack = SubSeq(m.stack, 1, Depth(m) - n)
      /\ Drop(m, n).registry = m.registry
  BY DEF Drop, Machine
<1>2. m.stack \in Seq(Operand) /\ Depth(m) = Len(m.stack) /\ Depth(m) \in Nat
  BY DepthType DEF Depth
<1>3. Depth(Drop(m, n)) = Depth(m) - n
  BY DropType
<1>4. \A k \in 1 .. Depth(m) - n : SubSeq(m.stack, 1, Depth(m) - n)[k] = m.stack[k]
  BY <1>2, SubSeqProperties
<1>5. Full(Drop(m, n).stack)
  BY <1>1, <1>2, <1>3, <1>4 DEF Full, Depth
<1> QED BY <1>1, <1>3, <1>5 DEF Leaves

LEMMA SetTopLeaves ==
    ASSUME NEW m \in Machine, Full(m.stack), Depth(m) > 0, NEW v, v.kind # "None"
    PROVE  Leaves(m, SetTop(m, v), Depth(m)) /\ Top(SetTop(m, v)) = v
<1>1. /\ SetTop(m, v).stack = [m.stack EXCEPT ![Depth(m)] = v]
      /\ SetTop(m, v).registry = m.registry
  BY DEF SetTop, Machine
<1>2. /\ m.stack \in Seq(Operand) /\ Depth(m) = Len(m.stack) /\ Depth(m) \in Nat
      /\ DOMAIN m.stack = 1 .. Len(m.stack)
  BY DepthType DEF Depth
<1>3. Len([m.stack EXCEPT ![Depth(m)] = v]) = Len(m.stack)
  <2>1. DOMAIN [m.stack EXCEPT ![Depth(m)] = v] = 1 .. Len(m.stack)
    BY <1>2
  <2> QED BY <1>2, <2>1
<1>4. /\ \A k \in 1 .. Len(m.stack) :
            [m.stack EXCEPT ![Depth(m)] = v][k] = IF k = Depth(m) THEN v ELSE m.stack[k]
  BY <1>2
<1> QED BY <1>1, <1>2, <1>3, <1>4 DEF Leaves, Depth, Top, Full

LEMMA TopIsFull ==
    ASSUME NEW m \in Machine, Full(m.stack), NEW n \in Nat, n <= Depth(m)
    PROVE  Full(TopN(m, n))
<1>1. m.stack \in Seq(Operand) /\ Depth(m) = Len(m.stack) /\ Depth(m) \in Nat
  BY DepthType DEF Depth
<1> DEFINE d == Depth(m)
           low == d - n + 1
<1>2. /\ Len(TopN(m, n)) = n
      /\ \A i \in 1 .. n : TopN(m, n)[i] = m.stack[d - n + i]
  <2>1. Len(TopN(m, n)) = n
    BY TopNType
  <2>2. \A i \in 1 .. n : TopN(m, n)[i] = m.stack[d - n + i]
    BY <1>1, SubSeqProperties DEF TopN
  <2> QED BY <2>1, <2>2
<1>3. \A i \in 1 .. n : d - n + i \in 1 .. d
  <2> HIDE DEF d
  <2>1. d \in Nat /\ n <= d
    BY <1>1 DEF d
  <2> QED BY <2>1
<1> QED BY <1>1, <1>2, <1>3 DEF Full

LEMMA PushAllLeaves ==
    ASSUME NEW m \in Machine, Full(m.stack), NEW s \in Seq(Operand), Full(s)
    PROVE  Leaves(m, PushAll(m, s), Depth(m) + Len(s))
<1>1. PushAll(m, s).stack = m.stack \o s /\ PushAll(m, s).registry = m.registry
  BY DEF PushAll, Machine
<1>2. m.stack \in Seq(Operand) /\ Depth(m) = Len(m.stack) /\ Len(m.stack) \in Nat
  BY DepthType DEF Depth
<1>3. /\ Len(m.stack \o s) = Len(m.stack) + Len(s) /\ Len(s) \in Nat
      /\ \A k \in 1 .. Len(m.stack) + Len(s) :
            (m.stack \o s)[k] = IF k <= Len(m.stack) THEN m.stack[k] ELSE s[k - Len(m.stack)]
  BY <1>2, ConcatProperties
<1>4. Full(m.stack \o s)
  <2>1. SUFFICES ASSUME NEW k \in 1 .. Len(m.stack) + Len(s)
                 PROVE  (m.stack \o s)[k].kind # "None"
    BY <1>3 DEF Full
  <2>2. CASE k <= Len(m.stack)
    BY <1>2, <1>3, <2>2 DEF Full
  <2>3. CASE k > Len(m.stack)
    <3>1. k - Len(m.stack) \in 1 .. Len(s) /\ ~ (k <= Len(m.stack))
      BY <1>2, <1>3, <2>3
    <3> QED BY <1>3, <3>1 DEF Full
  <2> QED BY <1>2, <2>2, <2>3
<1> QED BY <1>1, <1>2, <1>3, <1>4 DEF Leaves, Depth

\* What is on a full stack is not empty.
LEMMA FullAt ==
    ASSUME NEW m \in Machine, Full(m.stack)
    PROVE  /\ Depth(m) > 0 => Top(m) \in Operand /\ Top(m).kind # "None"
           /\ \A pos \in Nat : Reaches(m, pos) => At(m, pos) \in Operand /\ At(m, pos).kind # "None"
<1>1. m.stack \in Seq(Operand) /\ Depth(m) = Len(m.stack) /\ Depth(m) \in Nat
  BY DepthType DEF Depth
<1>2. Depth(m) > 0 => Depth(m) \in 1 .. Len(m.stack)
  BY <1>1
<1>3. ASSUME NEW pos \in Nat, Reaches(m, pos) PROVE Depth(m) - pos \in 1 .. Len(m.stack)
  BY <1>1, <1>3 DEF Reaches
<1> QED BY <1>2, <1>3, TopType, AtType DEF Full, Top, At

\* The top with other data.
LEMMA WithDataLeaves ==
    ASSUME NEW m \in Machine, Full(m.stack), Depth(m) > 0, NEW d
    PROVE  Leaves(m, SetTop(m, [Top(m) EXCEPT !.data = d]), Depth(m))
<1>1. Top(m) \in Operand /\ Top(m).kind # "None"
  BY FullAt
<1>2. [Top(m) EXCEPT !.data = d].kind = Top(m).kind
  BY <1>1 DEF Operand
<1> QED BY <1>1, <1>2, SetTopLeaves

-----------------------------------------------------------------------------
(***************************************************************************)
(* What the instructions of the two programs leave.                        *)
(***************************************************************************)
LEMMA LddLeaves ==
    ASSUME NEW m \in Machine, Full(m.stack), NEW pos \in Nat, NEW next \in Ldd(m, pos)
    PROVE  Leaves(m, next, Depth(m) + 1)
<1>1. Reaches(m, pos) /\ next = Push(m, At(m, pos))
  BY DEF Ldd, When
<1> QED BY <1>1, FullAt, PushLeaves

LEMMA ImmsLeaves ==
    ASSUME NEW m \in Machine, Full(m.stack), NEW x \in Amounts, NEW next \in Imms(m, x)
    PROVE  Leaves(m, next, Depth(m) + 1)
<1>1. next = Push(m, Scalar(x))
  BY DEF Imms
<1>2. Scalar(x) \in Operand /\ Scalar(x).kind # "None"
  BY OperandsAre DEF Scalar
<1> QED BY <1>1, <1>2, PushLeaves

LEMMA PopnLeaves ==
    ASSUME NEW m \in Machine, Full(m.stack), NEW count \in Nat, NEW next \in Popn(m, count)
    PROVE  Leaves(m, next, Depth(m) - count)
<1>1. HasTop(m, count) /\ next = Drop(m, count)
  BY DEF Popn, When
<1> QED BY <1>1, DropLeaves DEF HasTop

LEMMA SwapLeaves ==
    ASSUME NEW m \in Machine, Full(m.stack), NEW pos \in Nat, NEW next \in Swap(m, pos)
    PROVE  Leaves(m, next, Depth(m))
<1> DEFINE d == Depth(m)
           s == m.stack
           swapped == [[s EXCEPT ![d] = At(m, pos)] EXCEPT ![d - pos] = Top(m)]
<1>1. /\ Below(m, pos)
      /\ next = [m EXCEPT !.stack[d] = At(m, pos), !.stack[d - pos] = Top(m)]
  BY DEF Swap, When
<1>2. next.stack = swapped /\ next.registry = m.registry
  BY <1>1 DEF Machine
<1>3. /\ s \in Seq(Operand) /\ d = Len(s) /\ d \in Nat /\ DOMAIN s = 1 .. Len(s)
  BY DepthType DEF Depth
<1>4. d > 0 /\ Reaches(m, pos)
  BY <1>1, <1>3 DEF Below, Reaches
<1>5. At(m, pos).kind # "None" /\ Top(m).kind # "None"
  BY <1>4, FullAt
<1>6. DOMAIN swapped = 1 .. Len(s)
  BY <1>3
<1>7. Len(swapped) = Len(s)
  BY <1>3, <1>6
<1>8. \A k \in 1 .. Len(s) :
         swapped[k] = IF k = d - pos THEN Top(m) ELSE IF k = d THEN At(m, pos) ELSE s[k]
  BY <1>3
<1>9. Full(swapped)
  <2>1. SUFFICES ASSUME NEW k \in 1 .. Len(s) PROVE swapped[k].kind # "None"
    BY <1>7 DEF Full
  <2>2. s[k].kind # "None"
    BY DEF Full
  <2> HIDE DEF swapped
  <2> QED BY <1>5, <1>8, <2>2
<1> HIDE DEF swapped
<1> QED BY <1>2, <1>3, <1>7, <1>9 DEF Leaves, Depth

\* Packing count scalars leaves a vector of as many words.
LEMMA PkvLeaves ==
    ASSUME NEW m \in Machine, Full(m.stack), NEW count \in Nat, NEW next \in Pkv(m, count)
    PROVE  /\ Leaves(m, next, Depth(m) - count + 1)
           /\ Len(Top(next).data) = count
<1> DEFINE data == [i \in 1 .. count |-> TopN(m, count)[i].data[1]]
           rest == Drop(m, count)
<1>1. /\ HasTop(m, count) /\ \A i \in 1 .. count : TopN(m, count)[i].kind = "Scalar"
      /\ next = Push(rest, Vector(data))
  BY DEF Pkv, Pack, When
<1>2. count <= Depth(m) /\ data \in Seq(Amounts)
  BY <1>1, PackType DEF HasTop
<1>3. Len(data) = count
  OBVIOUS
<1>4. rest \in Machine /\ Leaves(m, rest, Depth(m) - count)
  BY <1>2, DropType, DropLeaves
<1> HIDE DEF data, rest
<1>5. Vector(data) \in Operand /\ Vector(data).kind # "None" /\ Vector(data).data = data
  BY <1>2, OperandsAre DEF Vector
<1>6. Leaves(rest, next, Depth(rest) + 1) /\ Top(next) = Vector(data)
  BY <1>1, <1>4, <1>5, PushLeaves DEF Leaves
<1> QED BY <1>3, <1>4, <1>5, <1>6 DEF Leaves

LEMMA UnpkLeaves ==
    ASSUME NEW m \in Machine, Full(m.stack), NEW next \in Unpk(m)
    PROVE  Leaves(m, next, Depth(m) - 1 + Len(Top(m).data))
<1> DEFINE v == Top(m)
           rest == Drop(m, 1)
<1>1. Depth(m) > 0 /\ next = PushAll(rest, Items(v))
  BY DEF Unpk, When
<1>2. v \in Operand /\ Depth(m) \in Nat
  BY <1>1, TopType, DepthType
<1>3. rest \in Machine /\ Leaves(m, rest, Depth(m) - 1)
  BY <1>1, <1>2, DropType, DropLeaves
<1> HIDE DEF v, rest
<1>4. Items(v) \in Seq(Operand) /\ Len(Items(v)) = Len(v.data)
  BY <1>2, ItemsType
<1>5. Full(Items(v))
  <2>1. DOMAIN v.data = 1 .. Len(v.data)
    BY <1>2, OperandData
  <2>2. SUFFICES ASSUME NEW k \in 1 .. Len(v.data) PROVE Items(v)[k].kind # "None"
    BY <1>4 DEF Full
  <2>3. Items(v)[k] \in {Scalar(v.data[k]), LabelOf(v.data[k])}
    BY <2>1 DEF Items
  <2> QED BY <2>3 DEF Scalar, LabelOf
<1>6. Leaves(rest, next, Depth(rest) + Len(Items(v)))
  BY <1>1, <1>3, <1>4, <1>5, PushAllLeaves DEF Leaves
<1> QED BY <1>3, <1>4, <1>6 DEF Leaves, v

\* Arithmetic replaces the data of the top.
LEMMA ArithmeticLeaves ==
    ASSUME NEW m \in Machine, Full(m.stack), NEW pos \in Nat,
           NEW next \in Add(m, pos) \cup Sub(m, pos) \cup SsbTop(m, pos) \cup Mul(m, pos)
                            \cup Div(m, pos) \cup MinTop(m, pos)
    PROVE  Leaves(m, next, Depth(m))
<1>1. Depth(m) \in Nat
  BY DepthType
<1>2. ASSUME NEW d, Reaches(m, pos), next = SetTop(m, [Top(m) EXCEPT !.data = d])
      PROVE  Leaves(m, next, Depth(m))
  BY <1>1, <1>2, WithDataLeaves DEF Reaches
<1>3. CASE next \in Add(m, pos)
  BY <1>2, <1>3 DEF Add, Binary, When
<1>4. CASE next \in Sub(m, pos)
  BY <1>2, <1>4 DEF Sub, Binary, When
<1>5. CASE next \in SsbTop(m, pos)
  BY <1>2, <1>5 DEF SsbTop, Binary, When
<1>6. CASE next \in Mul(m, pos)
  BY <1>2, <1>6 DEF Mul, Binary, When
<1>7. CASE next \in Div(m, pos)
  BY <1>2, <1>7 DEF Div, Binary, When
<1>8. CASE next \in MinTop(m, pos)
  BY <1>2, <1>8 DEF MinTop, Select, Below, When
<1> QED BY <1>3, <1>4, <1>5, <1>6, <1>7, <1>8

LEMMA SqrtLeaves ==
    ASSUME NEW m \in Machine, Full(m.stack), NEW next \in SqrtTop(m)
    PROVE  Leaves(m, next, Depth(m))
BY WithDataLeaves DEF SqrtTop, When

\* The joins leave a vector on top.
LEMMA JoinLeaves ==
    ASSUME NEW m \in Machine, Full(m.stack), NEW pb \in Nat, NEW la \in Nat, NEW lb \in Nat,
           NEW next \in Jadd(m, pb, la, lb) \cup Jupd(m, pb, la, lb) \cup Jflt(m, la, lb)
    PROVE  Leaves(m, next, Depth(m))
<1>1. Depth(m) \in Nat
  BY DepthType
<1>2. ASSUME NEW d, Reaches(m, la), next = SetTop(m, Vector(d))
      PROVE  Leaves(m, next, Depth(m))
  <2>1. Vector(d).kind # "None"
    BY DEF Vector
  <2> QED BY <1>1, <1>2, <2>1, SetTopLeaves DEF Reaches
<1>3. ASSUME next \in Add(m, 1) PROVE Leaves(m, next, Depth(m))
  BY <1>3, ArithmeticLeaves
<1>4. CASE next \in Jadd(m, pb, la, lb)
  BY <1>2, <1>3, <1>4 DEF Jadd, JoinTop, When
<1>5. CASE next \in Jupd(m, pb, la, lb)
  BY <1>2, <1>3, <1>5 DEF Jupd, JoinTop, When
<1>6. CASE next \in Jflt(m, la, lb)
  <2>1. Leaves(m, m, Depth(m))
    BY DEF Leaves
  <2> QED BY <1>2, <1>6, <2>1 DEF Jflt, When
<1> QED BY <1>4, <1>5, <1>6

-----------------------------------------------------------------------------
(***************************************************************************)
(* Shapes: [depth, live, triple].                                          *)
(***************************************************************************)
RegisterNames(program) ==
    {program[n][2] : n \in {k \in 1 .. Len(program) : NamesRegister(program[k])}}

\* The register named x exists and is not empty.
Holds(program, m, x) ==
    /\ HasRegister(m, RegisterOf(program, x))
    /\ m.registry[RegisterOf(program, x) + 1].kind # "None"

HasShape(program, m, s) ==
    /\ Full(m.stack) /\ Depth(m) = s.depth
    /\ \A x \in s.live : Holds(program, m, x)
    /\ s.triple => Depth(m) > 0 /\ Len(Top(m).data) = 3

\* A name's register is one of the numbers a word holds as it is.
LEMMA RegisterNumbers ==
    ASSUME NEW program, IsProgram(program)
    PROVE  /\ \A x \in RegisterNames(program) : RegisterOf(program, x) \in 0 .. 99
           /\ \A x, y \in RegisterNames(program) :
                 x # y => RegisterOf(program, x) # RegisterOf(program, y)
BY RegisterBound, RegistersDiffer DEF RegisterNames

LEMMA KeepsShape ==
    ASSUME NEW program, NEW m, NEW next, NEW s, NEW t, HasShape(program, m, s),
           Leaves(m, next, t.depth), t.live \subseteq s.live,
           t.triple => Depth(next) > 0 /\ Len(Top(next).data) = 3
    PROVE  HasShape(program, next, t)
BY DEF HasShape, Leaves, Holds, HasRegister

\* The registers of a machine.
LEMMA Registry ==
    ASSUME NEW m \in Machine, NEW reg \in Nat, NEW v \in Operand
    PROVE  /\ m.registry \in Seq(Operand) /\ Len(m.registry) \in Nat
           /\ Len([m.registry EXCEPT ![reg + 1] = v]) = Len(m.registry)
           /\ \A k \in 0 .. Len(m.registry) - 1 :
                 [m.registry EXCEPT ![reg + 1] = v][k + 1]
                     = IF k = reg THEN v ELSE m.registry[k + 1]
<1>1. /\ m.registry \in Seq(Operand) /\ Len(m.registry) \in Nat
      /\ DOMAIN m.registry = 1 .. Len(m.registry)
  BY DEF Machine
<1>2. DOMAIN [m.registry EXCEPT ![reg + 1] = v] = 1 .. Len(m.registry)
  BY <1>1
<1>3. Len([m.registry EXCEPT ![reg + 1] = v]) = Len(m.registry)
  BY <1>1, <1>2
<1> QED BY <1>1, <1>3

LEMMA StrShape ==
    ASSUME NEW program, IsProgram(program), NEW m \in Machine, NEW s, NEW t,
           HasShape(program, m, s), s.live \subseteq RegisterNames(program),
           NEW x \in RegisterNames(program), NEW next \in Str(m, RegisterOf(program, x)),
           t.depth = s.depth - 1, t.live \subseteq s.live \cup {x}, ~ t.triple
    PROVE  HasShape(program, next, t)
<1> DEFINE reg == RegisterOf(program, x)
           rest == Drop(m, 1)
<1>1. /\ HasRegister(m, reg) /\ Depth(m) > 0
      /\ next = [rest EXCEPT !.registry[reg + 1] = Top(m)]
  BY DEF Str, When
<1>2. Full(m.stack) /\ Depth(m) = s.depth /\ \A y \in s.live : Holds(program, m, y)
  BY DEF HasShape
<1>3. Top(m) \in Operand /\ Top(m).kind # "None" /\ Depth(m) \in Nat
  BY <1>1, <1>2, FullAt, DepthType
<1>4. rest \in Machine /\ Leaves(m, rest, Depth(m) - 1)
  BY <1>1, <1>2, <1>3, DropType, DropLeaves
<1>5. next.stack = rest.stack /\ next.registry = [m.registry EXCEPT ![reg + 1] = Top(m)]
  BY <1>1, <1>4 DEF Leaves, Machine
<1>6. /\ Len(next.registry) = Len(m.registry) /\ Len(m.registry) \in Nat
      /\ \A k \in 0 .. Len(m.registry) - 1 :
            next.registry[k + 1] = IF k = reg THEN Top(m) ELSE m.registry[k + 1]
  <2>1. reg \in 0 .. 99
    BY RegisterNumbers
  <2> HIDE DEF reg
  <2>2. reg \in Nat
    BY <2>1
  <2> QED BY <1>3, <1>5, <2>2, Registry
<1>7. ASSUME NEW y \in t.live PROVE Holds(program, next, y)
  <2> DEFINE r == RegisterOf(program, y)
  <2>1. r \in 0 .. 99
    BY RegisterNumbers
  <2>2. r = reg \/ (HasRegister(m, r) /\ m.registry[r + 1].kind # "None")
    BY <1>2 DEF Holds
  <2> HIDE DEF r, reg
  <2>3. r < Len(m.registry)
    BY <1>1, <2>2 DEF HasRegister
  <2>4. r \in 0 .. Len(m.registry) - 1
    BY <1>6, <2>1, <2>3
  <2>5. next.registry[r + 1].kind # "None" /\ r < Len(next.registry)
    BY <1>3, <1>6, <2>2, <2>3, <2>4
  <2> QED BY <2>5 DEF Holds, HasRegister, r
<1>8. Full(next.stack) /\ Depth(next) = t.depth
  BY <1>2, <1>4, <1>5 DEF Leaves, Depth
<1> QED BY <1>7, <1>8 DEF HasShape

LEMMA LdrShape ==
    ASSUME NEW program, IsProgram(program), NEW m \in Machine, NEW s, NEW t,
           HasShape(program, m, s), s.live \subseteq RegisterNames(program),
           NEW x \in s.live, NEW next \in Ldr(m, RegisterOf(program, x)),
           t.depth = s.depth + 1, t.live \subseteq s.live, ~ t.triple
    PROVE  HasShape(program, next, t)
<1> DEFINE reg == RegisterOf(program, x)
<1>1. HasRegister(m, reg) /\ next = Push(m, m.registry[reg + 1])
  BY DEF Ldr, When
<1>2. /\ Full(m.stack) /\ Depth(m) = s.depth
      /\ m.registry[reg + 1].kind # "None"
  BY DEF HasShape, Holds
<1>3. m.registry[reg + 1] \in Operand
  BY <1>1, RegisterType, RegisterNumbers
<1>4. Leaves(m, next, t.depth)
  BY <1>1, <1>2, <1>3, PushLeaves
<1> QED BY <1>4, KeepsShape

\* A register that is moved out is empty afterwards, and no other is.
LEMMA LdmShape ==
    ASSUME NEW program, IsProgram(program), NEW m \in Machine, NEW s, NEW t,
           HasShape(program, m, s), s.live \subseteq RegisterNames(program),
           NEW x \in s.live, NEW next \in Ldm(m, RegisterOf(program, x)),
           t.depth = s.depth + 1, t.live \subseteq s.live \ {x}, ~ t.triple
    PROVE  HasShape(program, next, t)
<1> DEFINE reg == RegisterOf(program, x)
           pushed == Push(m, m.registry[reg + 1])
<1>1. HasRegister(m, reg) /\ next = [pushed EXCEPT !.registry[reg + 1] = NoOperand]
  BY DEF Ldm, When
<1>2. /\ Full(m.stack) /\ Depth(m) = s.depth /\ \A y \in s.live : Holds(program, m, y)
      /\ m.registry[reg + 1].kind # "None"
  BY DEF HasShape, Holds
<1>3. m.registry[reg + 1] \in Operand
  BY <1>1, RegisterType, RegisterNumbers
<1>4. Leaves(m, pushed, t.depth) /\ pushed \in Machine
  BY <1>2, <1>3, PushLeaves, PushType
<1>5. next.stack = pushed.stack /\ next.registry = [m.registry EXCEPT ![reg + 1] = NoOperand]
  BY <1>1, <1>4 DEF Leaves, Machine
<1>6. /\ Len(next.registry) = Len(m.registry) /\ Len(m.registry) \in Nat
      /\ \A k \in 0 .. Len(m.registry) - 1 :
            next.registry[k + 1] = IF k = reg THEN NoOperand ELSE m.registry[k + 1]
  <2>1. reg \in 0 .. 99
    BY RegisterNumbers
  <2> HIDE DEF reg
  <2>2. reg \in Nat
    BY <2>1
  <2> QED BY OperandsAre, <1>5, <2>2, Registry
<1>7. ASSUME NEW y \in t.live PROVE Holds(program, next, y)
  <2> DEFINE r == RegisterOf(program, y)
  <2>1. r \in 0 .. 99 /\ r # reg
    BY RegisterNumbers
  <2>2. HasRegister(m, r) /\ m.registry[r + 1].kind # "None"
    BY <1>2 DEF Holds
  <2> HIDE DEF r, reg
  <2>3. r \in 0 .. Len(m.registry) - 1 /\ r < Len(m.registry)
    BY <1>6, <2>1, <2>2 DEF HasRegister
  <2>4. next.registry[r + 1].kind # "None" /\ r < Len(next.registry)
    BY <1>6, <2>1, <2>2, <2>3
  <2> QED BY <2>4 DEF Holds, HasRegister, r
<1>8. Full(next.stack) /\ Depth(next) = t.depth
  BY <1>4, <1>5 DEF Leaves, Depth
<1> QED BY <1>7, <1>8 DEF HasShape

-----------------------------------------------------------------------------
(***************************************************************************)
(* Instructions between shapes.                                            *)
(***************************************************************************)

\* Ids under which there are three words or none: quotes and orders.
Triples == {QuoteId(x) : x \in Indexes} \cup {OrderId(o) : o \in Orders}

StoredWell(store) ==
    /\ Stored(store, SolveQuadraticId) = QuadraticCode
    /\ \A id \in Triples : Stored(store, id) # << >> => Len(Stored(store, id)) = 3

Pushing   == {"LDL", "LDV", "LDD", "IMMS"}
Replacing == {"ADD", "SUB", "SSB", "MUL", "DIV", "MIN", "SQRT", "JADD", "JUPD", "JFLT", "SWAP"}

\* The registers that may be live after the instruction i.
LiveAfter(i, live) ==
    CASE i[1] = "STR" -> live \cup {i[2]}
      [] i[1] = "LDM" -> live \ {i[2]}
      [] OTHER        -> live

\* What instruction i does to the stack takes shape s to shape t.
Moves(i, s, t) ==
    /\ t.triple => \/ i[1] = "LDV" /\ i[2] \in Triples
                   \/ i[1] = "PKV" /\ i[2] = 3
    /\ \/ i[1] \in Pushing /\ t.depth = s.depth + 1
       \/ i[1] \in {"LDR", "LDM"} /\ i[2] \in s.live /\ t.depth = s.depth + 1
       \/ i[1] = "STR" /\ t.depth = s.depth - 1
       \/ /\ i[1] = "STV" /\ t.depth = s.depth - 1
          /\ i[2] # SolveQuadraticId /\ (i[2] \in Triples => s.triple)
       \/ i[1] \in Replacing /\ t.depth = s.depth
       \/ i[1] = "UNPK" /\ s.triple /\ t.depth = s.depth + 2
       \/ i[1] = "POPN" /\ i[2] < 100 /\ t.depth = s.depth - i[2]
       \/ i[1] = "PKV" /\ i[2] < 100 /\ t.depth = s.depth - i[2] + 1

\* Instruction i takes machines of shape s to machines of shape t.
Fits(program, i, s, t) ==
    /\ s.live \subseteq RegisterNames(program)
    /\ t.live \subseteq LiveAfter(i, s.live)
    /\ Moves(i, s, t)

\* The innermost call is at line n of the program, its machine of this shape.
AtLine(program, n, s) ==
    /\ ~ Idle
    /\ Current.code = Assemble(program)
    /\ Current.pc = Line(program, n)
    /\ HasShape(program, M, s)

\* The call at the line after n, with machine m.
After(program, n, m) == [Current EXCEPT !.pc = Line(program, n + 1), !.m = m]

\* It goes on to the next line and to shape t.
Continues(program, n, t) ==
    \E next : /\ frames' = Replace(After(program, n, next))
              /\ HasShape(program, next, t)
              /\ StoredWell(vectors')
              /\ UNCHANGED <<owner, committed, tx>>

\* The word of a register.
LEMMA RegisterWord ==
    ASSUME NEW program, IsProgram(program), NEW n \in 1 .. Len(program),
           NamesRegister(program[n])
    PROVE  Words(program, program[n])[2] = RegisterOf(program, program[n][2])
<1> DEFINE op  == Opcode[program[n][1]]
           reg == RegisterOf(program, program[n][2])
<1>1. ~ HoldsAmount(program[n])
  BY DEF NamesRegister, HoldsAmount
<1>2. Words(program, program[n]) = <<op>> \o <<reg>>
  BY <1>1 DEF Words
<1>3. op \in Nat
  BY OpcodesAreNat DEF IsProgram, IsInstruction
<1>4. reg \in 0 .. 99
  BY RegisterBound
<1> HIDE DEF op, reg
<1>5. /\ <<op>> \in Seq(Nat) /\ Len(<<op>>) = 1
      /\ <<reg>> \in Seq(Nat) /\ Len(<<reg>>) = 1 /\ <<reg>>[1] = reg
  BY <1>3, <1>4
<1>6. (<<op>> \o <<reg>>)[Len(<<op>>) + 1] = <<reg>>[1]
  BY <1>5, Grows
<1>7. (<<op>> \o <<reg>>)[2] = reg
  BY <1>5, <1>6
<1> QED BY <1>2, <1>7 DEF reg

\* A call at a line fetches it, and the step is the line's.
LEMMA LineFetched ==
    ASSUME NEW program, IsProgram(program), NEW n \in 1 .. Len(program), NEW s,
           AtLine(program, n, s)
    PROVE  /\ program[n][1] \in Mnemonics /\ Fetch(program[n][1])
           /\ Current.pc \in Nat /\ Len(Current.code) \in Nat
           /\ \A k \in 1 .. Arity(program[n][1]) :
                 Arg(k) = Words(program, program[n])[k + 1]
           /\ \A m : Advanced(program[n][1], m) = After(program, n, m)
<1> DEFINE i == program[n]
           r == Arity(i[1])
<1>1. i[1] \in Mnemonics /\ r \in 0 .. 4
  BY ArityType DEF IsProgram, IsInstruction
<1>2. Assembled(i, Words(program, i))
  BY WordsOf
<1>3. Words(program, i)[1] = Opcode[i[1]]
  BY <1>2 DEF Assembled
<1> HIDE DEF i
<1>4. /\ Current.pc \in Nat \ {0}
      /\ Line(program, n + 1) = Current.pc + 1 + r
      /\ Line(program, n + 1) <= Len(Current.code) + 1
      /\ \A k \in 0 .. r : Current.code[Current.pc + k] = Words(program, i)[k + 1]
  BY LineHolds DEF AtLine, i
<1>5. Current.code \in Seq(Nat)
  BY FirstAndLastLine DEF AtLine
<1>6. Len(Current.code) \in Nat
  BY <1>5
<1> HIDE DEF r
<1>7. 0 \in 0 .. r /\ \A k \in 1 .. r : k \in 0 .. r
  BY <1>1
<1>8. Word(0) = Opcode[i[1]]
  <2>1. Current.code[Current.pc + 0] = Words(program, i)[0 + 1]
    BY <1>4, <1>7
  <2> QED BY <1>3, <2>1 DEF Word
<1>9. \A k \in 1 .. r : Arg(k) = Words(program, i)[k + 1]
  BY <1>4, <1>7 DEF Arg, Word
<1>10. ~ Finished /\ Current.pc + r <= Len(Current.code)
  BY <1>1, <1>4, <1>6 DEF Finished
<1>11. Fetch(i[1])
  BY <1>8, <1>10 DEF Fetch, AtLine, r
<1>12. \A m : Advanced(i[1], m) = After(program, n, m)
  BY <1>4 DEF Advanced, After, r
<1> QED BY <1>1, <1>4, <1>6, <1>9, <1>11, <1>12 DEF r, i

\* An instruction whose outcomes have shape t takes the call to the next line.
LEMMA InstructionContinues ==
    ASSUME TypeOK, NEW program, IsProgram(program), NEW n \in 1 .. Len(program), NEW s, NEW t,
           AtLine(program, n, s), StoredWell(vectors), NEW outcomes,
           Instruction(program[n][1], outcomes),
           \A next \in outcomes : HasShape(program, next, t)
    PROVE  Revert \/ Continues(program, n, t)
<1>1. CASE outcomes = {}
  BY <1>1 DEF Instruction
<1>2. CASE outcomes # {}
  <2>1. PICK next \in outcomes : frames' = Replace(Advanced(program[n][1], next))
    BY <1>2 DEF Instruction
  <2>2. UNCHANGED <<owner, vectors, committed, tx>>
    BY <1>2 DEF Instruction
  <2>3. Advanced(program[n][1], next) = After(program, n, next)
    BY LineFetched
  <2>4. StoredWell(vectors')
    BY <2>2
  <2>5. HasShape(program, next, t)
    OBVIOUS
  <2> QED BY <2>1, <2>2, <2>3, <2>4, <2>5 DEF Continues
<1> QED BY <1>1, <1>2

\* `as usize` keeps the words of positions, counts and registers.
LEMMA SmallWords == \A a \in 0 .. 99 : a % USIZE = a
<1>1. USIZE \in Nat /\ USIZE >= 100
  BY BuyOrderAssumption, DevilAssumption
<1>2. SUFFICES ASSUME NEW a \in 0 .. 99 PROVE a % USIZE = a
  OBVIOUS
<1>3. a \in Nat /\ a < USIZE
  BY <1>1
<1> QED BY <1>1, <1>3

\* What a line's instruction reads and does.
LEMMA LineDoes ==
    ASSUME TypeOK, Step, NEW program, IsProgram(program), NEW n \in 1 .. Len(program), NEW s,
           AtLine(program, n, s)
    PROVE  /\ Does(program[n][1])
           /\ M \in Machine
           /\ \A k \in 1 .. Arity(program[n][1]) : Arg(k) \in Amounts /\ Pos(k) \in Nat
           /\ ~ NamesRegister(program[n]) /\ ~ HoldsAmount(program[n]) =>
                 \A k \in 1 .. Arity(program[n][1]) :
                    Arg(k) = program[n][k + 1] /\ Pos(k) = program[n][k + 1] % USIZE
           /\ NamesRegister(program[n]) => Pos(1) = RegisterOf(program, program[n][2])
<1> DEFINE i == program[n]
<1>1. /\ i[1] \in Mnemonics /\ Fetch(i[1])
      /\ Current.pc \in Nat /\ Len(Current.code) \in Nat
      /\ \A k \in 1 .. Arity(i[1]) : Arg(k) = Words(program, i)[k + 1]
  BY LineFetched
<1>2. Does(i[1])
  BY <1>1, StepDoes
<1>3. /\ M \in Machine /\ Arity(i[1]) \in Nat
      /\ \A k \in 1 .. Arity(i[1]) : Arg(k) \in Amounts /\ Pos(k) \in Nat
  BY <1>1, Fetched
<1>4. \A k : Pos(k) = Arg(k) % USIZE
  BY DEF Pos, Arg
<1>5. Assembled(i, Words(program, i))
  BY WordsOf
<1>6. ASSUME NamesRegister(i) PROVE Pos(1) = RegisterOf(program, i[2])
  <2>1. RegisterOf(program, i[2]) \in 0 .. 99
    BY <1>6, RegisterBound
  <2>2. Words(program, i)[2] = RegisterOf(program, i[2])
    BY <1>6, RegisterWord
  <2>3. Arity(i[1]) = 1
    BY <1>6, NamesOne
  <2>4. Arg(1) = Words(program, i)[1 + 1]
    BY <1>1, <2>3
  <2>5. Arg(1) = RegisterOf(program, i[2])
    BY <2>2, <2>4
  <2>6. RegisterOf(program, i[2]) % USIZE = RegisterOf(program, i[2])
    BY <2>1, SmallWords
  <2>7. Pos(1) = Arg(1) % USIZE
    BY <1>4
  <2> QED BY <2>5, <2>6, <2>7
<1>7. ASSUME ~ NamesRegister(i), ~ HoldsAmount(i), NEW k \in 1 .. Arity(i[1])
      PROVE  Arg(k) = i[k + 1]
  <2>1. k + 1 \in 2 .. 1 + Arity(i[1])
    BY <1>3
  <2>2. Words(program, i)[k + 1] = i[k + 1]
    BY <1>5, <1>7, <2>1 DEF Assembled
  <2> QED BY <1>1, <2>2
<1>8. ASSUME ~ NamesRegister(i), ~ HoldsAmount(i), NEW k \in 1 .. Arity(i[1])
      PROVE  Pos(k) = i[k + 1] % USIZE
  BY <1>4, <1>7, <1>8
<1> HIDE DEF i
<1>9. /\ Does(i[1]) /\ M \in Machine
      /\ \A k \in 1 .. Arity(i[1]) : Arg(k) \in Amounts /\ Pos(k) \in Nat
      /\ ~ NamesRegister(i) /\ ~ HoldsAmount(i) =>
            \A k \in 1 .. Arity(i[1]) : Arg(k) = i[k + 1] /\ Pos(k) = i[k + 1] % USIZE
      /\ NamesRegister(i) => Pos(1) = RegisterOf(program, i[2])
  BY <1>2, <1>3, <1>6, <1>7, <1>8
<1> QED BY <1>9 DEF i

\* A line whose outcomes keep the registers.
LEMMA PlainLine ==
    ASSUME TypeOK, NEW program, IsProgram(program), NEW n \in 1 .. Len(program), NEW s, NEW t,
           AtLine(program, n, s), StoredWell(vectors), Fits(program, program[n], s, t),
           program[n][1] \notin {"STR", "LDM"}, NEW outcomes,
           Instruction(program[n][1], outcomes),
           \A next \in outcomes : Leaves(M, next, t.depth),
           t.triple => \A next \in outcomes : Depth(next) > 0 /\ Len(Top(next).data) = 3
    PROVE  Revert \/ Continues(program, n, t)
<1>1. HasShape(program, M, s)
  BY DEF AtLine
<1>2. t.live \subseteq s.live
  BY DEF Fits, Moves, LiveAfter
<1>3. \A next \in outcomes : HasShape(program, next, t)
  BY <1>1, <1>2, KeepsShape
<1> QED BY <1>3, InstructionContinues

LEMMA LoadLine ==
    ASSUME TypeOK, Step, NEW program, IsProgram(program), NEW n \in 1 .. Len(program),
           NEW s, NEW t,
           AtLine(program, n, s), StoredWell(vectors), Fits(program, program[n], s, t),
           program[n][1] \in {"LDL", "LDV"}
    PROVE  Revert \/ Continues(program, n, t)
<1> DEFINE id == Arg(1)
<1>1. M \in Machine /\ Full(M.stack) /\ Depth(M) = s.depth
  BY LineDoes DEF AtLine, HasShape
<1>2. /\ ~ NamesRegister(program[n]) /\ ~ HoldsAmount(program[n])
      /\ Arity(program[n][1]) = 1
  BY DEF NamesRegister, HoldsAmount, Arity
<1>3. id = program[n][2]
  BY <1>2, LineDoes
<1>4. t.depth = s.depth + 1
  BY DEF Fits, Moves, Pushing, Replacing
<1>5. Does(program[n][1])
  BY LineDoes
<1> HIDE DEF id
<1>6. ASSUME NEW v \in {Labels(vectors[id]), Vector(vectors[id])}, Loadable(id)
      PROVE  Leaves(M, Push(M, v), t.depth) /\ Top(Push(M, v)) = v
  <2>1. vectors[id] \in Seq(Amounts)
    BY <1>6, LoadableType
  <2>2. v \in Operand /\ v.kind # "None"
    <3>1. \A d : /\ Vector(d).kind = "Vector" /\ Labels(d).kind = "Labels"
                 /\ d \in Seq(Amounts) => Vector(d) \in Operand /\ Labels(d) \in Operand
      <4>1. \A d : Vector(d).kind = "Vector" /\ Labels(d).kind = "Labels"
        BY DEF Labels, Vector
      <4> QED BY <4>1, OperandsAre
    <3> QED BY <2>1, <3>1
  <2> QED BY <1>1, <1>4, <2>2, PushLeaves
<1>7. CASE program[n][1] = "LDL"
  <2>1. Instruction("LDL", Load(id, Labels))
    BY <1>5, <1>7 DEF Does, LDL, id
  <2>2. \A next \in Load(id, Labels) : Leaves(M, next, t.depth)
    BY <1>6 DEF Load, When
  <2>3. ~ t.triple
    BY <1>7 DEF Fits, Moves
  <2> QED BY <1>7, <2>1, <2>2, <2>3, PlainLine
<1>8. CASE program[n][1] = "LDV"
  <2>1. Instruction("LDV", Load(id, Vector))
    BY <1>5, <1>8 DEF Does, LDV, id
  <2>2. \A next \in Load(id, Vector) :
           Loadable(id) /\ Leaves(M, next, t.depth) /\ Top(next) = Vector(vectors[id])
    BY <1>6 DEF Load, When
  <2>3. ASSUME t.triple, NEW next \in Load(id, Vector)
        PROVE  Depth(next) > 0 /\ Len(Top(next).data) = 3
    <3>1. id \in Triples
      BY <1>3, <1>8, <2>3 DEF Fits, Moves
    <3>2. id \in DOMAIN vectors /\ Stored(vectors, id) # << >>
      BY <2>2, <2>3, LoadableType DEF Loadable
    <3>3. Len(vectors[id]) = 3
      BY <3>1, <3>2 DEF StoredWell, Stored
    <3>4. Depth(M) \in Nat /\ Depth(next) = Depth(M) + 1
      BY <1>1, <1>4, <2>2, <2>3, DepthType DEF Leaves
    <3>5. Top(next).data = vectors[id]
      <4>1. \A d : Vector(d).data = d
        BY DEF Vector
      <4>2. Top(next) = Vector(vectors[id])
        BY <2>2, <2>3
      <4> QED BY <4>1, <4>2
    <3> QED BY <3>3, <3>4, <3>5
  <2> QED BY <1>8, <2>1, <2>2, <2>3, PlainLine
<1> QED BY <1>7, <1>8

LEMMA StoreLine ==
    ASSUME TypeOK, Step, NEW program, IsProgram(program), NEW n \in 1 .. Len(program),
           NEW s, NEW t,
           AtLine(program, n, s), StoredWell(vectors), Fits(program, program[n], s, t),
           program[n][1] = "STV"
    PROVE  Revert \/ Continues(program, n, t)
<1> DEFINE id == program[n][2]
<1>1. M \in Machine /\ Full(M.stack) /\ Depth(M) = s.depth
  BY LineDoes DEF AtLine, HasShape
<1>2. /\ ~ NamesRegister(program[n]) /\ ~ HoldsAmount(program[n])
      /\ Arity(program[n][1]) = 1
  BY DEF NamesRegister, HoldsAmount, Arity
<1>3. Arg(1) = id
  BY <1>2, LineDoes
<1>4. /\ t.depth = s.depth - 1 /\ ~ t.triple /\ t.live \subseteq s.live
      /\ id # SolveQuadraticId /\ (id \in Triples => s.triple)
  BY DEF Fits, Moves, LiveAfter, Pushing, Replacing
<1>5. Store("STV", id, "Vector")
  BY <1>3, LineDoes DEF Does, STV
<1> HIDE DEF id
<1>6. CASE ~ (Depth(M) > 0 /\ Top(M).kind = "Vector")
  BY <1>5, <1>6 DEF Store
<1>7. CASE Depth(M) > 0 /\ Top(M).kind = "Vector"
  <2>1. /\ vectors' = Put(vectors, id, Top(M).data)
        /\ frames' = Replace(Advanced("STV", Drop(M, 1)))
        /\ UNCHANGED <<owner, committed, tx>>
    BY <1>5, <1>7 DEF Store
  <2>2. Advanced("STV", Drop(M, 1)) = After(program, n, Drop(M, 1))
    BY LineFetched
  <2>3. Leaves(M, Drop(M, 1), t.depth)
    BY <1>1, <1>4, <1>7, DropLeaves, DepthType
  <2>4. HasShape(program, Drop(M, 1), t)
    BY <1>4, <2>3, KeepsShape DEF AtLine
  <2>5. Stored(vectors', id) = Top(M).data
        /\ \A other : other # id => Stored(vectors', other) = Stored(vectors, other)
    BY <2>1 DEF Stored, Put
  <2>6. id \in Triples => Len(Top(M).data) = 3
    BY <1>4 DEF AtLine, HasShape
  <2>7. StoredWell(vectors')
    BY <1>4, <2>5, <2>6 DEF StoredWell
  <2> QED BY <2>1, <2>2, <2>4, <2>7 DEF Continues
<1> QED BY <1>6, <1>7

LEMMA RegisterLine ==
    ASSUME TypeOK, Step, NEW program, IsProgram(program), NEW n \in 1 .. Len(program),
           NEW s, NEW t,
           AtLine(program, n, s), StoredWell(vectors), Fits(program, program[n], s, t),
           program[n][1] \in {"LDR", "LDM", "STR"}
    PROVE  Revert \/ Continues(program, n, t)
<1> DEFINE i == program[n]
           x == i[2]
           reg == RegisterOf(program, x)
<1>1. /\ M \in Machine /\ HasShape(program, M, s) /\ Does(i[1])
  BY LineDoes DEF AtLine
<1>2. NamesRegister(i)
  BY DEF NamesRegister
<1>3. Pos(1) = reg
  BY <1>2, LineDoes
<1>4. x \in RegisterNames(program) /\ s.live \subseteq RegisterNames(program) /\ ~ t.triple
  BY <1>2 DEF RegisterNames, Fits, Moves
<1> HIDE DEF reg
<1>5. CASE i[1] = "STR"
  <2>1. Instruction(i[1], Str(M, reg))
    BY <1>1, <1>3, <1>5 DEF Does, STR
  <2>2. t.depth = s.depth - 1 /\ t.live \subseteq s.live \cup {x}
    BY <1>5 DEF Fits, Moves, LiveAfter, Pushing, Replacing
  <2>3. \A next \in Str(M, reg) : HasShape(program, next, t)
    BY <1>1, <1>4, <2>2, StrShape DEF reg
  <2> QED BY <2>1, <2>3, InstructionContinues
<1>6. CASE i[1] = "LDR"
  <2>1. Instruction(i[1], Ldr(M, reg))
    BY <1>1, <1>3, <1>6 DEF Does, LDR
  <2>2. t.depth = s.depth + 1 /\ t.live \subseteq s.live /\ x \in s.live
    BY <1>6 DEF Fits, Moves, LiveAfter, Pushing, Replacing
  <2>3. \A next \in Ldr(M, reg) : HasShape(program, next, t)
    BY <1>1, <1>4, <2>2, LdrShape DEF reg
  <2> QED BY <2>1, <2>3, InstructionContinues
<1>7. CASE i[1] = "LDM"
  <2>1. Instruction(i[1], Ldm(M, reg))
    BY <1>1, <1>3, <1>7 DEF Does, LDM
  <2>2. t.depth = s.depth + 1 /\ t.live \subseteq s.live \ {x} /\ x \in s.live
    BY <1>7 DEF Fits, Moves, LiveAfter, Pushing, Replacing
  <2>3. \A next \in Ldm(M, reg) : HasShape(program, next, t)
    BY <1>1, <1>4, <2>2, LdmShape DEF reg
  <2> QED BY <2>1, <2>3, InstructionContinues
<1> QED BY <1>5, <1>6, <1>7

LEMMA ReplacingLine ==
    ASSUME TypeOK, Step, NEW program, IsProgram(program), NEW n \in 1 .. Len(program),
           NEW s, NEW t,
           AtLine(program, n, s), StoredWell(vectors), Fits(program, program[n], s, t),
           program[n][1] \in Replacing
    PROVE  Revert \/ Continues(program, n, t)
<1> DEFINE i == program[n]
<1>1. M \in Machine /\ Full(M.stack) /\ Depth(M) = s.depth /\ Does(i[1])
  BY LineDoes DEF AtLine, HasShape
<1>2. t.depth = Depth(M) /\ ~ t.triple
  BY <1>1 DEF Fits, Moves, Pushing, Replacing
<1>3. i[1] \notin {"STR", "LDM"}
  BY DEF Replacing
<1>4. \A k \in 1 .. Arity(i[1]) : Pos(k) \in Nat
  BY LineDoes
<1>5. ASSUME NEW outcomes, Instruction(i[1], outcomes),
             \A next \in outcomes : Leaves(M, next, Depth(M))
      PROVE  Revert \/ Continues(program, n, t)
  BY <1>2, <1>3, <1>5, PlainLine
<1> HIDE DEF i
<1>6. CASE i[1] \in {"ADD", "SUB", "SSB", "MUL", "DIV", "MIN"}
  <2>1. Arity(i[1]) = 1
    BY <1>6 DEF Arity
  <2>2. Pos(1) \in Nat
    BY <1>4, <2>1
  <2> DEFINE all == Add(M, Pos(1)) \cup Sub(M, Pos(1)) \cup SsbTop(M, Pos(1)) \cup Mul(M, Pos(1))
                       \cup Div(M, Pos(1)) \cup MinTop(M, Pos(1))
  <2>3. \E outcomes \in SUBSET all : Instruction(i[1], outcomes)
    BY <1>1, <1>6 DEF Does, ADD, SUB, SSB, MUL, DIV, MIN
  <2>4. \A next \in all : Leaves(M, next, Depth(M))
    BY <1>1, <2>2, ArithmeticLeaves
  <2> HIDE DEF all
  <2> QED BY <1>5, <2>3, <2>4
<1>7. CASE i[1] = "SQRT"
  <2>1. Instruction(i[1], SqrtTop(M))
    BY <1>1, <1>7 DEF Does, SQRT
  <2> QED BY <1>1, <1>5, <2>1, SqrtLeaves
<1>8. CASE i[1] \in {"JADD", "JUPD"}
  <2>1. Arity(i[1]) = 3
    BY <1>8 DEF Arity
  <2>2. Pos(1) \in Nat /\ Pos(2) \in Nat /\ Pos(3) \in Nat
    BY <1>4, <2>1
  <2> DEFINE all == Jadd(M, Pos(1), Pos(2), Pos(3)) \cup Jupd(M, Pos(1), Pos(2), Pos(3))
  <2>3. \E outcomes \in SUBSET all : Instruction(i[1], outcomes)
    BY <1>1, <1>8 DEF Does, JADD, JUPD
  <2>4. \A next \in all : Leaves(M, next, Depth(M))
    BY <1>1, <2>2, JoinLeaves
  <2> HIDE DEF all
  <2> QED BY <1>5, <2>3, <2>4
<1>9. CASE i[1] = "JFLT"
  <2>1. Arity(i[1]) = 2
    BY <1>9 DEF Arity
  <2>2. Pos(1) \in Nat /\ Pos(2) \in Nat
    BY <1>4, <2>1
  <2>3. Instruction(i[1], Jflt(M, Pos(1), Pos(2)))
    BY <1>1, <1>9 DEF Does, JFLT
  <2>4. \A next \in Jflt(M, Pos(1), Pos(2)) : Leaves(M, next, Depth(M))
    BY <1>1, <2>2, JoinLeaves
  <2> QED BY <1>5, <2>3, <2>4
<1>10. CASE i[1] = "SWAP"
  <2>1. Arity(i[1]) = 1
    BY <1>10 DEF Arity
  <2>2. Pos(1) \in Nat
    BY <1>4, <2>1
  <2>3. Instruction(i[1], Swap(M, Pos(1)))
    BY <1>1, <1>10 DEF Does, SWAP
  <2> QED BY <1>1, <1>5, <2>2, <2>3, SwapLeaves
<1>11. i[1] \in Replacing
  BY DEF i
<1> QED BY <1>6, <1>7, <1>8, <1>9, <1>10, <1>11 DEF Replacing

LEMMA StackLine ==
    ASSUME TypeOK, Step, NEW program, IsProgram(program), NEW n \in 1 .. Len(program),
           NEW s, NEW t,
           AtLine(program, n, s), StoredWell(vectors), Fits(program, program[n], s, t),
           program[n][1] \in {"LDD", "IMMS", "POPN", "PKV", "UNPK"}
    PROVE  Revert \/ Continues(program, n, t)
<1> DEFINE i == program[n]
<1>1. M \in Machine /\ Full(M.stack) /\ Depth(M) = s.depth /\ Does(i[1])
  BY LineDoes DEF AtLine, HasShape
<1>2. i[1] \notin {"STR", "LDM"} /\ i[2] = program[n][2]
  OBVIOUS
<1>3. \A k \in 1 .. Arity(i[1]) : Arg(k) \in Amounts /\ Pos(k) \in Nat
  BY LineDoes
<1>4. ASSUME NEW outcomes, Instruction(i[1], outcomes),
             \A next \in outcomes : Leaves(M, next, t.depth),
             t.triple => \A next \in outcomes : Depth(next) > 0 /\ Len(Top(next).data) = 3
      PROVE  Revert \/ Continues(program, n, t)
  BY <1>2, <1>4, PlainLine
<1>5. CASE i[1] \in {"LDD", "IMMS"}
  <2>1. t.depth = Depth(M) + 1 /\ ~ t.triple /\ Arity(i[1]) = 1
    BY <1>1, <1>5 DEF Fits, Moves, Pushing, Replacing, Arity
  <2>2. Arg(1) \in Amounts /\ Pos(1) \in Nat
    BY <1>3, <2>1
  <2> HIDE DEF i
  <2>3. \E outcomes \in SUBSET (Ldd(M, Pos(1)) \cup Imms(M, Arg(1))) : Instruction(i[1], outcomes)
    BY <1>1, <1>5 DEF Does, LDD, IMMS
  <2>4. \A next \in Ldd(M, Pos(1)) \cup Imms(M, Arg(1)) : Leaves(M, next, t.depth)
    BY <1>1, <2>1, <2>2, LddLeaves, ImmsLeaves
  <2> QED BY <1>4, <2>1, <2>3, <2>4
<1>6. CASE i[1] = "UNPK"
  <2>1. t.depth = Depth(M) + 2 /\ ~ t.triple /\ s.triple
    BY <1>1, <1>6 DEF Fits, Moves, Pushing, Replacing
  <2>2. Len(Top(M).data) = 3 /\ Depth(M) \in Nat
    BY <1>1, <2>1, DepthType DEF AtLine, HasShape
  <2>3. Depth(M) - 1 + Len(Top(M).data) = t.depth
    BY <2>1, <2>2
  <2> HIDE DEF i
  <2>4. Instruction(i[1], Unpk(M))
    BY <1>1, <1>6 DEF Does, UNPK
  <2> QED BY <1>1, <1>4, <2>1, <2>3, <2>4, UnpkLeaves
<1>7. CASE i[1] \in {"POPN", "PKV"}
  <2>1. /\ Arity(i[1]) = 1 /\ ~ NamesRegister(i) /\ ~ HoldsAmount(i)
        /\ i[1] = "POPN" => t.depth = Depth(M) - i[2] /\ ~ t.triple
        /\ i[1] = "PKV" => t.depth = Depth(M) - i[2] + 1 /\ (t.triple => i[2] = 3)
        /\ i[2] < 100
    BY <1>1, <1>7 DEF Fits, Moves, Pushing, Replacing, NamesRegister, HoldsAmount, Arity
  <2>2. Pos(1) = i[2] % USIZE
    BY <2>1, LineDoes
  <2>3. i[2] \in Nat
    BY <2>1 DEF IsProgram, IsInstruction
  <2> HIDE DEF i
  <2>4. Pos(1) = i[2]
    <3>1. i[2] < 100
      BY <2>1
    <3>2. \A a \in Nat : a < 100 => a \in 0 .. 99
      OBVIOUS
    <3> QED BY <2>2, <2>3, <3>1, <3>2, SmallWords
  <2>5. CASE i[1] = "POPN"
    <3>1. Instruction(i[1], Popn(M, i[2]))
      BY <1>1, <2>4, <2>5 DEF Does, POPN
    <3> QED BY <1>1, <1>4, <2>1, <2>3, <2>5, <3>1, PopnLeaves
  <2>6. CASE i[1] = "PKV"
    <3>1. Instruction(i[1], Pkv(M, i[2]))
      BY <1>1, <2>4, <2>6 DEF Does, PKV
    <3>2. \A next \in Pkv(M, i[2]) : Leaves(M, next, t.depth) /\ Len(Top(next).data) = i[2]
      BY <1>1, <2>1, <2>3, <2>6, PkvLeaves
    <3>3. ASSUME t.triple, NEW next \in Pkv(M, i[2])
          PROVE  Depth(next) > 0 /\ Len(Top(next).data) = 3
      <4>1. i[2] = 3
        BY <2>1, <2>6, <3>3
      <4>2. 3 <= Depth(M)
        BY <3>3, <4>1 DEF Pkv, Pack, When, HasTop
      <4>3. Depth(next) = Depth(M) - 3 + 1
        BY <2>1, <2>6, <3>2, <3>3, <4>1 DEF Leaves
      <4> QED BY <1>1, <3>2, <3>3, <4>1, <4>2, <4>3, DepthType
    <3> QED BY <1>4, <3>1, <3>2, <3>3
  <2> QED BY <1>7, <2>5, <2>6
<1> QED BY <1>5, <1>6, <1>7

\* A line that fits takes its call from shape to shape, or reverts.
LEMMA LineStep ==
    ASSUME TypeOK, Step, NEW program, IsProgram(program), NEW n \in 1 .. Len(program),
           NEW s, NEW t,
           AtLine(program, n, s), StoredWell(vectors), Fits(program, program[n], s, t)
    PROVE  Revert \/ Continues(program, n, t)
<1>1. \/ program[n][1] \in {"LDL", "LDV"}
      \/ program[n][1] = "STV"
      \/ program[n][1] \in {"LDR", "LDM", "STR"}
      \/ program[n][1] \in Replacing
      \/ program[n][1] \in {"LDD", "IMMS", "POPN", "PKV", "UNPK"}
  BY DEF Fits, Moves, Pushing
<1> QED BY <1>1, LoadLine, StoreLine, RegisterLine, ReplacingLine, StackLine

-----------------------------------------------------------------------------
(***************************************************************************)
(* The shapes of the two programs, at every line.                          *)
(***************************************************************************)
BuyProgram(o) == ExecuteBuyOrderProgram(FillIds(o))

\* The depth of the stack before each line, and at the end.
BuyDepth ==
    <<0, 1, 0, 1, 3, 2, 1, 0, 1, 3, 3, 2, 1, 0, 1, 2, 3, 1, 0, 1, 2, 2, 1, 0, 1, 2, 2, 1, 0, 1,
    2, 3, 4, 5, 5, 6, 6, 6, 6, 6, 5, 5, 5, 6, 6, 6, 4, 3, 2, 3, 4, 4, 4, 3, 4, 5, 5, 5, 4, 5, 5,
    4, 4, 4, 3, 0, 1, 2, 1, 0, 1, 2, 1, 0, 1, 2, 2, 3, 3, 3, 2, 2, 3, 3, 3, 4, 4, 4, 3, 3, 3, 1,
    0, 1, 2, 2, 1, 0, 1, 0>>
CallDepth ==
    <<3, 2, 1, 0, 1, 1, 0, 1, 2, 2, 3, 3, 4, 4, 4, 5, 5, 5, 6, 7, 7, 7, 7, 7>>

\* The line that stores a register, and the one that reads it last.
BuyLife ==
    [Weights |-> <<2, 25>>, Spent |-> <<6, 85>>, Collateral |-> <<7, 82>>,
     Capacity |-> <<11, 19>>, Price |-> <<12, 77>>, Slope |-> <<13, 75>>,
     IndexQuantity |-> <<18, 94>>, CappedIndexQuantity |-> <<22, 93>>,
     AssetQuantities |-> <<27, 98>>, DemandLong |-> <<47, 66>>, DemandShort |-> <<48, 67>>,
     DeltaShort |-> <<61, 71>>, DeltaLong |-> <<64, 70>>]
CallLife ==
    [C |-> <<1, 8>>, P |-> <<2, 15>>, S |-> <<3, 18>>, P2 |-> <<6, 12>>]

LiveAt(life, n) == {x \in DOMAIN life : life[x][1] < n /\ n <= life[x][2]}
ShapeAt(depth, life, triples, n) ==
    [depth |-> depth[n], live |-> LiveAt(life, n), triple |-> n \in triples]

\* A quote or an order is on top of the stack at three lines.
BuyTriples   == {4, 9, 92}
BuyShape(n)  == ShapeAt(BuyDepth, BuyLife, BuyTriples, n)
CallShape(n) == ShapeAt(CallDepth, CallLife, {}, n)

\* The lifetimes are those of the program's registers.
Lives(program, life) ==
    /\ \A x \in DOMAIN life :
          /\ life[x][1] \in 1 .. Len(program) /\ life[x][2] \in Nat
          /\ program[life[x][1]] = <<"STR", x>>
    /\ \A n \in 1 .. Len(program) : program[n][1] = "LDM" => life[program[n][2]][2] = n

LEMMA RegistersFit ==
    ASSUME NEW program, IsProgram(program), NEW life, Lives(program, life),
           NEW n \in 1 .. Len(program)
    PROVE  /\ LiveAt(life, n) \subseteq RegisterNames(program)
           /\ LiveAt(life, n + 1) \subseteq LiveAfter(program[n], LiveAt(life, n))
<1>1. ASSUME NEW x \in DOMAIN life PROVE x \in RegisterNames(program)
  <2>1. life[x][1] \in 1 .. Len(program) /\ program[life[x][1]] = <<"STR", x>>
    BY DEF Lives
  <2>2. NamesRegister(program[life[x][1]]) /\ program[life[x][1]][2] = x
    BY <2>1 DEF NamesRegister
  <2> QED BY <2>1, <2>2 DEF RegisterNames
<1>2. ASSUME NEW x \in LiveAt(life, n + 1)
      PROVE  x \in LiveAfter(program[n], LiveAt(life, n))
  <2>1. x \in DOMAIN life /\ life[x][1] < n + 1 /\ n + 1 <= life[x][2]
    BY DEF LiveAt
  <2>2. life[x][1] \in Int /\ life[x][2] \in Int /\ n \in Int
    BY <2>1 DEF Lives, IsProgram
  <2>3. program[n][1] = "LDM" => life[program[n][2]][2] = n
    BY DEF Lives
  <2>4. program[n][1] = "LDM" => program[n][2] # x
    BY <2>1, <2>2, <2>3
  <2>5. life[x][1] = n => program[n] = <<"STR", x>>
    BY <2>1 DEF Lives
  <2>6. life[x][1] # n => x \in LiveAt(life, n)
    BY <2>1, <2>2 DEF LiveAt
  <2> QED BY <2>4, <2>5, <2>6 DEF LiveAfter
<1> QED BY <1>1, <1>2 DEF LiveAt

\* The ids of a fill: words, and which of them a fill may store under.
LEMMA FillIdsApart ==
    ASSUME NEW o \in Orders
    PROVE  /\ \A k \in DOMAIN FillIds(o) : FillIds(o)[k] \in Nat
           /\ FillIds(o).order \in Triples /\ FillIds(o).indexQuote \in Triples
           /\ FillIds(o).order # SolveQuadraticId
           /\ FillIds(o).solveQuadratic = SolveQuadraticId
           /\ \A k \in {"demandShort", "demandLong", "deltaShort", "deltaLong",
                         "executedIndexQuantities", "executedAssetQuantities"} :
                 FillIds(o)[k] \notin Triples \cup {SolveQuadraticId}
<1>1. o \in Nat /\ IndexOf[o] \in Indexes /\ IndexOf[o] \in 0 .. 99
      /\ Orders \subseteq Nat /\ Indexes \subseteq 0 .. 99
  BY BuyOrderAssumption
<1> DEFINE x == IndexOf[o]
<1> HIDE DEF x
<1>2. x \in Nat /\ x \in Indexes
  BY <1>1 DEF x
<1>3. \A k \in DOMAIN FillIds(o) : FillIds(o)[k] \in Nat
  BY <1>1, <1>2 DEF FillIds, OrderId, ExecutedIndexId, ExecutedAssetsId, NamesId, WeightsId,
     QuoteId, MarketIds, SolveQuadraticId, x
<1>4. FillIds(o).order = OrderId(o) /\ FillIds(o).indexQuote = QuoteId(x)
      /\ FillIds(o).solveQuadratic = SolveQuadraticId
  BY DEF FillIds, x
<1>5. \A p \in Triples : \/ \E y \in Nat : y <= 99 /\ p = 1003 + 10 * y
                         \/ \E y \in Nat : p = 2001 + 10 * y
  BY <1>1 DEF Triples, QuoteId, OrderId
<1>6. \A k \in {"demandShort", "demandLong", "deltaShort", "deltaLong",
                "executedIndexQuantities", "executedAssetQuantities"} :
         FillIds(o)[k] \in {102, 103, 104, 105, 106, 107, 2003 + 10 * o, 2002 + 10 * o}
  BY DEF FillIds, MarketIds, ExecutedIndexId, ExecutedAssetsId
<1>7. \A i \in {102, 103, 104, 105, 106, 107, 2003 + 10 * o, 2002 + 10 * o} :
         i \notin Triples /\ i # 10
  BY <1>1, <1>5
<1> QED
  BY <1>1, <1>2, <1>3, <1>4, <1>6, <1>7 DEF Triples, OrderId, SolveQuadraticId

-----------------------------------------------------------------------------
(***************************************************************************)
(* The two programs fit their shapes: one rule per kind of instruction, *)
(* and each line by its rule.                                              *)
(***************************************************************************)

\* Mnemonics with one argument.
OneWord == {"LDL", "LDV", "STV", "LDD", "PKV", "IMMS", "ADD", "SUB", "SSB", "MUL", "DIV",
            "MIN", "POPN", "SWAP"}

LEMMA Arities ==
    /\ \A x \in {"SQRT", "UNPK"} : x \in Mnemonics /\ Arity(x) = 0
    /\ \A x \in OneWord \cup {"LDR", "LDM", "STR"} : x \in Mnemonics /\ Arity(x) = 1
    /\ "JFLT" \in Mnemonics /\ Arity("JFLT") = 2
    /\ \A x \in {"JADD", "JUPD"} : x \in Mnemonics /\ Arity(x) = 3
    /\ "B" \in Mnemonics /\ Arity("B") = 4
<1>1. {"SQRT", "UNPK", "LDR", "LDM", "STR", "JFLT", "JADD", "JUPD", "B"} \cup OneWord
         \subseteq Mnemonics
  BY DEF Mnemonics, Opcode, OneWord
<1>2. \A x \in OneWord \cup {"LDR", "LDM", "STR"} : Arity(x) = 1
  BY DEF Arity, OneWord
<1>3. /\ \A x \in {"SQRT", "UNPK"} : Arity(x) = 0
      /\ Arity("JFLT") = 2
      /\ \A x \in {"JADD", "JUPD"} : Arity(x) = 3
      /\ Arity("B") = 4
  BY DEF Arity
<1> QED BY <1>1, <1>2, <1>3

LEMMA Instructions ==
    /\ \A x \in {"SQRT", "UNPK"} : IsInstruction(<<x>>)
    /\ \A x \in {"LDR", "LDM", "STR"} : \A a : IsInstruction(<<x, a>>)
    /\ \A x \in OneWord : \A a \in Nat : IsInstruction(<<x, a>>)
    /\ \A a, b \in Nat : IsInstruction(<<"JFLT", a, b>>)
    /\ \A x \in {"JADD", "JUPD"} : \A a, b, c \in Nat : IsInstruction(<<x, a, b, c>>)
    /\ \A a, b, c, d \in Nat : IsInstruction(<<"B", a, b, c, d>>)
<1>1. \A x \in {"SQRT", "UNPK"} : IsInstruction(<<x>>)
  BY Arities DEF IsInstruction
<1>2. \A x \in {"LDR", "LDM", "STR"} : \A a : IsInstruction(<<x, a>>)
  BY Arities DEF IsInstruction, NamesRegister
<1>3. \A x \in OneWord : \A a \in Nat : IsInstruction(<<x, a>>)
  BY Arities DEF IsInstruction
<1>4. \A a, b \in Nat : IsInstruction(<<"JFLT", a, b>>)
  BY Arities DEF IsInstruction
<1>5. \A x \in {"JADD", "JUPD"} : \A a, b, c \in Nat : IsInstruction(<<x, a, b, c>>)
  BY Arities DEF IsInstruction
<1>6. \A a, b, c, d \in Nat : IsInstruction(<<"B", a, b, c, d>>)
  BY Arities DEF IsInstruction
<1> QED BY <1>1, <1>2, <1>3, <1>4, <1>5, <1>6

LEMMA ShapeFields ==
    ASSUME NEW depth, NEW life, NEW triples, NEW n
    PROVE  LET s == ShapeAt(depth, life, triples, n)
           IN  s.depth = depth[n] /\ s.live = LiveAt(life, n) /\ (s.triple <=> n \in triples)
BY DEF ShapeAt

\* The buy order program calls its subroutine at this line.
CallLine == 17

\* Line n of the program is an instruction and fits between its shapes, but
\* for the call; the registers are a matter of lifetimes.
LineFits(program, depth, life, triples, n) ==
    /\ IsInstruction(program[n])
    /\ program[n][1] = "LDM" => life[program[n][2]][2] = n
    /\ \/ n = CallLine /\ program[n][1] = "B"
       \/ Moves(program[n], ShapeAt(depth, life, triples, n), ShapeAt(depth, life, triples, n + 1))

LEMMA PushRule ==
    ASSUME NEW program, NEW depth, NEW life, NEW triples, NEW n,
           NEW x \in Pushing, NEW a \in Nat, program[n] = <<x, a>>,
           depth[n + 1] = depth[n] + 1,
           n + 1 \in triples => x = "LDV" /\ a \in Triples
    PROVE  LineFits(program, depth, life, triples, n)
<1>1. x \in OneWord /\ x # "LDM"
  BY DEF Pushing, OneWord
<1>2. IsInstruction(program[n])
  BY <1>1, Instructions
<1> QED BY <1>1, <1>2, ShapeFields DEF LineFits, Moves

LEMMA ReadRule ==
    ASSUME NEW program, NEW depth, NEW life, NEW triples, NEW n,
           NEW x \in LiveAt(life, n), program[n] = <<"LDR", x>>,
           depth[n + 1] = depth[n] + 1, n + 1 \notin triples
    PROVE  LineFits(program, depth, life, triples, n)
<1>1. IsInstruction(program[n])
  BY Instructions
<1> QED BY <1>1, ShapeFields DEF LineFits, Moves

LEMMA MoveRule ==
    ASSUME NEW program, NEW depth, NEW life, NEW triples, NEW n,
           NEW x \in LiveAt(life, n), program[n] = <<"LDM", x>>, life[x][2] = n,
           depth[n + 1] = depth[n] + 1, n + 1 \notin triples
    PROVE  LineFits(program, depth, life, triples, n)
<1>1. IsInstruction(program[n])
  BY Instructions
<1> QED BY <1>1, ShapeFields DEF LineFits, Moves

LEMMA KeepRule ==
    ASSUME NEW program, NEW depth, NEW life, NEW triples, NEW n,
           NEW x, program[n] = <<"STR", x>>,
           depth[n + 1] = depth[n] - 1, n + 1 \notin triples
    PROVE  LineFits(program, depth, life, triples, n)
<1>1. IsInstruction(program[n])
  BY Instructions
<1> QED BY <1>1, ShapeFields DEF LineFits, Moves

LEMMA StoreRule ==
    ASSUME NEW program, NEW depth, NEW life, NEW triples, NEW n,
           NEW a \in Nat, program[n] = <<"STV", a>>,
           a # SolveQuadraticId, a \in Triples => n \in triples,
           depth[n + 1] = depth[n] - 1, n + 1 \notin triples
    PROVE  LineFits(program, depth, life, triples, n)
<1>1. IsInstruction(program[n])
  BY Instructions DEF OneWord
<1> QED BY <1>1, ShapeFields DEF LineFits, Moves

LEMMA ReplaceRule ==
    ASSUME NEW program, NEW depth, NEW life, NEW triples, NEW n,
           NEW x \in {"ADD", "SUB", "SSB", "MUL", "DIV", "MIN", "SWAP"}, NEW a \in Nat,
           program[n] = <<x, a>>,
           depth[n + 1] = depth[n], n + 1 \notin triples
    PROVE  LineFits(program, depth, life, triples, n)
<1>1. IsInstruction(program[n]) /\ program[n][1] # "LDM"
  BY Instructions DEF OneWord
<1> QED BY <1>1, ShapeFields DEF LineFits, Moves, Replacing

LEMMA RootRule ==
    ASSUME NEW program, NEW depth, NEW life, NEW triples, NEW n,
           NEW x \in {"SQRT"}, program[n] = <<x>>,
           depth[n + 1] = depth[n], n + 1 \notin triples
    PROVE  LineFits(program, depth, life, triples, n)
<1>1. IsInstruction(program[n]) /\ program[n][1] # "LDM"
  BY Instructions DEF OneWord
<1> QED BY <1>1, ShapeFields DEF LineFits, Moves, Replacing

LEMMA FilterRule ==
    ASSUME NEW program, NEW depth, NEW life, NEW triples, NEW n,
           NEW a \in Nat, NEW b \in Nat, program[n] = <<"JFLT", a, b>>,
           depth[n + 1] = depth[n], n + 1 \notin triples
    PROVE  LineFits(program, depth, life, triples, n)
<1>1. IsInstruction(program[n]) /\ program[n][1] # "LDM"
  BY Instructions DEF OneWord
<1> QED BY <1>1, ShapeFields DEF LineFits, Moves, Replacing

LEMMA JoinRule ==
    ASSUME NEW program, NEW depth, NEW life, NEW triples, NEW n,
           NEW x \in {"JADD", "JUPD"}, NEW a \in Nat, NEW b \in Nat, NEW c \in Nat,
           program[n] = <<x, a, b, c>>,
           depth[n + 1] = depth[n], n + 1 \notin triples
    PROVE  LineFits(program, depth, life, triples, n)
<1>1. IsInstruction(program[n]) /\ program[n][1] # "LDM"
  BY Instructions DEF OneWord
<1> QED BY <1>1, ShapeFields DEF LineFits, Moves, Replacing

LEMMA UnpackRule ==
    ASSUME NEW program, NEW depth, NEW life, NEW triples, NEW n,
           program[n] = <<"UNPK">>, n \in triples,
           depth[n + 1] = depth[n] + 2, n + 1 \notin triples
    PROVE  LineFits(program, depth, life, triples, n)
<1>1. IsInstruction(program[n])
  BY Instructions
<1> QED BY <1>1, ShapeFields DEF LineFits, Moves

LEMMA PopRule ==
    ASSUME NEW program, NEW depth, NEW life, NEW triples, NEW n,
           program[n] = <<"POPN", program[n][2]>>, program[n][2] \in Nat, program[n][2] < 100,
           depth[n + 1] = depth[n] - program[n][2], n + 1 \notin triples
    PROVE  LineFits(program, depth, life, triples, n)
<1>1. IsInstruction(program[n])
  BY Instructions DEF OneWord
<1> QED BY <1>1, ShapeFields DEF LineFits, Moves

LEMMA PackRule ==
    ASSUME NEW program, NEW depth, NEW life, NEW triples, NEW n,
           program[n] = <<"PKV", program[n][2]>>, program[n][2] \in Nat, program[n][2] < 100,
           depth[n + 1] = depth[n] - program[n][2] + 1, n + 1 \in triples => program[n][2] = 3
    PROVE  LineFits(program, depth, life, triples, n)
<1>1. IsInstruction(program[n])
  BY Instructions DEF OneWord
<1> QED BY <1>1, ShapeFields DEF LineFits, Moves

LEMMA CallRule ==
    ASSUME NEW program, NEW depth, NEW life, NEW triples, NEW n,
           NEW a \in Nat, program[n] = <<"B", a, 3, 1, 4>>, n = CallLine
    PROVE  LineFits(program, depth, life, triples, n)
<1>1. IsInstruction(program[n])
  BY Instructions
<1> QED BY <1>1 DEF LineFits

LEMMA CallLines1To12 ==
    \A n \in 1 .. 12 : LineFits(SolveQuadratic, CallDepth, CallLife, {}, n)
<1> DEFINE P == SolveQuadratic
<1>1. /\ P[1] = <<"STR", "C">> /\ P[2] = <<"STR", "P">> /\ P[3] = <<"STR", "S">>
      /\ P[4] = <<"LDR", "P">> /\ P[5] = <<"MUL", 0>> /\ P[6] = <<"STR", "P2">>
      /\ P[7] = <<"LDR", "S">> /\ P[8] = <<"LDM", "C">> /\ P[9] = <<"MUL", 1>>
      /\ P[10] = <<"IMMS", 4>> /\ P[11] = <<"MUL", 1>> /\ P[12] = <<"LDM", "P2">>
  BY DEF SolveQuadratic
<1>2. /\ CallDepth[1] = 3 /\ CallDepth[2] = 2 /\ CallDepth[3] = 1 /\ CallDepth[4] = 0
      /\ CallDepth[5] = 1 /\ CallDepth[6] = 1 /\ CallDepth[7] = 0 /\ CallDepth[8] = 1
      /\ CallDepth[9] = 2 /\ CallDepth[10] = 2 /\ CallDepth[11] = 3 /\ CallDepth[12] = 3
      /\ CallDepth[13] = 4
  BY DEF CallDepth
<1>3. /\ "P" \in LiveAt(CallLife, 4) /\ "S" \in LiveAt(CallLife, 7)
      /\ "C" \in LiveAt(CallLife, 8) /\ CallLife["C"][2] = 8 /\ "P2" \in LiveAt(CallLife, 12)
      /\ CallLife["P2"][2] = 12
  BY DEF LiveAt, CallLife
<1> HIDE DEF P
<1>4. LineFits(P, CallDepth, CallLife, {}, 1)
  BY <1>1, <1>2, KeepRule
<1>5. LineFits(P, CallDepth, CallLife, {}, 2)
  BY <1>1, <1>2, KeepRule
<1>6. LineFits(P, CallDepth, CallLife, {}, 3)
  BY <1>1, <1>2, KeepRule
<1>7. LineFits(P, CallDepth, CallLife, {}, 4)
  BY <1>1, <1>2, <1>3, ReadRule
<1>8. LineFits(P, CallDepth, CallLife, {}, 5)
  BY <1>1, <1>2, ReplaceRule
<1>9. LineFits(P, CallDepth, CallLife, {}, 6)
  BY <1>1, <1>2, KeepRule
<1>10. LineFits(P, CallDepth, CallLife, {}, 7)
  BY <1>1, <1>2, <1>3, ReadRule
<1>11. LineFits(P, CallDepth, CallLife, {}, 8)
  BY <1>1, <1>2, <1>3, MoveRule
<1>12. LineFits(P, CallDepth, CallLife, {}, 9)
  BY <1>1, <1>2, ReplaceRule
<1>13. LineFits(P, CallDepth, CallLife, {}, 10)
  BY <1>1, <1>2, PushRule DEF Pushing
<1>14. LineFits(P, CallDepth, CallLife, {}, 11)
  BY <1>1, <1>2, ReplaceRule
<1>15. LineFits(P, CallDepth, CallLife, {}, 12)
  BY <1>1, <1>2, <1>3, MoveRule
<1>16. 1 .. 12 = {1, 2, 3, 4, 5, 6, 7, 8, 9, 10, 11, 12}
  OBVIOUS
<1> QED BY <1>4, <1>5, <1>6, <1>7, <1>8, <1>9, <1>10, <1>11, <1>12, <1>13, <1>14, <1>15, <1>16 DEF P

LEMMA CallLines13To23 ==
    \A n \in 13 .. 23 : LineFits(SolveQuadratic, CallDepth, CallLife, {}, n)
<1> DEFINE P == SolveQuadratic
<1>1. /\ P[13] = <<"ADD", 1>> /\ P[14] = <<"SQRT">> /\ P[15] = <<"LDM", "P">>
      /\ P[16] = <<"SWAP", 1>> /\ P[17] = <<"SSB", 1>> /\ P[18] = <<"LDM", "S">>
      /\ P[19] = <<"IMMS", 2>> /\ P[20] = <<"SWAP", 1>> /\ P[21] = <<"MUL", 1>>
      /\ P[22] = <<"SWAP", 2>> /\ P[23] = <<"DIV", 2>>
  BY DEF SolveQuadratic
<1>2. /\ CallDepth[13] = 4 /\ CallDepth[14] = 4 /\ CallDepth[15] = 4 /\ CallDepth[16] = 5
      /\ CallDepth[17] = 5 /\ CallDepth[18] = 5 /\ CallDepth[19] = 6 /\ CallDepth[20] = 7
      /\ CallDepth[21] = 7 /\ CallDepth[22] = 7 /\ CallDepth[23] = 7 /\ CallDepth[24] = 7
  BY DEF CallDepth
<1>3. /\ "P" \in LiveAt(CallLife, 15) /\ CallLife["P"][2] = 15 /\ "S" \in LiveAt(CallLife, 18)
      /\ CallLife["S"][2] = 18
  BY DEF LiveAt, CallLife
<1> HIDE DEF P
<1>4. LineFits(P, CallDepth, CallLife, {}, 13)
  BY <1>1, <1>2, ReplaceRule
<1>5. LineFits(P, CallDepth, CallLife, {}, 14)
  BY <1>1, <1>2, RootRule
<1>6. LineFits(P, CallDepth, CallLife, {}, 15)
  BY <1>1, <1>2, <1>3, MoveRule
<1>7. LineFits(P, CallDepth, CallLife, {}, 16)
  BY <1>1, <1>2, ReplaceRule
<1>8. LineFits(P, CallDepth, CallLife, {}, 17)
  BY <1>1, <1>2, ReplaceRule
<1>9. LineFits(P, CallDepth, CallLife, {}, 18)
  BY <1>1, <1>2, <1>3, MoveRule
<1>10. LineFits(P, CallDepth, CallLife, {}, 19)
  BY <1>1, <1>2, PushRule DEF Pushing
<1>11. LineFits(P, CallDepth, CallLife, {}, 20)
  BY <1>1, <1>2, ReplaceRule
<1>12. LineFits(P, CallDepth, CallLife, {}, 21)
  BY <1>1, <1>2, ReplaceRule
<1>13. LineFits(P, CallDepth, CallLife, {}, 22)
  BY <1>1, <1>2, ReplaceRule
<1>14. LineFits(P, CallDepth, CallLife, {}, 23)
  BY <1>1, <1>2, ReplaceRule
<1>15. 13 .. 23 = {13, 14, 15, 16, 17, 18, 19, 20, 21, 22, 23}
  OBVIOUS
<1> QED BY <1>4, <1>5, <1>6, <1>7, <1>8, <1>9, <1>10, <1>11, <1>12, <1>13, <1>14, <1>15 DEF P

LEMMA BuyLines1To10 ==
    ASSUME NEW o \in Orders
    PROVE  \A n \in 1 .. 10 : LineFits(BuyProgram(o), BuyDepth, BuyLife, BuyTriples, n)
<1> DEFINE P == BuyProgram(o)
<1>1. /\ FillIds(o).assetWeights \in Nat /\ FillIds(o).order \in Nat
      /\ FillIds(o).order \in Triples /\ FillIds(o).indexQuote \in Nat
      /\ FillIds(o).indexQuote \in Triples
  BY FillIdsApart DEF FillIds
<1>2. /\ P[1] = <<"LDV", FillIds(o).assetWeights>> /\ P[2] = <<"STR", "Weights">>
      /\ P[3] = <<"LDV", FillIds(o).order>> /\ P[4] = <<"UNPK">> /\ P[5] = <<"STR", "Minted">>
      /\ P[6] = <<"STR", "Spent">> /\ P[7] = <<"STR", "Collateral">>
      /\ P[8] = <<"LDV", FillIds(o).indexQuote>> /\ P[9] = <<"UNPK">> /\ P[10] = <<"SWAP", 2>>
  BY DEF BuyProgram, ExecuteBuyOrderProgram
<1>3. /\ BuyDepth[1] = 0 /\ BuyDepth[2] = 1 /\ BuyDepth[3] = 0 /\ BuyDepth[4] = 1
      /\ BuyDepth[5] = 3 /\ BuyDepth[6] = 2 /\ BuyDepth[7] = 1 /\ BuyDepth[8] = 0
      /\ BuyDepth[9] = 1 /\ BuyDepth[10] = 3 /\ BuyDepth[11] = 3
      /\ BuyTriples = {4, 9, 92}
  BY DEF BuyDepth, BuyTriples
<1> HIDE DEF P
<1>4. LineFits(P, BuyDepth, BuyLife, BuyTriples, 1)
  BY <1>1, <1>2, <1>3, PushRule DEF Pushing
<1>5. LineFits(P, BuyDepth, BuyLife, BuyTriples, 2)
  BY <1>2, <1>3, KeepRule
<1>6. LineFits(P, BuyDepth, BuyLife, BuyTriples, 3)
  BY <1>1, <1>2, <1>3, PushRule DEF Pushing
<1>7. LineFits(P, BuyDepth, BuyLife, BuyTriples, 4)
  BY <1>2, <1>3, UnpackRule
<1>8. LineFits(P, BuyDepth, BuyLife, BuyTriples, 5)
  BY <1>2, <1>3, KeepRule
<1>9. LineFits(P, BuyDepth, BuyLife, BuyTriples, 6)
  BY <1>2, <1>3, KeepRule
<1>10. LineFits(P, BuyDepth, BuyLife, BuyTriples, 7)
  BY <1>2, <1>3, KeepRule
<1>11. LineFits(P, BuyDepth, BuyLife, BuyTriples, 8)
  BY <1>1, <1>2, <1>3, PushRule DEF Pushing
<1>12. LineFits(P, BuyDepth, BuyLife, BuyTriples, 9)
  BY <1>2, <1>3, UnpackRule
<1>13. LineFits(P, BuyDepth, BuyLife, BuyTriples, 10)
  BY <1>2, <1>3, ReplaceRule
<1>14. 1 .. 10 = {1, 2, 3, 4, 5, 6, 7, 8, 9, 10}
  OBVIOUS
<1> QED BY <1>4, <1>5, <1>6, <1>7, <1>8, <1>9, <1>10, <1>11, <1>12, <1>13, <1>14 DEF P

LEMMA BuyLines11To20 ==
    ASSUME NEW o \in Orders
    PROVE  \A n \in 11 .. 20 : LineFits(BuyProgram(o), BuyDepth, BuyLife, BuyTriples, n)
<1> DEFINE P == BuyProgram(o)
<1>1. /\ FillIds(o).solveQuadratic \in Nat
  BY FillIdsApart DEF FillIds
<1>2. /\ P[11] = <<"STR", "Capacity">> /\ P[12] = <<"STR", "Price">>
      /\ P[13] = <<"STR", "Slope">> /\ P[14] = <<"LDR", "Slope">> /\ P[15] = <<"LDR", "Price">>
      /\ P[16] = <<"LDR", "Collateral">> /\ P[17] = <<"B", FillIds(o).solveQuadratic, 3, 1, 4>>
      /\ P[18] = <<"STR", "IndexQuantity">> /\ P[19] = <<"LDM", "Capacity">>
      /\ P[20] = <<"LDR", "IndexQuantity">>
  BY DEF BuyProgram, ExecuteBuyOrderProgram
<1>3. /\ BuyDepth[11] = 3 /\ BuyDepth[12] = 2 /\ BuyDepth[13] = 1 /\ BuyDepth[14] = 0
      /\ BuyDepth[15] = 1 /\ BuyDepth[16] = 2 /\ BuyDepth[17] = 3 /\ BuyDepth[18] = 1
      /\ BuyDepth[19] = 0 /\ BuyDepth[20] = 1 /\ BuyDepth[21] = 2
      /\ BuyTriples = {4, 9, 92}
  BY DEF BuyDepth, BuyTriples
<1>4. /\ "Slope" \in LiveAt(BuyLife, 14) /\ "Price" \in LiveAt(BuyLife, 15)
      /\ "Collateral" \in LiveAt(BuyLife, 16) /\ "Capacity" \in LiveAt(BuyLife, 19)
      /\ BuyLife["Capacity"][2] = 19 /\ "IndexQuantity" \in LiveAt(BuyLife, 20)
  BY DEF LiveAt, BuyLife
<1> HIDE DEF P
<1>5. LineFits(P, BuyDepth, BuyLife, BuyTriples, 11)
  BY <1>2, <1>3, KeepRule
<1>6. LineFits(P, BuyDepth, BuyLife, BuyTriples, 12)
  BY <1>2, <1>3, KeepRule
<1>7. LineFits(P, BuyDepth, BuyLife, BuyTriples, 13)
  BY <1>2, <1>3, KeepRule
<1>8. LineFits(P, BuyDepth, BuyLife, BuyTriples, 14)
  BY <1>2, <1>3, <1>4, ReadRule
<1>9. LineFits(P, BuyDepth, BuyLife, BuyTriples, 15)
  BY <1>2, <1>3, <1>4, ReadRule
<1>10. LineFits(P, BuyDepth, BuyLife, BuyTriples, 16)
  BY <1>2, <1>3, <1>4, ReadRule
<1>11. LineFits(P, BuyDepth, BuyLife, BuyTriples, 17)
  BY <1>1, <1>2, <1>3, CallRule DEF CallLine
<1>12. LineFits(P, BuyDepth, BuyLife, BuyTriples, 18)
  BY <1>2, <1>3, KeepRule
<1>13. LineFits(P, BuyDepth, BuyLife, BuyTriples, 19)
  BY <1>2, <1>3, <1>4, MoveRule
<1>14. LineFits(P, BuyDepth, BuyLife, BuyTriples, 20)
  BY <1>2, <1>3, <1>4, ReadRule
<1>15. 11 .. 20 = {11, 12, 13, 14, 15, 16, 17, 18, 19, 20}
  OBVIOUS
<1> QED BY <1>5, <1>6, <1>7, <1>8, <1>9, <1>10, <1>11, <1>12, <1>13, <1>14, <1>15 DEF P

LEMMA BuyLines21To30 ==
    ASSUME NEW o \in Orders
    PROVE  \A n \in 21 .. 30 : LineFits(BuyProgram(o), BuyDepth, BuyLife, BuyTriples, n)
<1> DEFINE P == BuyProgram(o)
<1>1. /\ FillIds(o).assetNames \in Nat /\ FillIds(o).marketAssetNames \in Nat
  BY FillIdsApart DEF FillIds
<1>2. /\ P[21] = <<"MIN", 1>> /\ P[22] = <<"STR", "CappedIndexQuantity">>
      /\ P[23] = <<"POPN", 1>> /\ P[24] = <<"LDR", "CappedIndexQuantity">>
      /\ P[25] = <<"LDM", "Weights">> /\ P[26] = <<"MUL", 1>>
      /\ P[27] = <<"STR", "AssetQuantities">> /\ P[28] = <<"POPN", 1>>
      /\ P[29] = <<"LDL", FillIds(o).assetNames>>
      /\ P[30] = <<"LDL", FillIds(o).marketAssetNames>>
  BY DEF BuyProgram, ExecuteBuyOrderProgram
<1>3. /\ BuyDepth[21] = 2 /\ BuyDepth[22] = 2 /\ BuyDepth[23] = 1 /\ BuyDepth[24] = 0
      /\ BuyDepth[25] = 1 /\ BuyDepth[26] = 2 /\ BuyDepth[27] = 2 /\ BuyDepth[28] = 1
      /\ BuyDepth[29] = 0 /\ BuyDepth[30] = 1 /\ BuyDepth[31] = 2
      /\ BuyTriples = {4, 9, 92}
  BY DEF BuyDepth, BuyTriples
<1>4. /\ "CappedIndexQuantity" \in LiveAt(BuyLife, 24) /\ "Weights" \in LiveAt(BuyLife, 25)
      /\ BuyLife["Weights"][2] = 25
  BY DEF LiveAt, BuyLife
<1> HIDE DEF P
<1>5. LineFits(P, BuyDepth, BuyLife, BuyTriples, 21)
  BY <1>2, <1>3, ReplaceRule
<1>6. LineFits(P, BuyDepth, BuyLife, BuyTriples, 22)
  BY <1>2, <1>3, KeepRule
<1>7. LineFits(P, BuyDepth, BuyLife, BuyTriples, 23)
  BY <1>2, <1>3, PopRule
<1>8. LineFits(P, BuyDepth, BuyLife, BuyTriples, 24)
  BY <1>2, <1>3, <1>4, ReadRule
<1>9. LineFits(P, BuyDepth, BuyLife, BuyTriples, 25)
  BY <1>2, <1>3, <1>4, MoveRule
<1>10. LineFits(P, BuyDepth, BuyLife, BuyTriples, 26)
  BY <1>2, <1>3, ReplaceRule
<1>11. LineFits(P, BuyDepth, BuyLife, BuyTriples, 27)
  BY <1>2, <1>3, KeepRule
<1>12. LineFits(P, BuyDepth, BuyLife, BuyTriples, 28)
  BY <1>2, <1>3, PopRule
<1>13. LineFits(P, BuyDepth, BuyLife, BuyTriples, 29)
  BY <1>1, <1>2, <1>3, PushRule DEF Pushing
<1>14. LineFits(P, BuyDepth, BuyLife, BuyTriples, 30)
  BY <1>1, <1>2, <1>3, PushRule DEF Pushing
<1>15. 21 .. 30 = {21, 22, 23, 24, 25, 26, 27, 28, 29, 30}
  OBVIOUS
<1> QED BY <1>5, <1>6, <1>7, <1>8, <1>9, <1>10, <1>11, <1>12, <1>13, <1>14, <1>15 DEF P

LEMMA BuyLines31To40 ==
    ASSUME NEW o \in Orders
    PROVE  \A n \in 31 .. 40 : LineFits(BuyProgram(o), BuyDepth, BuyLife, BuyTriples, n)
<1> DEFINE P == BuyProgram(o)
<1>1. /\ FillIds(o).demandShort \in Nat
  BY FillIdsApart DEF FillIds
<1>2. /\ P[31] = <<"LDV", FillIds(o).demandShort>> /\ P[32] = <<"LDR", "AssetQuantities">>
      /\ P[33] = <<"LDD", 1>> /\ P[34] = <<"JFLT", 3, 4>> /\ P[35] = <<"LDD", 0>>
      /\ P[36] = <<"SSB", 2>> /\ P[37] = <<"SWAP", 3>> /\ P[38] = <<"JUPD", 3, 4, 5>>
      /\ P[39] = <<"SWAP", 3>> /\ P[40] = <<"POPN", 1>>
  BY DEF BuyProgram, ExecuteBuyOrderProgram
<1>3. /\ BuyDepth[31] = 2 /\ BuyDepth[32] = 3 /\ BuyDepth[33] = 4 /\ BuyDepth[34] = 5
      /\ BuyDepth[35] = 5 /\ BuyDepth[36] = 6 /\ BuyDepth[37] = 6 /\ BuyDepth[38] = 6
      /\ BuyDepth[39] = 6 /\ BuyDepth[40] = 6 /\ BuyDepth[41] = 5
      /\ BuyTriples = {4, 9, 92}
  BY DEF BuyDepth, BuyTriples
<1>4. /\ "AssetQuantities" \in LiveAt(BuyLife, 32)
  BY DEF LiveAt, BuyLife
<1> HIDE DEF P
<1>5. LineFits(P, BuyDepth, BuyLife, BuyTriples, 31)
  BY <1>1, <1>2, <1>3, PushRule DEF Pushing
<1>6. LineFits(P, BuyDepth, BuyLife, BuyTriples, 32)
  BY <1>2, <1>3, <1>4, ReadRule
<1>7. LineFits(P, BuyDepth, BuyLife, BuyTriples, 33)
  BY <1>2, <1>3, PushRule DEF Pushing
<1>8. LineFits(P, BuyDepth, BuyLife, BuyTriples, 34)
  BY <1>2, <1>3, FilterRule
<1>9. LineFits(P, BuyDepth, BuyLife, BuyTriples, 35)
  BY <1>2, <1>3, PushRule DEF Pushing
<1>10. LineFits(P, BuyDepth, BuyLife, BuyTriples, 36)
  BY <1>2, <1>3, ReplaceRule
<1>11. LineFits(P, BuyDepth, BuyLife, BuyTriples, 37)
  BY <1>2, <1>3, ReplaceRule
<1>12. LineFits(P, BuyDepth, BuyLife, BuyTriples, 38)
  BY <1>2, <1>3, JoinRule
<1>13. LineFits(P, BuyDepth, BuyLife, BuyTriples, 39)
  BY <1>2, <1>3, ReplaceRule
<1>14. LineFits(P, BuyDepth, BuyLife, BuyTriples, 40)
  BY <1>2, <1>3, PopRule
<1>15. 31 .. 40 = {31, 32, 33, 34, 35, 36, 37, 38, 39, 40}
  OBVIOUS
<1> QED BY <1>5, <1>6, <1>7, <1>8, <1>9, <1>10, <1>11, <1>12, <1>13, <1>14, <1>15 DEF P

LEMMA BuyLines41To50 ==
    ASSUME NEW o \in Orders
    PROVE  \A n \in 41 .. 50 : LineFits(BuyProgram(o), BuyDepth, BuyLife, BuyTriples, n)
<1> DEFINE P == BuyProgram(o)
<1>1. /\ FillIds(o).demandLong \in Nat /\ FillIds(o).supplyLong \in Nat
  BY FillIdsApart DEF FillIds
<1>2. /\ P[41] = <<"SWAP", 1>> /\ P[42] = <<"SSB", 1>>
      /\ P[43] = <<"LDV", FillIds(o).demandLong>> /\ P[44] = <<"JADD", 1, 4, 5>>
      /\ P[45] = <<"SWAP", 2>> /\ P[46] = <<"POPN", 2>> /\ P[47] = <<"STR", "DemandLong">>
      /\ P[48] = <<"STR", "DemandShort">> /\ P[49] = <<"LDV", FillIds(o).supplyLong>>
      /\ P[50] = <<"LDR", "DemandShort">>
  BY DEF BuyProgram, ExecuteBuyOrderProgram
<1>3. /\ BuyDepth[41] = 5 /\ BuyDepth[42] = 5 /\ BuyDepth[43] = 5 /\ BuyDepth[44] = 6
      /\ BuyDepth[45] = 6 /\ BuyDepth[46] = 6 /\ BuyDepth[47] = 4 /\ BuyDepth[48] = 3
      /\ BuyDepth[49] = 2 /\ BuyDepth[50] = 3 /\ BuyDepth[51] = 4
      /\ BuyTriples = {4, 9, 92}
  BY DEF BuyDepth, BuyTriples
<1>4. /\ "DemandShort" \in LiveAt(BuyLife, 50)
  BY DEF LiveAt, BuyLife
<1> HIDE DEF P
<1>5. LineFits(P, BuyDepth, BuyLife, BuyTriples, 41)
  BY <1>2, <1>3, ReplaceRule
<1>6. LineFits(P, BuyDepth, BuyLife, BuyTriples, 42)
  BY <1>2, <1>3, ReplaceRule
<1>7. LineFits(P, BuyDepth, BuyLife, BuyTriples, 43)
  BY <1>1, <1>2, <1>3, PushRule DEF Pushing
<1>8. LineFits(P, BuyDepth, BuyLife, BuyTriples, 44)
  BY <1>2, <1>3, JoinRule
<1>9. LineFits(P, BuyDepth, BuyLife, BuyTriples, 45)
  BY <1>2, <1>3, ReplaceRule
<1>10. LineFits(P, BuyDepth, BuyLife, BuyTriples, 46)
  BY <1>2, <1>3, PopRule
<1>11. LineFits(P, BuyDepth, BuyLife, BuyTriples, 47)
  BY <1>2, <1>3, KeepRule
<1>12. LineFits(P, BuyDepth, BuyLife, BuyTriples, 48)
  BY <1>2, <1>3, KeepRule
<1>13. LineFits(P, BuyDepth, BuyLife, BuyTriples, 49)
  BY <1>1, <1>2, <1>3, PushRule DEF Pushing
<1>14. LineFits(P, BuyDepth, BuyLife, BuyTriples, 50)
  BY <1>2, <1>3, <1>4, ReadRule
<1>15. 41 .. 50 = {41, 42, 43, 44, 45, 46, 47, 48, 49, 50}
  OBVIOUS
<1> QED BY <1>5, <1>6, <1>7, <1>8, <1>9, <1>10, <1>11, <1>12, <1>13, <1>14, <1>15 DEF P

LEMMA BuyLines51To60 ==
    ASSUME NEW o \in Orders
    PROVE  \A n \in 51 .. 60 : LineFits(BuyProgram(o), BuyDepth, BuyLife, BuyTriples, n)
<1> DEFINE P == BuyProgram(o)
<1>1. /\ FillIds(o).supplyShort \in Nat
  BY FillIdsApart DEF FillIds
<1>2. /\ P[51] = <<"ADD", 1>> /\ P[52] = <<"SWAP", 1>> /\ P[53] = <<"POPN", 1>>
      /\ P[54] = <<"LDV", FillIds(o).supplyShort>> /\ P[55] = <<"LDR", "DemandLong">>
      /\ P[56] = <<"ADD", 1>> /\ P[57] = <<"SWAP", 1>> /\ P[58] = <<"POPN", 1>>
      /\ P[59] = <<"LDD", 0>> /\ P[60] = <<"SSB", 2>>
  BY DEF BuyProgram, ExecuteBuyOrderProgram
<1>3. /\ BuyDepth[51] = 4 /\ BuyDepth[52] = 4 /\ BuyDepth[53] = 4 /\ BuyDepth[54] = 3
      /\ BuyDepth[55] = 4 /\ BuyDepth[56] = 5 /\ BuyDepth[57] = 5 /\ BuyDepth[58] = 5
      /\ BuyDepth[59] = 4 /\ BuyDepth[60] = 5 /\ BuyDepth[61] = 5
      /\ BuyTriples = {4, 9, 92}
  BY DEF BuyDepth, BuyTriples
<1>4. /\ "DemandLong" \in LiveAt(BuyLife, 55)
  BY DEF LiveAt, BuyLife
<1> HIDE DEF P
<1>5. LineFits(P, BuyDepth, BuyLife, BuyTriples, 51)
  BY <1>2, <1>3, ReplaceRule
<1>6. LineFits(P, BuyDepth, BuyLife, BuyTriples, 52)
  BY <1>2, <1>3, ReplaceRule
<1>7. LineFits(P, BuyDepth, BuyLife, BuyTriples, 53)
  BY <1>2, <1>3, PopRule
<1>8. LineFits(P, BuyDepth, BuyLife, BuyTriples, 54)
  BY <1>1, <1>2, <1>3, PushRule DEF Pushing
<1>9. LineFits(P, BuyDepth, BuyLife, BuyTriples, 55)
  BY <1>2, <1>3, <1>4, ReadRule
<1>10. LineFits(P, BuyDepth, BuyLife, BuyTriples, 56)
  BY <1>2, <1>3, ReplaceRule
<1>11. LineFits(P, BuyDepth, BuyLife, BuyTriples, 57)
  BY <1>2, <1>3, ReplaceRule
<1>12. LineFits(P, BuyDepth, BuyLife, BuyTriples, 58)
  BY <1>2, <1>3, PopRule
<1>13. LineFits(P, BuyDepth, BuyLife, BuyTriples, 59)
  BY <1>2, <1>3, PushRule DEF Pushing
<1>14. LineFits(P, BuyDepth, BuyLife, BuyTriples, 60)
  BY <1>2, <1>3, ReplaceRule
<1>15. 51 .. 60 = {51, 52, 53, 54, 55, 56, 57, 58, 59, 60}
  OBVIOUS
<1> QED BY <1>5, <1>6, <1>7, <1>8, <1>9, <1>10, <1>11, <1>12, <1>13, <1>14, <1>15 DEF P

LEMMA BuyLines61To70 ==
    ASSUME NEW o \in Orders
    PROVE  \A n \in 61 .. 70 : LineFits(BuyProgram(o), BuyDepth, BuyLife, BuyTriples, n)
<1> DEFINE P == BuyProgram(o)
<1>1. /\ FillIds(o).demandShort \in Nat
      /\ FillIds(o).demandShort \notin Triples \cup {SolveQuadraticId}
      /\ FillIds(o).demandLong \in Nat
      /\ FillIds(o).demandLong \notin Triples \cup {SolveQuadraticId}
  BY FillIdsApart DEF FillIds
<1>2. /\ P[61] = <<"STR", "DeltaShort">> /\ P[62] = <<"SWAP", 1>> /\ P[63] = <<"SSB", 1>>
      /\ P[64] = <<"STR", "DeltaLong">> /\ P[65] = <<"POPN", 3>>
      /\ P[66] = <<"LDM", "DemandLong">> /\ P[67] = <<"LDM", "DemandShort">>
      /\ P[68] = <<"STV", FillIds(o).demandShort>> /\ P[69] = <<"STV", FillIds(o).demandLong>>
      /\ P[70] = <<"LDM", "DeltaLong">>
  BY DEF BuyProgram, ExecuteBuyOrderProgram
<1>3. /\ BuyDepth[61] = 5 /\ BuyDepth[62] = 4 /\ BuyDepth[63] = 4 /\ BuyDepth[64] = 4
      /\ BuyDepth[65] = 3 /\ BuyDepth[66] = 0 /\ BuyDepth[67] = 1 /\ BuyDepth[68] = 2
      /\ BuyDepth[69] = 1 /\ BuyDepth[70] = 0 /\ BuyDepth[71] = 1
      /\ BuyTriples = {4, 9, 92}
  BY DEF BuyDepth, BuyTriples
<1>4. /\ "DemandLong" \in LiveAt(BuyLife, 66) /\ BuyLife["DemandLong"][2] = 66
      /\ "DemandShort" \in LiveAt(BuyLife, 67) /\ BuyLife["DemandShort"][2] = 67
      /\ "DeltaLong" \in LiveAt(BuyLife, 70) /\ BuyLife["DeltaLong"][2] = 70
  BY DEF LiveAt, BuyLife
<1> HIDE DEF P
<1>5. LineFits(P, BuyDepth, BuyLife, BuyTriples, 61)
  BY <1>2, <1>3, KeepRule
<1>6. LineFits(P, BuyDepth, BuyLife, BuyTriples, 62)
  BY <1>2, <1>3, ReplaceRule
<1>7. LineFits(P, BuyDepth, BuyLife, BuyTriples, 63)
  BY <1>2, <1>3, ReplaceRule
<1>8. LineFits(P, BuyDepth, BuyLife, BuyTriples, 64)
  BY <1>2, <1>3, KeepRule
<1>9. LineFits(P, BuyDepth, BuyLife, BuyTriples, 65)
  BY <1>2, <1>3, PopRule
<1>10. LineFits(P, BuyDepth, BuyLife, BuyTriples, 66)
  BY <1>2, <1>3, <1>4, MoveRule
<1>11. LineFits(P, BuyDepth, BuyLife, BuyTriples, 67)
  BY <1>2, <1>3, <1>4, MoveRule
<1>12. LineFits(P, BuyDepth, BuyLife, BuyTriples, 68)
  BY <1>1, <1>2, <1>3, StoreRule
<1>13. LineFits(P, BuyDepth, BuyLife, BuyTriples, 69)
  BY <1>1, <1>2, <1>3, StoreRule
<1>14. LineFits(P, BuyDepth, BuyLife, BuyTriples, 70)
  BY <1>2, <1>3, <1>4, MoveRule
<1>15. 61 .. 70 = {61, 62, 63, 64, 65, 66, 67, 68, 69, 70}
  OBVIOUS
<1> QED BY <1>5, <1>6, <1>7, <1>8, <1>9, <1>10, <1>11, <1>12, <1>13, <1>14, <1>15 DEF P

LEMMA BuyLines71To80 ==
    ASSUME NEW o \in Orders
    PROVE  \A n \in 71 .. 80 : LineFits(BuyProgram(o), BuyDepth, BuyLife, BuyTriples, n)
<1> DEFINE P == BuyProgram(o)
<1>1. /\ FillIds(o).deltaShort \in Nat
      /\ FillIds(o).deltaShort \notin Triples \cup {SolveQuadraticId}
      /\ FillIds(o).deltaLong \in Nat
      /\ FillIds(o).deltaLong \notin Triples \cup {SolveQuadraticId}
  BY FillIdsApart DEF FillIds
<1>2. /\ P[71] = <<"LDM", "DeltaShort">> /\ P[72] = <<"STV", FillIds(o).deltaShort>>
      /\ P[73] = <<"STV", FillIds(o).deltaLong>> /\ P[74] = <<"LDR", "CappedIndexQuantity">>
      /\ P[75] = <<"LDM", "Slope">> /\ P[76] = <<"MUL", 1>> /\ P[77] = <<"LDM", "Price">>
      /\ P[78] = <<"ADD", 1>> /\ P[79] = <<"SWAP", 1>> /\ P[80] = <<"POPN", 1>>
  BY DEF BuyProgram, ExecuteBuyOrderProgram
<1>3. /\ BuyDepth[71] = 1 /\ BuyDepth[72] = 2 /\ BuyDepth[73] = 1 /\ BuyDepth[74] = 0
      /\ BuyDepth[75] = 1 /\ BuyDepth[76] = 2 /\ BuyDepth[77] = 2 /\ BuyDepth[78] = 3
      /\ BuyDepth[79] = 3 /\ BuyDepth[80] = 3 /\ BuyDepth[81] = 2
      /\ BuyTriples = {4, 9, 92}
  BY DEF BuyDepth, BuyTriples
<1>4. /\ "DeltaShort" \in LiveAt(BuyLife, 71) /\ BuyLife["DeltaShort"][2] = 71
      /\ "CappedIndexQuantity" \in LiveAt(BuyLife, 74) /\ "Slope" \in LiveAt(BuyLife, 75)
      /\ BuyLife["Slope"][2] = 75 /\ "Price" \in LiveAt(BuyLife, 77) /\ BuyLife["Price"][2] = 77
  BY DEF LiveAt, BuyLife
<1> HIDE DEF P
<1>5. LineFits(P, BuyDepth, BuyLife, BuyTriples, 71)
  BY <1>2, <1>3, <1>4, MoveRule
<1>6. LineFits(P, BuyDepth, BuyLife, BuyTriples, 72)
  BY <1>1, <1>2, <1>3, StoreRule
<1>7. LineFits(P, BuyDepth, BuyLife, BuyTriples, 73)
  BY <1>1, <1>2, <1>3, StoreRule
<1>8. LineFits(P, BuyDepth, BuyLife, BuyTriples, 74)
  BY <1>2, <1>3, <1>4, ReadRule
<1>9. LineFits(P, BuyDepth, BuyLife, BuyTriples, 75)
  BY <1>2, <1>3, <1>4, MoveRule
<1>10. LineFits(P, BuyDepth, BuyLife, BuyTriples, 76)
  BY <1>2, <1>3, ReplaceRule
<1>11. LineFits(P, BuyDepth, BuyLife, BuyTriples, 77)
  BY <1>2, <1>3, <1>4, MoveRule
<1>12. LineFits(P, BuyDepth, BuyLife, BuyTriples, 78)
  BY <1>2, <1>3, ReplaceRule
<1>13. LineFits(P, BuyDepth, BuyLife, BuyTriples, 79)
  BY <1>2, <1>3, ReplaceRule
<1>14. LineFits(P, BuyDepth, BuyLife, BuyTriples, 80)
  BY <1>2, <1>3, PopRule
<1>15. 71 .. 80 = {71, 72, 73, 74, 75, 76, 77, 78, 79, 80}
  OBVIOUS
<1> QED BY <1>5, <1>6, <1>7, <1>8, <1>9, <1>10, <1>11, <1>12, <1>13, <1>14, <1>15 DEF P

LEMMA BuyLines81To90 ==
    ASSUME NEW o \in Orders
    PROVE  \A n \in 81 .. 90 : LineFits(BuyProgram(o), BuyDepth, BuyLife, BuyTriples, n)
<1> DEFINE P == BuyProgram(o)
<1>1. /\ P[81] = <<"MUL", 1>> /\ P[82] = <<"LDM", "Collateral">> /\ P[83] = <<"SSB", 1>>
      /\ P[84] = <<"SWAP", 1>> /\ P[85] = <<"LDM", "Spent">> /\ P[86] = <<"ADD", 1>>
      /\ P[87] = <<"SWAP", 1>> /\ P[88] = <<"POPN", 1>> /\ P[89] = <<"SWAP", 1>>
      /\ P[90] = <<"SWAP", 2>>
  BY DEF BuyProgram, ExecuteBuyOrderProgram
<1>2. /\ BuyDepth[81] = 2 /\ BuyDepth[82] = 2 /\ BuyDepth[83] = 3 /\ BuyDepth[84] = 3
      /\ BuyDepth[85] = 3 /\ BuyDepth[86] = 4 /\ BuyDepth[87] = 4 /\ BuyDepth[88] = 4
      /\ BuyDepth[89] = 3 /\ BuyDepth[90] = 3 /\ BuyDepth[91] = 3
      /\ BuyTriples = {4, 9, 92}
  BY DEF BuyDepth, BuyTriples
<1>3. /\ "Collateral" \in LiveAt(BuyLife, 82) /\ BuyLife["Collateral"][2] = 82
      /\ "Spent" \in LiveAt(BuyLife, 85) /\ BuyLife["Spent"][2] = 85
  BY DEF LiveAt, BuyLife
<1> HIDE DEF P
<1>4. LineFits(P, BuyDepth, BuyLife, BuyTriples, 81)
  BY <1>1, <1>2, ReplaceRule
<1>5. LineFits(P, BuyDepth, BuyLife, BuyTriples, 82)
  BY <1>1, <1>2, <1>3, MoveRule
<1>6. LineFits(P, BuyDepth, BuyLife, BuyTriples, 83)
  BY <1>1, <1>2, ReplaceRule
<1>7. LineFits(P, BuyDepth, BuyLife, BuyTriples, 84)
  BY <1>1, <1>2, ReplaceRule
<1>8. LineFits(P, BuyDepth, BuyLife, BuyTriples, 85)
  BY <1>1, <1>2, <1>3, MoveRule
<1>9. LineFits(P, BuyDepth, BuyLife, BuyTriples, 86)
  BY <1>1, <1>2, ReplaceRule
<1>10. LineFits(P, BuyDepth, BuyLife, BuyTriples, 87)
  BY <1>1, <1>2, ReplaceRule
<1>11. LineFits(P, BuyDepth, BuyLife, BuyTriples, 88)
  BY <1>1, <1>2, PopRule
<1>12. LineFits(P, BuyDepth, BuyLife, BuyTriples, 89)
  BY <1>1, <1>2, ReplaceRule
<1>13. LineFits(P, BuyDepth, BuyLife, BuyTriples, 90)
  BY <1>1, <1>2, ReplaceRule
<1>14. 81 .. 90 = {81, 82, 83, 84, 85, 86, 87, 88, 89, 90}
  OBVIOUS
<1> QED BY <1>4, <1>5, <1>6, <1>7, <1>8, <1>9, <1>10, <1>11, <1>12, <1>13, <1>14 DEF P

LEMMA BuyLines91To99 ==
    ASSUME NEW o \in Orders
    PROVE  \A n \in 91 .. 99 : LineFits(BuyProgram(o), BuyDepth, BuyLife, BuyTriples, n)
<1> DEFINE P == BuyProgram(o)
<1>1. /\ FillIds(o).order \in Nat /\ FillIds(o).order \in Triples
      /\ FillIds(o).order # SolveQuadraticId /\ FillIds(o).executedIndexQuantities \in Nat
      /\ FillIds(o).executedIndexQuantities \notin Triples \cup {SolveQuadraticId}
      /\ FillIds(o).executedAssetQuantities \in Nat
      /\ FillIds(o).executedAssetQuantities \notin Triples \cup {SolveQuadraticId}
  BY FillIdsApart DEF FillIds
<1>2. /\ P[91] = <<"PKV", 3>> /\ P[92] = <<"STV", FillIds(o).order>>
      /\ P[93] = <<"LDM", "CappedIndexQuantity">> /\ P[94] = <<"LDM", "IndexQuantity">>
      /\ P[95] = <<"SUB", 1>> /\ P[96] = <<"PKV", 2>>
      /\ P[97] = <<"STV", FillIds(o).executedIndexQuantities>>
      /\ P[98] = <<"LDM", "AssetQuantities">>
      /\ P[99] = <<"STV", FillIds(o).executedAssetQuantities>>
  BY DEF BuyProgram, ExecuteBuyOrderProgram
<1>3. /\ BuyDepth[91] = 3 /\ BuyDepth[92] = 1 /\ BuyDepth[93] = 0 /\ BuyDepth[94] = 1
      /\ BuyDepth[95] = 2 /\ BuyDepth[96] = 2 /\ BuyDepth[97] = 1 /\ BuyDepth[98] = 0
      /\ BuyDepth[99] = 1 /\ BuyDepth[100] = 0
      /\ BuyTriples = {4, 9, 92}
  BY DEF BuyDepth, BuyTriples
<1>4. /\ "CappedIndexQuantity" \in LiveAt(BuyLife, 93) /\ BuyLife["CappedIndexQuantity"][2] = 93
      /\ "IndexQuantity" \in LiveAt(BuyLife, 94) /\ BuyLife["IndexQuantity"][2] = 94
      /\ "AssetQuantities" \in LiveAt(BuyLife, 98) /\ BuyLife["AssetQuantities"][2] = 98
  BY DEF LiveAt, BuyLife
<1> HIDE DEF P
<1>5. LineFits(P, BuyDepth, BuyLife, BuyTriples, 91)
  BY <1>2, <1>3, PackRule
<1>6. LineFits(P, BuyDepth, BuyLife, BuyTriples, 92)
  BY <1>1, <1>2, <1>3, StoreRule
<1>7. LineFits(P, BuyDepth, BuyLife, BuyTriples, 93)
  BY <1>2, <1>3, <1>4, MoveRule
<1>8. LineFits(P, BuyDepth, BuyLife, BuyTriples, 94)
  BY <1>2, <1>3, <1>4, MoveRule
<1>9. LineFits(P, BuyDepth, BuyLife, BuyTriples, 95)
  BY <1>2, <1>3, ReplaceRule
<1>10. LineFits(P, BuyDepth, BuyLife, BuyTriples, 96)
  BY <1>2, <1>3, PackRule
<1>11. LineFits(P, BuyDepth, BuyLife, BuyTriples, 97)
  BY <1>1, <1>2, <1>3, StoreRule
<1>12. LineFits(P, BuyDepth, BuyLife, BuyTriples, 98)
  BY <1>2, <1>3, <1>4, MoveRule
<1>13. LineFits(P, BuyDepth, BuyLife, BuyTriples, 99)
  BY <1>1, <1>2, <1>3, StoreRule
<1>14. 91 .. 99 = {91, 92, 93, 94, 95, 96, 97, 98, 99}
  OBVIOUS
<1> QED BY <1>5, <1>6, <1>7, <1>8, <1>9, <1>10, <1>11, <1>12, <1>13, <1>14 DEF P

\* The registers live as long as it is written.
LEMMA CallLives == Lives(SolveQuadratic, CallLife)
<1> DEFINE P == SolveQuadratic
<1>1. /\ Len(P) = 23 /\ P[1] = <<"STR", "C">> /\ P[2] = <<"STR", "P">>
      /\ P[3] = <<"STR", "S">> /\ P[6] = <<"STR", "P2">>
  BY DEF SolveQuadratic
<1>2. /\ DOMAIN CallLife = {"C", "P", "S", "P2"}
      /\ CallLife["C"][1] = 1 /\ CallLife["P"][1] = 2 /\ CallLife["S"][1] = 3
      /\ CallLife["P2"][1] = 6 /\ \A x \in DOMAIN CallLife : CallLife[x][2] \in Nat
  BY DEF CallLife
<1> HIDE DEF P
<1>3. \A n \in 1 .. 23 : LineFits(P, CallDepth, CallLife, {}, n)
  <2>1. \A n \in 1 .. 23 : n \in 1 .. 12 \/ n \in 13 .. 23
    OBVIOUS
  <2> QED BY <2>1, CallLines1To12, CallLines13To23 DEF P
<1>4. \A n \in 1 .. 23 : P[n][1] = "LDM" => CallLife[P[n][2]][2] = n
  BY <1>3 DEF LineFits
<1> QED BY <1>1, <1>2, <1>4 DEF Lives, P

LEMMA BuyLines ==
    ASSUME NEW o \in Orders
    PROVE  \A n \in 1 .. 99 : LineFits(BuyProgram(o), BuyDepth, BuyLife, BuyTriples, n)
<1>1. \A n \in 1 .. 99 : \/ n \in 1 .. 10 \/ n \in 11 .. 20 \/ n \in 21 .. 30 \/ n \in 31 .. 40
                         \/ n \in 41 .. 50 \/ n \in 51 .. 60 \/ n \in 61 .. 70
                         \/ n \in 71 .. 80 \/ n \in 81 .. 90 \/ n \in 91 .. 99
  OBVIOUS
<1> QED
  BY <1>1, BuyLines1To10, BuyLines11To20, BuyLines21To30, BuyLines31To40, BuyLines41To50,
     BuyLines51To60, BuyLines61To70, BuyLines71To80, BuyLines81To90, BuyLines91To99

LEMMA BuyLives ==
    ASSUME NEW o \in Orders
    PROVE  Lives(BuyProgram(o), BuyLife)
<1> DEFINE P == BuyProgram(o)
<1>1. /\ Len(P) = 99
      /\ P[2] = <<"STR", "Weights">> /\ P[6] = <<"STR", "Spent">>
      /\ P[7] = <<"STR", "Collateral">> /\ P[11] = <<"STR", "Capacity">>
      /\ P[12] = <<"STR", "Price">> /\ P[13] = <<"STR", "Slope">>
      /\ P[18] = <<"STR", "IndexQuantity">> /\ P[22] = <<"STR", "CappedIndexQuantity">>
      /\ P[27] = <<"STR", "AssetQuantities">> /\ P[47] = <<"STR", "DemandLong">>
      /\ P[48] = <<"STR", "DemandShort">> /\ P[61] = <<"STR", "DeltaShort">>
      /\ P[64] = <<"STR", "DeltaLong">>
  BY DEF BuyProgram, ExecuteBuyOrderProgram
<1>2. DOMAIN BuyLife = {"Weights", "Spent", "Collateral", "Capacity", "Price", "Slope",
                        "IndexQuantity", "CappedIndexQuantity", "AssetQuantities",
                        "DemandLong", "DemandShort", "DeltaShort", "DeltaLong"}
  BY DEF BuyLife
<1>3. /\ BuyLife["Weights"][1] = 2 /\ BuyLife["Spent"][1] = 6 /\ BuyLife["Collateral"][1] = 7
      /\ BuyLife["Capacity"][1] = 11 /\ BuyLife["Price"][1] = 12 /\ BuyLife["Slope"][1] = 13
      /\ BuyLife["IndexQuantity"][1] = 18 /\ BuyLife["CappedIndexQuantity"][1] = 22
      /\ BuyLife["AssetQuantities"][1] = 27 /\ BuyLife["DemandLong"][1] = 47
      /\ BuyLife["DemandShort"][1] = 48 /\ BuyLife["DeltaShort"][1] = 61
      /\ BuyLife["DeltaLong"][1] = 64
  BY DEF BuyLife
<1>4. \A x \in DOMAIN BuyLife : BuyLife[x][2] \in Nat
  BY DEF BuyLife
<1> HIDE DEF P
<1>5. \A n \in 1 .. 99 : P[n][1] = "LDM" => BuyLife[P[n][2]][2] = n
  BY BuyLines DEF P, LineFits
<1>6. ASSUME NEW x \in DOMAIN BuyLife
      PROVE  BuyLife[x][1] \in 1 .. 99 /\ P[BuyLife[x][1]] = <<"STR", x>>
  BY <1>1, <1>2, <1>3
<1> QED BY <1>1, <1>4, <1>5, <1>6 DEF Lives, P

\* Every line of the two programs fits.
LEMMA CallFits ==
    /\ IsProgram(SolveQuadratic) /\ Len(SolveQuadratic) = 23
    /\ \A n \in 1 .. 23 :
          Fits(SolveQuadratic, SolveQuadratic[n], CallShape(n), CallShape(n + 1))
<1> DEFINE P == SolveQuadratic
<1>1. Len(P) = 23 /\ DOMAIN P = 1 .. 23 /\ P[17] = <<"SSB", 1>>
  BY DEF SolveQuadratic
<1> HIDE DEF P
<1>2. \A n \in 1 .. 23 : LineFits(P, CallDepth, CallLife, {}, n)
  <2>1. \A n \in 1 .. 23 : n \in 1 .. 12 \/ n \in 13 .. 23
    OBVIOUS
  <2> QED BY <2>1, CallLines1To12, CallLines13To23 DEF P
<1>3. IsProgram(P)
  <2>1. \A n \in 1 .. 23 : IsInstruction(P[n])
    BY <1>2 DEF LineFits
  <2> QED BY <1>1, <2>1 DEF IsProgram
<1>4. ASSUME NEW n \in 1 .. 23 PROVE Fits(P, P[n], CallShape(n), CallShape(n + 1))
  <2>1. Moves(P[n], CallShape(n), CallShape(n + 1))
    BY <1>1, <1>2 DEF LineFits, CallShape, CallLine
  <2>2. /\ LiveAt(CallLife, n) \subseteq RegisterNames(P)
        /\ LiveAt(CallLife, n + 1) \subseteq LiveAfter(P[n], LiveAt(CallLife, n))
    BY <1>1, <1>3, CallLives, RegistersFit DEF P
  <2>3. CallShape(n).live = LiveAt(CallLife, n) /\ CallShape(n + 1).live = LiveAt(CallLife, n + 1)
    BY ShapeFields DEF CallShape
  <2> QED BY <2>1, <2>2, <2>3 DEF Fits
<1> QED BY <1>1, <1>3, <1>4 DEF P

LEMMA BuyFits ==
    ASSUME NEW o \in Orders
    PROVE  /\ IsProgram(BuyProgram(o)) /\ Len(BuyProgram(o)) = 99
           /\ \A n \in 1 .. 99 :
                 n # CallLine =>
                    Fits(BuyProgram(o), BuyProgram(o)[n], BuyShape(n), BuyShape(n + 1))
           /\ BuyProgram(o)[CallLine] = <<"B", SolveQuadraticId, 3, 1, 4>>
           /\ BuyShape(CallLine + 1).live \subseteq BuyShape(CallLine).live
<1> DEFINE P == BuyProgram(o)
<1>1. Len(P) = 99 /\ DOMAIN P = 1 .. 99 /\ P[17] = <<"B", FillIds(o).solveQuadratic, 3, 1, 4>>
  BY DEF BuyProgram, ExecuteBuyOrderProgram
<1> HIDE DEF P
<1>2. \A n \in 1 .. 99 : LineFits(P, BuyDepth, BuyLife, BuyTriples, n)
  BY BuyLines DEF P
<1>3. IsProgram(P)
  <2>1. \A n \in 1 .. 99 : IsInstruction(P[n])
    BY <1>2 DEF LineFits
  <2> QED BY <1>1, <2>1 DEF IsProgram
<1>4. \A n \in 1 .. 99 :
         /\ LiveAt(BuyLife, n) \subseteq RegisterNames(P)
         /\ LiveAt(BuyLife, n + 1) \subseteq LiveAfter(P[n], LiveAt(BuyLife, n))
  BY <1>1, <1>3, BuyLives, RegistersFit DEF P
<1>5. \A n : BuyShape(n).live = LiveAt(BuyLife, n)
  BY ShapeFields DEF BuyShape
<1>6. ASSUME NEW n \in 1 .. 99, n # CallLine
      PROVE  Fits(P, P[n], BuyShape(n), BuyShape(n + 1))
  <2>1. Moves(P[n], BuyShape(n), BuyShape(n + 1))
    BY <1>2, <1>6 DEF LineFits, BuyShape
  <2> QED BY <1>4, <1>5, <2>1 DEF Fits
<1>7. P[CallLine] = <<"B", SolveQuadraticId, 3, 1, 4>>
  BY <1>1, FillIdsApart DEF CallLine
<1>8. BuyShape(CallLine + 1).live \subseteq BuyShape(CallLine).live
  <2>1. LiveAfter(P[17], LiveAt(BuyLife, 17)) = LiveAt(BuyLife, 17)
    BY <1>1 DEF LiveAfter
  <2>2. 17 \in 1 .. 99
    OBVIOUS
  <2> QED BY <1>4, <1>5, <2>1, <2>2 DEF CallLine
<1> QED BY <1>1, <1>3, <1>6, <1>7, <1>8 DEF P


-----------------------------------------------------------------------------
(***************************************************************************)
(* The inductive invariant: a fill is at a line of one of the programs,    *)
(* its machine of the shape of that line.                                  *)
(***************************************************************************)

\* A call is at line n of the program, its machine of this shape.
CallAt(f, program, n, s) ==
    /\ f.code = Assemble(program)
    /\ f.pc = Line(program, n)
    /\ f.items = << >>
    /\ HasShape(program, f.m, s)

\* The program runs alone.
Alone(o, n) ==
    Len(frames) = 1 /\ CallAt(frames[1], BuyProgram(o), n, BuyShape(n))

\* The program waits behind its subroutine, which took all three operands and
\* leaves one.
Waiting == [depth |-> 0, live |-> BuyShape(CallLine + 1).live, triple |-> FALSE]
InCall(o, k) ==
    /\ Len(frames) = 2
    /\ CallAt(frames[1], BuyProgram(o), CallLine + 1, Waiting)
    /\ CallAt(frames[2], SolveQuadratic, k, CallShape(k))
    /\ frames[2].outputs = 1

\* Order o is being filled.
Fills(o) == \/ \E n \in 1 .. 100 : Alone(o, n)
            \/ \E k \in 1 .. 24 : InCall(o, k)

Running == Idle \/ \E o \in Orders : Fills(o)

BuyInv ==
    /\ TypeOK
    /\ StoredWell(vectors) /\ StoredWell(committed)
    /\ Running

\* Where the shapes begin, call and end.
LEMMA ShapesAre ==
    /\ BuyShape(1).depth = 0 /\ BuyShape(1).live = {} /\ ~ BuyShape(1).triple
    /\ BuyShape(CallLine).depth = 3 /\ BuyShape(CallLine + 1).depth = 1
    /\ ~ BuyShape(CallLine + 1).triple
    /\ BuyShape(100).depth = 0
    /\ CallShape(1).depth = 3 /\ CallShape(1).live = {} /\ ~ CallShape(1).triple
    /\ CallShape(24).depth = 7
<1>1. /\ BuyDepth[1] = 0 /\ BuyDepth[17] = 3 /\ BuyDepth[18] = 1 /\ BuyDepth[100] = 0
      /\ BuyTriples = {4, 9, 92}
  BY DEF BuyDepth, BuyTriples
<1>2. CallDepth[1] = 3 /\ CallDepth[24] = 7
  BY DEF CallDepth
<1>3. LiveAt(BuyLife, 1) = {}
  <2>1. \A x \in DOMAIN BuyLife : ~ (BuyLife[x][1] < 1)
    BY DEF BuyLife
  <2> QED BY <2>1 DEF LiveAt
<1>4. LiveAt(CallLife, 1) = {}
  <2>1. \A x \in DOMAIN CallLife : ~ (CallLife[x][1] < 1)
    BY DEF CallLife
  <2> QED BY <2>1 DEF LiveAt
<1>5. CallLine = 17 /\ CallLine + 1 = 18
  BY DEF CallLine
<1>6. \A n : /\ BuyShape(n).depth = BuyDepth[n] /\ BuyShape(n).live = LiveAt(BuyLife, n)
             /\ BuyShape(n).triple <=> n \in BuyTriples
  BY ShapeFields DEF BuyShape
<1>7. \A n : /\ CallShape(n).depth = CallDepth[n] /\ CallShape(n).live = LiveAt(CallLife, n)
             /\ ~ CallShape(n).triple
  BY ShapeFields DEF CallShape
<1> QED BY <1>1, <1>2, <1>3, <1>4, <1>5, <1>6, <1>7

\* The innermost call is at a line, whichever way it is said.
LEMMA CallIsAtLine ==
    ASSUME TypeOK, ~ Idle, NEW program, NEW n, NEW s, CallAt(Current, program, n, s)
    PROVE  AtLine(program, n, s)
BY DEF CallAt, AtLine, M

\* A call that goes on is at the next line, and the others are where they were.
LEMMA NextLine ==
    ASSUME TypeOK, ~ Idle, NEW program, NEW n \in Nat, NEW s, NEW t,
           CallAt(Current, program, n, s), Continues(program, n, t)
    PROVE  /\ Len(frames') = Len(frames)
           /\ CallAt(frames'[Len(frames)], program, n + 1, t)
           /\ frames'[Len(frames)].outputs = Current.outputs
           /\ \A k \in 1 .. Len(frames) - 1 : frames'[k] = frames[k]
<1>1. PICK next : /\ frames' = Replace(After(program, n, next))
                  /\ HasShape(program, next, t)
  BY DEF Continues
<1>2. frames \in Seq(Frames) /\ Len(frames) \in Nat \ {0} /\ Current \in Frames
  BY CurrentType DEF TypeOK
<1> DEFINE after == After(program, n, next)
<1>3. /\ after.code = Current.code /\ after.items = Current.items
      /\ after.outputs = Current.outputs /\ after.pc = Line(program, n + 1) /\ after.m = next
  BY <1>2 DEF After, Frames
<1> HIDE DEF after
<1>4. frames' = [frames EXCEPT ![Len(frames)] = after]
  BY <1>1 DEF Replace, after
<1>5. DOMAIN frames = 1 .. Len(frames)
  BY <1>2
<1>6. /\ DOMAIN frames' = 1 .. Len(frames) /\ frames'[Len(frames)] = after
      /\ \A k \in 1 .. Len(frames) - 1 : frames'[k] = frames[k]
  <2> DEFINE h == Len(frames)
  <2>1. h \in 1 .. h /\ \A k \in 1 .. h - 1 : k \in 1 .. h /\ k # h
    <3>1. h \in Nat \ {0}
      BY <1>2
    <3> HIDE DEF h
    <3> QED BY <3>1
  <2> QED BY <1>4, <1>5, <2>1
<1>7. Len(frames') = Len(frames)
  BY <1>2, <1>4, <1>5
<1>8. CallAt(after, program, n + 1, t)
  BY <1>1, <1>3 DEF CallAt
<1> QED BY <1>3, <1>6, <1>7, <1>8

\* A transaction that reverts.
LEMMA RevertKeepsStored ==
    ASSUME Revert, StoredWell(committed)
    PROVE  StoredWell(vectors') /\ StoredWell(committed') /\ Idle'
BY DEF Revert, Idle

\* At the end of its code a call returns, or its program ends.
LEMMA OnlyTheEnd ==
    ASSUME Step, Finished, Current.items = << >>
    PROVE  Return \/ End
<1>1. \A x : ~ Fetch(x)
  BY DEF Fetch
<1>2. /\ ~ LoadsAndStores /\ ~ Structures /\ ~ JoinsOfLabels /\ ~ Arithmetic
      /\ ~ Aggregates /\ ~ Immediates
  BY <1>1, Fetches DEF LoadsAndStores, Structures, JoinsOfLabels, Arithmetic, Aggregates, Immediates
<1>3. ~ B /\ ~ FOLD /\ ~ FoldNext /\ ~ Malfunction
  BY <1>1, Fetches DEF FoldNext, Malfunction
<1> QED BY <1>2, <1>3 DEF Step, ControlFlow

\* A call is finished at the end of its program, and nowhere else.
LEMMA FinishedAtTheEnd ==
    ASSUME TypeOK, ~ Idle, NEW program, IsProgram(program), NEW n \in 1 .. Len(program) + 1,
           NEW s, CallAt(Current, program, n, s)
    PROVE  Finished <=> n = Len(program) + 1
<1>1. Len(program) \in Nat /\ Len(Assemble(program)) \in Nat
  BY FirstAndLastLine DEF IsProgram
<1>2. Finished <=> Line(program, n) > Len(Assemble(program))
  BY DEF Finished, CallAt
<1>3. CASE n = Len(program) + 1
  <2>1. Line(program, n) = Len(Assemble(program)) + 1
    BY <1>3, FirstAndLastLine
  <2> QED BY <1>1, <1>2, <1>3, <2>1
<1>4. CASE n # Len(program) + 1
  <2>1. n \in 1 .. Len(program)
    BY <1>1, <1>4
  <2>2. /\ Line(program, n) \in Nat /\ Arity(program[n][1]) \in Nat
        /\ Line(program, n) + 1 + Arity(program[n][1]) <= Len(Assemble(program)) + 1
    <3>1. Arity(program[n][1]) \in Nat
      BY ArityType
    <3>2. /\ Line(program, n) \in Nat
          /\ Line(program, n + 1) = Line(program, n) + 1 + Arity(program[n][1])
          /\ Line(program, n + 1) <= Len(Assemble(program)) + 1
      BY <2>1, LineHolds
    <3> QED BY <3>1, <3>2
  <2>3. ~ (Line(program, n) > Len(Assemble(program)))
    BY <1>1, <2>2
  <2> QED BY <1>2, <1>4, <2>3
<1> QED BY <1>3, <1>4

\* Every step of a fill outside its subroutine.
LEMMA AloneStep ==
    ASSUME TypeOK, StoredWell(vectors), StoredWell(committed), Step,
           NEW o \in Orders, NEW n \in 1 .. 100, Alone(o, n), n # CallLine
    PROVE  StoredWell(vectors') /\ StoredWell(committed') /\ (Idle' \/ Fills(o)')
<1> DEFINE P == BuyProgram(o)
<1>1. IsProgram(P) /\ Len(P) = 99
  BY BuyFits
<1>2. /\ Len(frames) = 1 /\ ~ Idle /\ CallAt(Current, P, n, BuyShape(n))
      /\ Current.items = << >>
  BY EmptySeq DEF Alone, CallAt, Current, Idle
<1>3. Finished <=> n = 100
  <2>1. n \in 1 .. Len(P) + 1 /\ Len(P) + 1 = 100
    <3> HIDE DEF P
    <3> QED BY <1>1
  <2> HIDE DEF P
  <2>2. Finished <=> n = Len(P) + 1
    BY <1>1, <1>2, <2>1, FinishedAtTheEnd
  <2> QED BY <2>1, <2>2
<1>4. CASE n = 100
  <2>1. End
    BY <1>2, <1>3, <1>4, OnlyTheEnd DEF Return
  <2> QED BY <2>1 DEF End, Commit, Idle
<1>5. CASE n # 100
  <2>1. n \in 1 .. 99 /\ n + 1 \in 1 .. 100 /\ n \in Nat
    BY <1>5
  <2>2. Revert \/ Continues(P, n, BuyShape(n + 1))
    <3>1. Fits(P, P[n], BuyShape(n), BuyShape(n + 1))
      BY <2>1, BuyFits
    <3> QED BY <1>1, <1>2, <2>1, <3>1, CallIsAtLine, LineStep
  <2>3. ASSUME Continues(P, n, BuyShape(n + 1))
        PROVE  StoredWell(vectors') /\ StoredWell(committed') /\ (Idle' \/ Fills(o)')
    <3>1. Len(frames') = 1 /\ CallAt(frames'[1], P, n + 1, BuyShape(n + 1))
      BY <1>2, <2>1, <2>3, NextLine
    <3>2. Alone(o, n + 1)'
      BY <3>1 DEF Alone
    <3>3. StoredWell(vectors') /\ StoredWell(committed')
      BY <2>3 DEF Continues
    <3> QED BY <2>1, <3>2, <3>3 DEF Fills
  <2> QED BY <2>2, <2>3, RevertKeepsStored
<1> QED BY <1>4, <1>5

\* What a call of a subroutine reads.
LEMMA CallReads ==
    ASSUME TypeOK, Step, NEW program, IsProgram(program), NEW n \in 1 .. Len(program), NEW s,
           AtLine(program, n, s), program[n][1] = "B"
    PROVE  /\ B /\ M \in Machine
           /\ Arg(1) = program[n][2] /\ Pos(2) = program[n][3] % USIZE
           /\ Pos(3) = program[n][4] % USIZE /\ Pos(4) = program[n][5] % USIZE
<1>1. /\ ~ NamesRegister(program[n]) /\ ~ HoldsAmount(program[n])
      /\ Arity(program[n][1]) = 4
  BY ArityOfCalls DEF NamesRegister, HoldsAmount
<1>2. Arg(1) = program[n][1 + 1] /\ Arg(2) = program[n][2 + 1] /\ Arg(3) = program[n][3 + 1]
      /\ Arg(4) = program[n][4 + 1]
  BY <1>1, LineDoes
<1>3. Arg(1) = program[n][2] /\ Arg(2) = program[n][3] /\ Arg(3) = program[n][4]
      /\ Arg(4) = program[n][5]
  BY <1>2
<1>4. Pos(2) = Arg(2) % USIZE /\ Pos(3) = Arg(3) % USIZE /\ Pos(4) = Arg(4) % USIZE
  BY DEF Pos, Arg
<1>5. B /\ M \in Machine
  BY LineDoes DEF Does
<1> QED BY <1>3, <1>4, <1>5

\* The call of the subroutine takes the three operands and leaves none.
LEMMA CallStep ==
    ASSUME TypeOK, StoredWell(vectors), StoredWell(committed), Step,
           NEW o \in Orders, Alone(o, CallLine)
    PROVE  StoredWell(vectors') /\ StoredWell(committed') /\ (Idle' \/ Fills(o)')
<1> DEFINE P == BuyProgram(o)
           n == CallLine
           caller == After(P, n, Drop(M, 3))
           callee == [NewStack(4) EXCEPT !.stack = TopN(M, 3)]
           called == Frame(QuadraticCode, 1, callee, 1, << >>)
<1>1. /\ IsProgram(P) /\ Len(P) = 99 /\ n \in 1 .. Len(P) /\ n \in Nat
      /\ P[n] = <<"B", SolveQuadraticId, 3, 1, 4>>
  <2>1. IsProgram(P) /\ Len(P) = 99 /\ P[n] = <<"B", SolveQuadraticId, 3, 1, 4>>
    BY BuyFits
  <2>2. CallLine \in 1 .. 99 /\ CallLine \in Nat
    BY DEF CallLine
  <2> HIDE DEF P
  <2> QED BY <2>1, <2>2
<1>2. /\ Len(frames) = 1 /\ ~ Idle /\ CallAt(Current, P, n, BuyShape(n))
  <2>1. Len(frames) = 1 /\ CallAt(frames[1], P, n, BuyShape(n))
    BY DEF Alone
  <2> HIDE DEF P, n
  <2> QED BY <2>1, EmptySeq DEF Current, Idle
<1>3. AtLine(P, n, BuyShape(n)) /\ HasShape(P, M, BuyShape(n))
  BY <1>2, CallIsAtLine DEF AtLine
<1>4. Fetch("B") /\ \A m : Advanced("B", m) = After(P, n, m)
  <2> HIDE DEF P, n
  <2>1. Fetch(P[n][1]) /\ \A m : Advanced(P[n][1], m) = After(P, n, m)
    BY <1>1, <1>3, LineFetched
  <2>2. P[n][1] = "B"
    BY <1>1
  <2> QED BY <2>1, <2>2
<1>5. /\ B /\ M \in Machine
      /\ Arg(1) = SolveQuadraticId /\ Pos(2) = 3 /\ Pos(3) = 1 /\ Pos(4) = 4
  <2>1. P[n][1] = "B" /\ P[n][2] = SolveQuadraticId /\ P[n][3] = 3 /\ P[n][4] = 1 /\ P[n][5] = 4
    BY <1>1
  <2>2. /\ B /\ M \in Machine
        /\ Arg(1) = P[n][2] /\ Pos(2) = P[n][3] % USIZE /\ Pos(3) = P[n][4] % USIZE
        /\ Pos(4) = P[n][5] % USIZE
    <3> HIDE DEF P, n
    <3> QED BY <1>1, <1>3, <2>1, CallReads
  <2>3. 3 % USIZE = 3 /\ 1 % USIZE = 1 /\ 4 % USIZE = 4
    BY SmallWords
  <2> QED BY <2>2, <2>3, <2>1
<1>6. CASE ~ (Loadable(Arg(1)) /\ Pos(2) <= Depth(M) /\ Len(frames) < GAS_DEPTH)
  BY <1>5, <1>6, RevertKeepsStored DEF B
<1>7. CASE Loadable(Arg(1)) /\ Pos(2) <= Depth(M) /\ Len(frames) < GAS_DEPTH
  <2>1. Enter("B", M, 1, << >>)
    BY <1>5, <1>7 DEF B
  <2>2. vectors[SolveQuadraticId] = QuadraticCode
    BY <1>5, <1>7 DEF StoredWell, Stored, Loadable
  <2>3. /\ frames' = Append(Replace(caller), called)
        /\ UNCHANGED <<owner, vectors, committed, tx>>
    <3>1. Advanced("B", Drop(M, 3)) = caller
      BY <1>4
    <3> HIDE DEF caller
    <3> QED BY <1>5, <2>1, <2>2, <3>1 DEF Enter
  <2>4. /\ Full(M.stack) /\ Depth(M) = 3 /\ BuyShape(n + 1).live \subseteq BuyShape(n).live
    BY <1>3, ShapesAre, BuyFits DEF HasShape
  <2>5. HasShape(P, Drop(M, 3), Waiting)
    <3>1. Leaves(M, Drop(M, 3), 0)
      <4>1. Leaves(M, Drop(M, 3), Depth(M) - 3)
        BY <1>5, <2>4, DropLeaves
      <4> QED BY <2>4, <4>1
    <3>2. Waiting.depth = 0 /\ Waiting.live = BuyShape(n + 1).live /\ Waiting.triple = FALSE
      BY DEF Waiting
    <3> QED BY <1>3, <2>4, <3>1, <3>2, KeepsShape
  <2>6. CallAt(caller, P, n + 1, Waiting) /\ caller \in Frames
    <3>1. Current \in Frames
      BY <1>2, CurrentType
    <3>2. /\ caller.code = Current.code /\ caller.items = Current.items
          /\ caller.pc = Line(P, n + 1) /\ caller.m = Drop(M, 3)
      BY <3>1 DEF After, Frames
    <3>3. caller \in Frames
      <4>1. Advanced("B", Drop(M, 3)) = caller /\ Fetch("B")
        BY <1>4
      <4>2. Drop(M, 3) \in Machine
        BY <1>5, <2>4, DropType
      <4> QED BY <4>1, <4>2, AdvancedType
    <3> HIDE DEF caller
    <3> QED BY <1>2, <2>5, <3>2, <3>3 DEF CallAt
  <2>7. HasShape(SolveQuadratic, callee, CallShape(1))
    <3>1. TopN(M, 3) \in Seq(Operand) /\ Len(TopN(M, 3)) = 3
      <4>1. 3 \in Nat /\ 3 <= Depth(M)
        BY <2>4
      <4> HIDE DEF callee
      <4> QED BY <1>5, <4>1, TopNType
    <3>2. callee.stack = TopN(M, 3)
      BY DEF NewStack
    <3>3. Full(TopN(M, 3))
      BY <1>5, <2>4, TopIsFull
    <3> HIDE DEF callee
    <3> QED BY <3>1, <3>2, <3>3, ShapesAre DEF HasShape, Depth
  <2>8. CallAt(called, SolveQuadratic, 1, CallShape(1)) /\ called.outputs = 1
    <3>1. /\ called.code = Assemble(SolveQuadratic) /\ called.pc = 1 /\ called.items = << >>
          /\ called.m = callee /\ called.outputs = 1
      BY DEF Frame, QuadraticCode
    <3>2. Line(SolveQuadratic, 1) = 1
      BY CallFits, FirstAndLastLine
    <3> HIDE DEF called, callee
    <3> QED BY <2>7, <3>1, <3>2 DEF CallAt
  <2>9. Len(frames') = 2 /\ frames'[1] = caller /\ frames'[2] = called
    <3>1. Replace(caller) \in Seq(Frames) /\ Len(Replace(caller)) = 1
      BY <1>2, <2>6, ReplaceType
    <3>2. Replace(caller)[1] = caller
      <4>1. DOMAIN frames = 1 .. 1
        BY <1>2 DEF TypeOK
      <4> HIDE DEF caller
      <4> QED BY <1>2, <4>1 DEF Replace
    <3> HIDE DEF caller, called
    <3>3. \A s \in Seq(Frames) :
             Len(s) = 1 => /\ Len(Append(s, called)) = 2
                           /\ Append(s, called)[1] = s[1] /\ Append(s, called)[2] = called
      OBVIOUS
    <3> QED BY <2>3, <3>1, <3>2, <3>3
  <2>10. InCall(o, 1)'
    <3> HIDE DEF caller, called
    <3> QED BY <2>6, <2>8, <2>9 DEF InCall
  <2> QED BY <2>3, <2>10 DEF Fills
<1> QED BY <1>6, <1>7

\* Every step of the subroutine.
LEMMA InCallStep ==
    ASSUME TypeOK, StoredWell(vectors), StoredWell(committed), Step,
           NEW o \in Orders, NEW k \in 1 .. 24, InCall(o, k)
    PROVE  StoredWell(vectors') /\ StoredWell(committed') /\ (Idle' \/ Fills(o)')
<1> DEFINE P == SolveQuadratic
<1>1. IsProgram(P) /\ Len(P) = 23
  BY CallFits
<1>2. /\ Len(frames) = 2 /\ ~ Idle /\ CallAt(Current, P, k, CallShape(k))
      /\ Current.items = << >> /\ Current.outputs = 1
  <2>1. /\ Len(frames) = 2 /\ CallAt(frames[2], P, k, CallShape(k))
        /\ frames[2].outputs = 1
    BY DEF InCall
  <2>2. frames[2].items = << >>
    BY <2>1 DEF CallAt
  <2> HIDE DEF P
  <2> QED BY <2>1, <2>2, EmptySeq DEF Current, Idle
<1>3. Finished <=> k = 24
  <2>1. k \in 1 .. Len(P) + 1 /\ Len(P) + 1 = 24
    <3> HIDE DEF P
    <3> QED BY <1>1
  <2> HIDE DEF P
  <2>2. Finished <=> k = Len(P) + 1
    BY <1>1, <1>2, <2>1, FinishedAtTheEnd
  <2> QED BY <2>1, <2>2
<1>4. CASE k # 24
  <2>1. k \in 1 .. 23 /\ k + 1 \in 1 .. 24 /\ k \in Nat
    BY <1>4
  <2>2. Revert \/ Continues(P, k, CallShape(k + 1))
    <3>1. Fits(P, P[k], CallShape(k), CallShape(k + 1))
      BY <2>1, CallFits
    <3> HIDE DEF P
    <3> QED BY <1>1, <1>2, <2>1, <3>1, CallIsAtLine, LineStep
  <2>3. ASSUME Continues(P, k, CallShape(k + 1))
        PROVE  StoredWell(vectors') /\ StoredWell(committed') /\ (Idle' \/ Fills(o)')
    <3>1. /\ Len(frames') = 2 /\ CallAt(frames'[2], P, k + 1, CallShape(k + 1))
          /\ frames'[2].outputs = 1 /\ frames'[1] = frames[1]
      <4> HIDE DEF P
      <4> QED BY <1>2, <2>1, <2>3, NextLine
    <3>2. InCall(o, k + 1)'
      BY <3>1 DEF InCall
    <3>3. StoredWell(vectors') /\ StoredWell(committed')
      BY <2>3 DEF Continues
    <3> QED BY <2>1, <3>2, <3>3 DEF Fills
  <2> QED BY <2>2, <2>3, RevertKeepsStored
<1>5. CASE k = 24
  <2> DEFINE caller == frames[1]
             after  == [caller EXCEPT !.m = PushAll(@, TopN(M, 1))]
  <2>1. Return
    BY <1>2, <1>3, <1>5, OnlyTheEnd DEF End
  <2>2. M \in Machine /\ Full(M.stack) /\ Depth(M) = 7
    BY <1>2, <1>5, ShapesAre, CurrentType DEF CallAt, HasShape, M
  <2>3. /\ frames' = Append(SubSeq(frames, 1, 0), after)
        /\ UNCHANGED <<owner, vectors, committed, tx>>
    BY <1>2, <2>1, <2>2 DEF Return
  <2>4. caller \in Frames /\ caller.m \in Machine
    <3>1. frames \in Seq(Frames) /\ 1 \in 1 .. Len(frames)
      BY <1>2 DEF TypeOK
    <3> QED BY <3>1, ElementOfSeq DEF Frames
  <2>5. /\ HasShape(BuyProgram(o), caller.m, Waiting)
        /\ caller.code = Assemble(BuyProgram(o)) /\ caller.items = << >>
        /\ caller.pc = Line(BuyProgram(o), CallLine + 1)
    BY DEF InCall, CallAt
  <2>6. HasShape(BuyProgram(o), PushAll(caller.m, TopN(M, 1)), BuyShape(CallLine + 1))
    <3>1. TopN(M, 1) \in Seq(Operand) /\ Len(TopN(M, 1)) = 1 /\ Full(TopN(M, 1))
      <4>1. 1 \in Nat /\ 1 <= Depth(M)
        BY <2>2
      <4> QED BY <2>2, <4>1, TopNType, TopIsFull
    <3>2. Waiting.depth = 0 /\ Waiting.live = BuyShape(CallLine + 1).live
      BY DEF Waiting
    <3>3. Full(caller.m.stack) /\ Depth(caller.m) = 0
      BY <2>5, <3>2 DEF HasShape
    <3> HIDE DEF caller
    <3>4. Leaves(caller.m, PushAll(caller.m, TopN(M, 1)), 0 + 1)
      BY <2>4, <3>1, <3>3, PushAllLeaves
    <3>5. 0 + 1 = BuyShape(CallLine + 1).depth /\ ~ BuyShape(CallLine + 1).triple
      BY ShapesAre
    <3> QED BY <2>5, <3>2, <3>4, <3>5, KeepsShape
  <2>7. CallAt(after, BuyProgram(o), CallLine + 1, BuyShape(CallLine + 1))
    <3>1. /\ after.code = caller.code /\ after.pc = caller.pc /\ after.items = caller.items
          /\ after.m = PushAll(caller.m, TopN(M, 1))
      <4> HIDE DEF caller
      <4> QED BY <2>4 DEF Frames
    <3> HIDE DEF caller, after
    <3> QED BY <2>5, <2>6, <3>1 DEF CallAt
  <2>8. Len(frames') = 1 /\ frames'[1] = after
    <3>1. SubSeq(frames, 1, 0) = << >>
      BY <1>2 DEF TypeOK
    <3> HIDE DEF after
    <3> QED BY <2>3, <3>1
  <2>9. Alone(o, CallLine + 1)'
    <3> HIDE DEF after
    <3> QED BY <2>7, <2>8 DEF Alone
  <2>10. CallLine + 1 \in 1 .. 100
    BY DEF CallLine
  <2> QED BY <2>3, <2>9, <2>10 DEF Fills
<1> QED BY <1>4, <1>5

LEMMA FillGoesOn ==
    ASSUME BuyInv, Step, NEW o \in Orders, Fills(o)
    PROVE  StoredWell(vectors') /\ StoredWell(committed') /\ (Idle' \/ Fills(o)')
<1>1. ASSUME NEW n \in 1 .. 100, Alone(o, n)
      PROVE  StoredWell(vectors') /\ StoredWell(committed') /\ (Idle' \/ Fills(o)')
  BY <1>1, AloneStep, CallStep DEF BuyInv
<1>2. ASSUME NEW k \in 1 .. 24, InCall(o, k)
      PROVE  StoredWell(vectors') /\ StoredWell(committed') /\ (Idle' \/ Fills(o)')
  BY <1>2, InCallStep DEF BuyInv
<1> QED BY <1>1, <1>2 DEF Fills

LEMMA StepKeepsInv ==
    ASSUME BuyInv, Step
    PROVE  BuyInv'
<1>1. TypeOK'
  BY StepType DEF BuyInv
<1>2. ~ Idle
  <2>1. \A x : Fetch(x) => ~ Idle
    BY DEF Fetch
  <2>2. Idle => Len(frames) = 0
    BY EmptySeq DEF Idle
  <2>3. /\ (FoldNext => ~ Idle) /\ (Return => ~ Idle) /\ (End => ~ Idle)
        /\ (Malfunction => ~ Idle)
    BY <2>2 DEF FoldNext, Return, End, Malfunction
  <2> QED
    BY <2>1, <2>3, Fetches DEF Step, LoadsAndStores, Structures, JoinsOfLabels, Arithmetic,
       Aggregates, Immediates, ControlFlow
<1>3. PICK o \in Orders : Fills(o)
  BY <1>2 DEF BuyInv, Running
<1> QED BY <1>1, <1>3, FillGoesOn DEF BuyInv, Running

-----------------------------------------------------------------------------
(***************************************************************************)
(* The first state and the transactions.                                   *)
(***************************************************************************)

\* What is stored before the first transaction: no quote and no order has an id of the
\* market, of a basket or of the subroutine, and the quotes are triples.
LEMMA PreloadedWell ==
    ASSUME NEW market \in Markets
    PROVE  StoredWell(Preloaded(market))
<1> DEFINE store == Preloaded(market)
<1>1. Orders \subseteq Nat /\ Indexes \subseteq 0 .. 99
  BY BuyOrderAssumption
<1>2. /\ DOMAIN IndexData = UNION {{NamesId(x), WeightsId(x), QuoteId(x)} : x \in Indexes}
      /\ DOMAIN MarketData(market) = {MarketIds[k] : k \in DOMAIN MarketIds}
      /\ DOMAIN store = {SolveQuadraticId} \cup DOMAIN IndexData \cup DOMAIN MarketData(market)
  BY DEF IndexData, MarketData, Preloaded
<1>3. store[SolveQuadraticId] = QuadraticCode
  <2>1. \A id \in DOMAIN store :
            store[id] = CASE id = SolveQuadraticId   -> QuadraticCode
                          [] id \in DOMAIN IndexData -> IndexData[id]
                          [] OTHER                   -> MarketData(market)[id]
    BY Zenon DEF Preloaded
  <2>2. SolveQuadraticId \in DOMAIN store
    BY <1>2
  <2> HIDE DEF store
  <2>3. SolveQuadraticId \notin DOMAIN IndexData
    <3>1. \A x \in Indexes : SolveQuadraticId \notin {NamesId(x), WeightsId(x), QuoteId(x)}
      BY <1>1 DEF NamesId, WeightsId, QuoteId, SolveQuadraticId
    <3> QED BY <1>2, <3>1
  <2> QED BY <2>1, <2>2, <2>3, Zenon
<1>4. \A id \in DOMAIN IndexData : id # SolveQuadraticId => store[id] = IndexData[id]
  BY DEF Preloaded
<1>5. Stored(store, SolveQuadraticId) = QuadraticCode
  BY <1>2, <1>3 DEF Stored
<1>6. ASSUME NEW x \in Indexes
      PROVE  Stored(store, QuoteId(x)) # << >> => Len(Stored(store, QuoteId(x))) = 3
  <2> DEFINE id == QuoteId(x)
             Ids3(y) == {NamesId(y), WeightsId(y), QuoteId(y)}
             z == CHOOSE y \in Indexes : id \in Ids3(y)
  <2>1. id \in DOMAIN IndexData
    BY <1>2
  <2>2. z \in Indexes
    <3>1. \E y \in Indexes : id \in Ids3(y)
      OBVIOUS
    <3> HIDE DEF Ids3, id
    <3> QED BY <3>1
  <2>3. IndexData[id] = CASE id = NamesId(z)   -> IndexLabels[z]
                          [] id = WeightsId(z) -> IndexWeights[z]
                          [] OTHER             -> QuoteWords(z)
    BY <1>2, <2>1 DEF IndexData
  <2> HIDE DEF z
  <2>4. id # NamesId(z) /\ id # WeightsId(z) /\ id # SolveQuadraticId
    <3>1. x \in Nat /\ z \in Nat
      BY <1>1, <2>2
    <3> QED BY <3>1 DEF QuoteId, NamesId, WeightsId, SolveQuadraticId
  <2> HIDE DEF id
  <2>5. IndexData[id] = QuoteWords(z)
    BY <2>3, <2>4, Zenon
  <2>6. Stored(store, id) = QuoteWords(z)
    BY <1>2, <1>4, <2>1, <2>4, <2>5 DEF Stored
  <2>7. Len(QuoteWords(z)) = 3
    BY DEF QuoteWords
  <2> QED BY <2>6, <2>7 DEF id
<1>7. ASSUME NEW o \in Orders
      PROVE  Stored(store, OrderId(o)) = << >>
  <2>1. o \in Nat /\ \A x \in Indexes : x \in Nat /\ x <= 99
    BY <1>1
  <2>2. OrderId(o) \notin DOMAIN IndexData
    BY <1>2, <2>1 DEF OrderId, NamesId, WeightsId, QuoteId
  <2>3. OrderId(o) \notin DOMAIN MarketData(market)
    <3>1. \A id \in DOMAIN MarketData(market) : id < 200
      BY <1>2 DEF MarketIds
    <3> QED BY <2>1, <3>1 DEF OrderId
  <2>4. OrderId(o) # SolveQuadraticId
    BY <2>1 DEF OrderId, SolveQuadraticId
  <2> QED BY <1>2, <2>2, <2>3, <2>4 DEF Stored
<1>8. \A id \in Triples : Stored(store, id) # << >> => Len(Stored(store, id)) = 3
  BY <1>6, <1>7 DEF Triples
<1> QED BY <1>5, <1>8 DEF StoredWell

LEMMA InitInv ==
    ASSUME LoadedInit
    PROVE  BuyInv
<1>1. PICK market \in Markets : vectors = Preloaded(market)
  BY DEF LoadedInit
<1>2. /\ owner = Daxos /\ committed = vectors /\ frames = << >>
      /\ tx = [sender |-> Daxos, outcome |-> "done"]
  BY DEF LoadedInit
<1>3. StorageOK(vectors) /\ Daxos \in Addresses
  BY <1>1, BuyOrderAssumption
<1>4. << >> \in Seq(Frames) /\ Len(<< >>) = 0 /\ 0 <= GAS_DEPTH
  BY EmptySeq, DevilAssumption
<1>5. TypeOK
  BY <1>2, <1>3, <1>4 DEF TypeOK, Idle
<1>6. StoredWell(vectors) /\ StoredWell(committed)
  BY <1>1, <1>2, PreloadedWell
<1> QED BY <1>2, <1>5, <1>6 DEF BuyInv, Running, Idle

\* A transaction that is refused changes nothing the shapes are about.
LEMMA RefuseKeepsRunning ==
    ASSUME BuyInv, Idle, NEW sender, Refuse(sender)
    PROVE  StoredWell(vectors') /\ StoredWell(committed') /\ Running'
BY DEF BuyInv, Refuse, Running, Idle

\* A new order is three words long.
LEMMA PlaceKeepsInv ==
    ASSUME BuyInv, NEW o \in Orders, PlaceOrder(o)
    PROVE  BuyInv'
<1> DEFINE id == OrderId(o)
<1>1. PICK c \in Deposits : Submit(Daxos, id, <<c, 0, 0>>)
  BY DEF PlaceOrder
<1>2. Daxos \in Addresses /\ id \in Ids /\ <<c, 0, 0>> \in Blobs
  BY BuyOrderAssumption
<1>3. TypeOK'
  BY <1>1, <1>2, SubmitType DEF BuyInv
<1>4. Idle
  BY <1>1 DEF Submit
<1>5. CASE Refuse(Daxos)
  BY <1>3, <1>4, <1>5, RefuseKeepsRunning DEF BuyInv
<1>6. CASE vectors' = Put(vectors, id, <<c, 0, 0>>) /\ committed' = vectors' /\ frames' = frames
  <2>1. id # SolveQuadraticId
    BY FillIdsApart DEF FillIds
  <2> HIDE DEF id
  <2>2. Len(<<c, 0, 0>>) = 3
    OBVIOUS
  <2>3. Stored(vectors', id) = <<c, 0, 0>>
        /\ \A other : other # id => Stored(vectors', other) = Stored(vectors, other)
    BY <1>6 DEF Stored, Put
  <2>4. StoredWell(vectors')
    BY <2>1, <2>2, <2>3 DEF BuyInv, StoredWell
  <2>5. Running'
    BY <1>4, <1>6 DEF Running, Idle
  <2> QED BY <1>3, <1>6, <2>4, <2>5 DEF BuyInv
<1> QED BY <1>1, <1>5, <1>6 DEF Submit

\* A fill starts at the first line, with nothing on its stack.
LEMMA FillStarts ==
    ASSUME BuyInv, NEW o \in Orders, FillOrder(o)
    PROVE  BuyInv' /\ (Idle' \/ Fills(o)')
<1> DEFINE program == [code |-> BuyCode[o], registers |-> 16]
           called  == Frame(BuyCode[o], 1, NewStack(16 % USIZE), 0, << >>)
<1>1. Execute(Daxos, program)
  BY DEF FillOrder
<1>2. Daxos \in Addresses /\ program \in Programs
  BY BuyOrderAssumption DEF BuyPrograms
<1>3. TypeOK'
  BY <1>1, <1>2, ExecuteType DEF BuyInv
<1>4. Idle
  BY <1>1 DEF Execute
<1>5. CASE Refuse(Daxos)
  BY <1>3, <1>4, <1>5, RefuseKeepsRunning DEF BuyInv, Refuse, Idle
<1>6. CASE frames' = <<called>> /\ UNCHANGED <<owner, vectors, committed>>
  <2>1. BuyCode[o] = Assemble(BuyProgram(o))
    BY DEF BuyCode, BuyProgram
  <2>2. Line(BuyProgram(o), 1) = 1
    BY BuyFits, FirstAndLastLine
  <2>3. /\ called.code = BuyCode[o] /\ called.pc = 1 /\ called.items = << >>
        /\ called.m.stack = << >>
    BY DEF Frame, NewStack
  <2> HIDE DEF called
  <2>4. HasShape(BuyProgram(o), called.m, BuyShape(1))
    BY <2>3, ShapesAre, EmptySeq DEF HasShape, Full, Depth
  <2>5. CallAt(called, BuyProgram(o), 1, BuyShape(1))
    BY <2>1, <2>2, <2>3, <2>4 DEF CallAt
  <2>6. Alone(o, 1)'
    BY <1>6, <2>5 DEF Alone
  <2>7. Fills(o)'
    BY <2>6 DEF Fills
  <2> QED BY <1>3, <1>6, <2>7 DEF BuyInv, Running
<1> QED BY <1>1, <1>5, <1>6 DEF Execute

LEMMA BuyInvariant == FillSpec => []BuyInv
<1>1. LoadedInit => BuyInv
  BY InitInv
<1>2. BuyInv /\ [FillNext]_vars => BuyInv'
  <2> SUFFICES ASSUME BuyInv, [FillNext]_vars PROVE BuyInv'
    OBVIOUS
  <2>1. CASE FillNext
    BY <2>1, PlaceKeepsInv, FillStarts, StepKeepsInv DEF FillNext
  <2>2. CASE UNCHANGED vars
    BY <2>2 DEF vars, BuyInv, TypeOK, StorageOK, Running, Fills, Alone, InCall, Idle
  <2> QED BY <2>1, <2>2
<1> QED BY <1>1, <1>2, PTL DEF FillSpec

\* A fill never has an empty operand on its stack: no instruction of
\* execute_buy_order or of solve_quadratic reads a register that LDM has emptied
\* or that was never set, for every order, index and market.
THEOREM ReadsNoEmptyOperand == FillSpec => []NoEmptyOperand
<1>1. BuyInv => NoEmptyOperand
  <2> SUFFICES ASSUME BuyInv, NEW f \in ToSet(frames) PROVE NoOperand \notin ToSet(f.m.stack)
    BY DEF NoEmptyOperand
  <2>1. Full(f.m.stack)
    <3>1. frames \in Seq(Frames)
      BY DEF BuyInv, TypeOK
    <3>2. CASE Idle
      BY <3>2, EmptySeq DEF ToSet, Idle
    <3>3. ASSUME NEW o \in Orders, NEW n \in 1 .. 100, Alone(o, n) PROVE Full(f.m.stack)
      BY <3>1, <3>3 DEF Alone, CallAt, HasShape, ToSet
    <3>4. ASSUME NEW o \in Orders, NEW k \in 1 .. 24, InCall(o, k) PROVE Full(f.m.stack)
      BY <3>1, <3>4 DEF InCall, CallAt, HasShape, ToSet
    <3> QED BY <3>2, <3>3, <3>4 DEF BuyInv, Running, Fills
  <2>2. NoOperand.kind = "None"
    BY DEF NoOperand
  <2>3. f \in Frames
    BY ElementOfSeq DEF BuyInv, TypeOK, ToSet
  <2>4. f.m.stack \in Seq(Operand)
    BY <2>3 DEF Frames, Machine
  <2> QED BY <2>1, <2>2, <2>4 DEF Full, ToSet
<1> QED BY <1>1, BuyInvariant, PTL

\* Whatever is on the stack, execute_buy_order takes it off again: at the end
\* of the program the stack is empty, as its last comment says
\* (execute_buy_order.rs:161-166), for every order, index and market.
THEOREM LeavesTheStackEmpty == FillSpec => []EndsWithEmptyStack
<1>1. BuyInv => EndsWithEmptyStack
  <2> SUFFICES ASSUME BuyInv, Len(frames) = 1, Finished PROVE M.stack = << >>
    BY DEF EndsWithEmptyStack
  <2>1. TypeOK /\ ~ Idle
    BY EmptySeq DEF BuyInv, Idle
  <2>2. PICK o \in Orders : \E n \in 1 .. 100 : Alone(o, n)
    BY <2>1 DEF BuyInv, Running, Fills, InCall
  <2>3. PICK n \in 1 .. 100 : Alone(o, n)
    BY <2>2
  <2> DEFINE P == BuyProgram(o)
  <2>4. IsProgram(P) /\ Len(P) = 99
    BY BuyFits
  <2>5. CallAt(Current, P, n, BuyShape(n))
    BY <2>3 DEF Alone, Current
  <2>6. n = 100
    <3>1. n \in 1 .. Len(P) + 1 /\ Len(P) + 1 = 100
      <4> HIDE DEF P
      <4> QED BY <2>4
    <3> HIDE DEF P
    <3>2. n = Len(P) + 1
      BY <2>1, <2>4, <2>5, <3>1, FinishedAtTheEnd
    <3> QED BY <3>1, <3>2
  <2>7. Depth(M) = 0 /\ M \in Machine
    BY <2>1, <2>5, <2>6, ShapesAre, CurrentType DEF CallAt, HasShape, M
  <2>8. M.stack \in Seq(Operand) /\ Len(M.stack) = 0
    BY <2>7 DEF Machine, Depth
  <2> QED BY <2>8, EmptySeq
<1> QED BY <1>1, BuyInvariant, PTL

-----------------------------------------------------------------------------
(***************************************************************************)
(* What a fill may write.                                                  *)
(***************************************************************************)

\* The ids a fill of order o stores under: the four sides of demand and delta,
\* its order and its two executed vectors (execute_buy_order.rs:120-166).
Written(o) ==
    {MarketIds.demandLong, MarketIds.demandShort, MarketIds.deltaLong, MarketIds.deltaShort,
     OrderId(o), ExecutedIndexId(o), ExecutedAssetsId(o)}

SameBut(new, old, ids) ==
    \A id \in (DOMAIN new \cup DOMAIN old) \ ids : Stored(new, id) = Stored(old, id)

\* A transaction that changes the storage either places an order that was not
\* there, or is a fill and changes what that fill stores and nothing else: not
\* another order, a quote, a basket, the supply, the names or the subroutine.
OwnWrite ==
    \/ committed' = committed
    \/ \E o \in Orders :
          \/ /\ Stored(committed, OrderId(o)) = << >>
             /\ SameBut(committed', committed, {OrderId(o)})
          \/ /\ ~ Idle
             /\ frames[1].code = BuyCode[o]
             /\ SameBut(committed', committed, Written(o))
WritesItsOwn == [][OwnWrite]_vars

\* The strengthening: so far, too, the fill has stored under its ids only.
WritesInv ==
    ~ Idle => \E o \in Orders : Fills(o) /\ SameBut(vectors, committed, Written(o))

LEMMA PutKeepsOthers ==
    ASSUME NEW new, NEW old, NEW ids, SameBut(new, old, ids), NEW id \in ids, NEW words
    PROVE  SameBut(Put(new, id, words), old, ids)
BY DEF SameBut, Put, Stored

LEMMA SameAsItself ==
    ASSUME NEW store, NEW ids
    PROVE  SameBut(store, store, ids)
BY DEF SameBut

\* A step that neither fails nor is a store leaves the vectors alone.
LEMMA OnlyStoresWrite ==
    ASSUME TypeOK, Step
    PROVE  vectors' = vectors \/ Revert \/ STL \/ STV
<1>1. ASSUME NEW mnemonic, NEW outcomes, Instruction(mnemonic, outcomes)
      PROVE  vectors' = vectors \/ Revert
  BY <1>1 DEF Instruction
<1>2. ASSUME LoadsAndStores PROVE vectors' = vectors \/ Revert \/ STL \/ STV
  BY <1>1, <1>2 DEF LoadsAndStores, LDL, LDV, LDD, LDR, LDM, STR, POPN, SWAP
<1>3. ASSUME Structures PROVE vectors' = vectors \/ Revert
  BY <1>1, <1>3 DEF Structures, PKV, PKL, UNPK, T, VPUSH, VPOP, LPUSH, LPOP
<1>4. ASSUME JoinsOfLabels PROVE vectors' = vectors \/ Revert
  BY <1>1, <1>4 DEF JoinsOfLabels, LUNION, JUPD, JADD, JFLT
<1>5. ASSUME Arithmetic PROVE vectors' = vectors \/ Revert
  BY <1>1, <1>5 DEF Arithmetic, ADD, SUB, SSB, MUL, DIV, SQRT, MIN, MAXOP
<1>6. ASSUME Aggregates PROVE vectors' = vectors \/ Revert
  BY <1>1, <1>6 DEF Aggregates, VSUM, VMIN, VMAX
<1>7. ASSUME Immediates PROVE vectors' = vectors \/ Revert
  BY <1>1, <1>7 DEF Immediates, IMMS, IMML, ZEROS, ONES
<1>8. ASSUME ControlFlow PROVE vectors' = vectors \/ Revert
  <2>1. ASSUME B \/ FOLD PROVE vectors' = vectors \/ Revert
    BY <2>1 DEF B, FOLD, Enter
  <2>2. ASSUME FoldNext \/ Return \/ End \/ Malfunction PROVE vectors' = vectors \/ Revert
    BY <2>2 DEF FoldNext, Return, End, Commit, Malfunction
  <2> QED BY <1>8, <2>1, <2>2 DEF ControlFlow
<1> QED BY <1>2, <1>3, <1>4, <1>5, <1>6, <1>7, <1>8 DEF Step

\* A line that writes is a store, and writes under the id it names.
LEMMA LineWrites ==
    ASSUME TypeOK, Step, NEW program, IsProgram(program), NEW n \in 1 .. Len(program), NEW s,
           AtLine(program, n, s), program[n][1] # "STL"
    PROVE  \/ vectors' = vectors
           \/ Revert
           \/ program[n][1] = "STV" /\ vectors' = Put(vectors, program[n][2], Top(M).data)
<1>1. Fetch(program[n][1]) /\ program[n][1] \in Mnemonics
  BY LineFetched
<1>2. ~ STL
  BY <1>1, Fetches, FetchOnce, AreMnemonics
<1>3. ASSUME STV, ~ Revert
      PROVE  program[n][1] = "STV" /\ vectors' = Put(vectors, program[n][2], Top(M).data)
  <2>1. program[n][1] = "STV"
    BY <1>1, <1>3, Fetches, FetchOnce, AreMnemonics
  <2>2. /\ ~ NamesRegister(program[n]) /\ ~ HoldsAmount(program[n])
        /\ Arity(program[n][1]) = 1
    BY <2>1 DEF NamesRegister, HoldsAmount, Arity
  <2>3. Arg(1) = program[n][2]
    BY <2>2, LineDoes
  <2> QED BY <1>3, <2>1, <2>3 DEF STV, Store
<1> QED BY <1>2, <1>3, OnlyStoresWrite

\* The ids of the stores of the two programs.
LEMMA BuyStores ==
    ASSUME NEW o \in Orders
    PROVE  \A n \in 1 .. 99 :
              /\ BuyProgram(o)[n][1] # "STL"
              /\ BuyProgram(o)[n][1] = "STV" => BuyProgram(o)[n][2] \in Written(o)
<1> DEFINE P == BuyProgram(o)
           Stores(n) == P[n][1] # "STL" /\ (P[n][1] = "STV" => P[n][2] \in Written(o))
<1>1. \A n \in 1 .. 10 : Stores(n)
  <2>1. 1 .. 10 = {1, 2, 3, 4, 5, 6, 7, 8, 9, 10}
    OBVIOUS
  <2> QED BY <2>1 DEF BuyProgram, ExecuteBuyOrderProgram, FillIds, Written
<1>2. \A n \in 11 .. 20 : Stores(n)
  <2>1. 11 .. 20 = {11, 12, 13, 14, 15, 16, 17, 18, 19, 20}
    OBVIOUS
  <2> QED BY <2>1 DEF BuyProgram, ExecuteBuyOrderProgram, FillIds, Written
<1>3. \A n \in 21 .. 30 : Stores(n)
  <2>1. 21 .. 30 = {21, 22, 23, 24, 25, 26, 27, 28, 29, 30}
    OBVIOUS
  <2> QED BY <2>1 DEF BuyProgram, ExecuteBuyOrderProgram, FillIds, Written
<1>4. \A n \in 31 .. 40 : Stores(n)
  <2>1. 31 .. 40 = {31, 32, 33, 34, 35, 36, 37, 38, 39, 40}
    OBVIOUS
  <2> QED BY <2>1 DEF BuyProgram, ExecuteBuyOrderProgram, FillIds, Written
<1>5. \A n \in 41 .. 50 : Stores(n)
  <2>1. 41 .. 50 = {41, 42, 43, 44, 45, 46, 47, 48, 49, 50}
    OBVIOUS
  <2> QED BY <2>1 DEF BuyProgram, ExecuteBuyOrderProgram, FillIds, Written
<1>6. \A n \in 51 .. 60 : Stores(n)
  <2>1. 51 .. 60 = {51, 52, 53, 54, 55, 56, 57, 58, 59, 60}
    OBVIOUS
  <2> QED BY <2>1 DEF BuyProgram, ExecuteBuyOrderProgram, FillIds, Written
<1>7. \A n \in 61 .. 70 : Stores(n)
  <2>1. 61 .. 70 = {61, 62, 63, 64, 65, 66, 67, 68, 69, 70}
    OBVIOUS
  <2> QED BY <2>1 DEF BuyProgram, ExecuteBuyOrderProgram, FillIds, Written
<1>8. \A n \in 71 .. 80 : Stores(n)
  <2>1. 71 .. 80 = {71, 72, 73, 74, 75, 76, 77, 78, 79, 80}
    OBVIOUS
  <2> QED BY <2>1 DEF BuyProgram, ExecuteBuyOrderProgram, FillIds, Written
<1>9. \A n \in 81 .. 90 : Stores(n)
  <2>1. 81 .. 90 = {81, 82, 83, 84, 85, 86, 87, 88, 89, 90}
    OBVIOUS
  <2> QED BY <2>1 DEF BuyProgram, ExecuteBuyOrderProgram, FillIds, Written
<1>10. \A n \in 91 .. 99 : Stores(n)
  <2>1. 91 .. 99 = {91, 92, 93, 94, 95, 96, 97, 98, 99}
    OBVIOUS
  <2> QED BY <2>1 DEF BuyProgram, ExecuteBuyOrderProgram, FillIds, Written
<1>11. \A n \in 1 .. 99 : Stores(n)
  <2> HIDE DEF Stores
  <2> QED BY <1>1, <1>2, <1>3, <1>4, <1>5, <1>6, <1>7, <1>8, <1>9, <1>10
<1> QED BY <1>11

LEMMA CallStores == \A k \in 1 .. 23 : SolveQuadratic[k][1] \notin {"STL", "STV"}
BY DEF SolveQuadratic

LEMMA FillWrites ==
    ASSUME BuyInv, Step, NEW o \in Orders, Fills(o), SameBut(vectors, committed, Written(o))
    PROVE  Revert \/ SameBut(vectors', committed, Written(o))
<1>1. ASSUME vectors' = vectors PROVE SameBut(vectors', committed, Written(o))
  BY <1>1
<1>2. CASE Finished /\ Current.items = << >>
  <2>1. Return \/ End
    BY <1>2, OnlyTheEnd
  <2> QED BY <1>1, <2>1 DEF Return, End, Commit
<1>3. CASE ~ (Finished /\ Current.items = << >>)
  <2>1. ASSUME NEW n \in 1 .. 100, Alone(o, n)
        PROVE  Revert \/ SameBut(vectors', committed, Written(o))
    <3> DEFINE P == BuyProgram(o)
    <3>1. IsProgram(P) /\ Len(P) = 99
      BY BuyFits
    <3>2. TypeOK /\ ~ Idle /\ CallAt(Current, P, n, BuyShape(n)) /\ Current.items = << >>
      <4>1. TypeOK /\ Len(frames) = 1 /\ CallAt(frames[1], P, n, BuyShape(n))
        BY <2>1 DEF BuyInv, Alone
      <4>2. Current = frames[1] /\ ~ Idle
        BY <4>1, EmptySeq DEF Current, Idle
      <4>3. CallAt(Current, P, n, BuyShape(n))
        BY <4>1, <4>2
      <4> HIDE DEF P
      <4> QED BY <4>1, <4>2, <4>3 DEF CallAt
    <3>3. n \in 1 .. Len(P) + 1 /\ Len(P) + 1 = 100
      <4> HIDE DEF P
      <4> QED BY <3>1
    <3> HIDE DEF P
    <3>4. n \in 1 .. 99 /\ n \in 1 .. Len(P)
      <4>1. Finished <=> n = Len(P) + 1
        BY <3>1, <3>2, <3>3, FinishedAtTheEnd
      <4>2. n # 100
        BY <1>3, <3>2, <3>3, <4>1
      <4> QED BY <3>1, <4>2
    <3>5. P[n][1] # "STL" /\ (P[n][1] = "STV" => P[n][2] \in Written(o))
      BY <3>4, BuyStores DEF P
    <3>6. AtLine(P, n, BuyShape(n))
      BY <3>2, CallIsAtLine
    <3>7. \/ vectors' = vectors
          \/ Revert
          \/ P[n][1] = "STV" /\ vectors' = Put(vectors, P[n][2], Top(M).data)
      <4>1. TypeOK /\ Step /\ IsProgram(P) /\ n \in 1 .. Len(P) /\ P[n][1] # "STL"
        BY <3>1, <3>2, <3>4, <3>5
      <4> QED BY <3>6, <4>1, LineWrites
    <3>8. \A id \in Written(o) : \A words :
             SameBut(Put(vectors, id, words), committed, Written(o))
      BY PutKeepsOthers
    <3> QED BY <1>1, <3>5, <3>7, <3>8
  <2>2. ASSUME NEW k \in 1 .. 24, InCall(o, k)
        PROVE  Revert \/ SameBut(vectors', committed, Written(o))
    <3> DEFINE P == SolveQuadratic
    <3>1. IsProgram(P) /\ Len(P) = 23
      BY CallFits
    <3>2. TypeOK /\ ~ Idle /\ CallAt(Current, P, k, CallShape(k)) /\ Current.items = << >>
      <4>1. TypeOK /\ Len(frames) = 2 /\ CallAt(frames[2], P, k, CallShape(k))
        BY <2>2 DEF BuyInv, InCall
      <4>2. Current = frames[2] /\ ~ Idle
        BY <4>1, EmptySeq DEF Current, Idle
      <4>3. CallAt(Current, P, k, CallShape(k))
        BY <4>1, <4>2
      <4> HIDE DEF P
      <4> QED BY <4>1, <4>2, <4>3 DEF CallAt
    <3>3. k \in 1 .. Len(P) + 1 /\ Len(P) + 1 = 24
      <4> HIDE DEF P
      <4> QED BY <3>1
    <3> HIDE DEF P
    <3>4. k \in 1 .. 23 /\ k \in 1 .. Len(P)
      <4>1. Finished <=> k = Len(P) + 1
        BY <3>1, <3>2, <3>3, FinishedAtTheEnd
      <4>2. k # 24
        BY <1>3, <3>2, <3>3, <4>1
      <4> QED BY <3>1, <4>2
    <3>5. P[k][1] \notin {"STL", "STV"}
      BY <3>4, CallStores DEF P
    <3>6. AtLine(P, k, CallShape(k))
      BY <3>2, CallIsAtLine
    <3>7. vectors' = vectors \/ Revert
      <4>1. TypeOK /\ Step /\ IsProgram(P) /\ k \in 1 .. Len(P) /\ P[k][1] \notin {"STL", "STV"}
        BY <3>1, <3>2, <3>4, <3>5
      <4> QED BY <3>6, <4>1, LineWrites
    <3> QED BY <1>1, <3>7
  <2> QED BY <2>1, <2>2 DEF Fills
<1> QED BY <1>2, <1>3

LEMMA StepKeepsWrites ==
    ASSUME BuyInv, WritesInv, Step
    PROVE  WritesInv'
<1>1. TypeOK /\ ~ Idle /\ Outcome
  BY StepOutcome DEF BuyInv
<1>2. PICK o \in Orders : Fills(o) /\ SameBut(vectors, committed, Written(o))
  BY <1>1 DEF WritesInv
<1>3. Idle' \/ Fills(o)'
  BY <1>2, FillGoesOn
<1>4. Revert \/ SameBut(vectors', committed, Written(o))
  BY <1>2, FillWrites
<1>5. Revert \/ Commit => Idle'
  BY DEF Revert, Commit, Idle
<1>6. ~ Idle' => committed' = committed /\ SameBut(vectors', committed, Written(o))
  BY <1>1, <1>4, <1>5 DEF Outcome
<1> QED BY <1>3, <1>6 DEF WritesInv

LEMMA FillKeepsWrites ==
    ASSUME BuyInv, NEW o \in Orders, FillOrder(o)
    PROVE  WritesInv' /\ committed' = committed
<1>1. Idle /\ committed' = committed /\ vectors' = vectors
  BY DEF FillOrder, Execute, Refuse
<1>2. vectors' = committed'
  BY <1>1 DEF BuyInv, TypeOK
<1>3. SameBut(vectors', committed', Written(o))
  BY <1>2, SameAsItself
<1>4. Idle' \/ Fills(o)'
  BY FillStarts
<1> QED BY <1>1, <1>3, <1>4 DEF WritesInv

LEMMA PlaceKeepsWrites ==
    ASSUME BuyInv, NEW o \in Orders, PlaceOrder(o)
    PROVE  /\ WritesInv'
           /\ \/ committed' = committed
              \/ /\ Stored(committed, OrderId(o)) = << >>
                 /\ SameBut(committed', committed, {OrderId(o)})
<1>1. PICK c \in Deposits : Submit(Daxos, OrderId(o), <<c, 0, 0>>)
  BY DEF PlaceOrder
<1>2. Idle /\ frames' = frames /\ vectors = committed
  BY <1>1 DEF BuyInv, TypeOK, Submit, Refuse
<1>3. WritesInv'
  BY <1>2 DEF WritesInv, Idle
<1>4. \/ committed' = committed
      \/ /\ Stored(committed, OrderId(o)) = << >>
         /\ committed' = Put(committed, OrderId(o), <<c, 0, 0>>)
  BY <1>1, <1>2 DEF Submit, Refuse
<1> QED BY <1>3, <1>4, SameAsItself, PutKeepsOthers

\* Fills keep out of each other's way: for every set of orders, indexes and
\* markets, a fill changes its own order and executions and the market's demand
\* and delta, placing an order that order, and a transaction that fails nothing.
\* The quotes, baskets, supply and programs stay as they were loaded.
THEOREM FillsWriteTheirOwn == FillSpec => WritesItsOwn
<1>1. LoadedInit => WritesInv
  BY DEF LoadedInit, WritesInv, Idle
<1>2. BuyInv /\ WritesInv /\ [FillNext]_vars => WritesInv' /\ [OwnWrite]_vars
  <2> SUFFICES ASSUME BuyInv, WritesInv, [FillNext]_vars PROVE WritesInv' /\ [OwnWrite]_vars
    OBVIOUS
  <2>1. CASE Step
    <3>1. /\ WritesInv' /\ TypeOK /\ ~ Idle /\ Outcome
      BY <2>1, StepKeepsWrites, StepOutcome DEF BuyInv
    <3>2. PICK o \in Orders : Fills(o) /\ SameBut(vectors, committed, Written(o))
      BY <3>1 DEF WritesInv
    <3>3. frames[1].code = BuyCode[o]
      BY <3>2 DEF Fills, Alone, InCall, CallAt, BuyCode, BuyProgram
    <3>4. committed' = committed \/ committed' = vectors
      BY <3>1 DEF Outcome, Revert, Commit
    <3> QED BY <3>1, <3>2, <3>3, <3>4 DEF OwnWrite
  <2>2. CASE \E o \in Orders : PlaceOrder(o)
    BY <2>2, PlaceKeepsWrites DEF OwnWrite
  <2>3. CASE \E o \in Orders : FillOrder(o)
    BY <2>3, FillKeepsWrites DEF OwnWrite
  <2>4. CASE UNCHANGED vars
    BY <2>4 DEF vars, WritesInv, Idle, Fills, Alone, InCall
  <2> QED BY <2>1, <2>2, <2>3, <2>4 DEF FillNext
<1> QED BY <1>1, <1>2, BuyInvariant, PTL DEF FillSpec, WritesItsOwn

=============================================================================
