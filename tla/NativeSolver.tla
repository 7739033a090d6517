---------------------------- MODULE NativeSolver ----------------------------
(***************************************************************************)
(* solve_quadratic in Rust (libs/deli/src/math.rs), beside the program     *)
(* that solves the same equation on the machine (Quadratic).  One step is  *)
(* one line of the function: it binds a value, or `?` returns None.        *)
(***************************************************************************)
EXTENDS Quadratic, Sequences

CONSTANT Coefficients     \* the numbers a, b and c are taken from

ASSUME NativeAssumption == Coefficients \subseteq Amounts

VARIABLES a, b, c,     \* the arguments
          values,      \* what the lines so far have bound
          result       \* <<val>> for Some(val), << >> for None, "running" before

vars == <<a, b, c, values, result>>

\* The next line binds x, or fails: a difference below zero wraps to a number
\* no u128 holds, a division by zero panics.
Bind(line, x) ==
    /\ result = "running"
    /\ Len(values) = line - 1
    /\ IF Representable(x)
       THEN values' = Append(values, x) /\ UNCHANGED result
       ELSE result' = << >> /\ UNCHANGED values
    /\ UNCHANGED <<a, b, c>>

BSquared == Bind(1, Times(b, b))
AC       == Bind(2, Times(a, c))
FourAC   == Bind(3, Times(values[2], FOUR))
Rad      == Bind(4, Plus(values[1], values[3]))
RootOf   == Bind(5, Sqrt(values[4]))

\* Seeded fault: the absolute difference.
NumAbsolute == Bind(6, Greater(values[5], b) - Lesser(values[5], b))

Num      == Bind(6, Minus(values[5], b))
Den      == Bind(7, Times(TWO, a))
Val      == Bind(8, Over(values[6], values[7]))

Return ==
    /\ result = "running" /\ Len(values) = 8
    /\ result' = <<values[8]>>
    /\ UNCHANGED <<a, b, c, values>>

Init ==
    /\ a \in Coefficients /\ b \in Coefficients /\ c \in Coefficients
    /\ values = << >>
    /\ result = "running"

Next == BSquared \/ AC \/ FourAC \/ Rad \/ RootOf \/ Num \/ Den \/ Val \/ Return

Spec == Init /\ [][Next]_vars

-----------------------------------------------------------------------------
\* The two solvers answer alike, with one exception: where the truncated root
\* is below B, the subtraction of the program saturates and it buys nothing,
\* and the native one fails (math.rs:19, solve_quadratic.rs:31-34).
AgreesWithProgram ==
    result # "running" =>
        result = IF Solvable(a, b, c) /\ Root(a, b, c) >= b
                 THEN <<IndexQuantity(a, b, c)>>
                 ELSE << >>

=============================================================================
