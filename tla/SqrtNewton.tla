----------------------------- MODULE SqrtNewton -----------------------------
(***************************************************************************)
(* sqrt_u256 (libs/deli/src/amount.rs:34-61), one iteration a step: the    *)
(* loop behind Amount's IntSqrt.  Additions fail above the largest u256.   *)
(***************************************************************************)
EXTENDS Amount

CONSTANTS LIMIT,      \* U256::MAX in the code
          Numbers     \* the numbers roots are taken of

ASSUME NewtonAssumption ==
    /\ LIMIT \in Nat
    /\ Numbers \subseteq 0 .. LIMIT

VARIABLES n,          \* the argument
          current,    \* the last estimate, and the result in the end
          next,       \* the estimate after it
          at          \* where the function is

vars == <<n, current, next, at>>

Half(x) == x \div 2

\* The start and the loop add before they halve: None when the sum overflows.
Improve(sum) ==
    IF sum <= LIMIT
    THEN next' = Half(sum) /\ at' = "loop"
    ELSE next' = next /\ at' = "none"

\* Seeded fault: zero is no special case, and its first estimate is zero.
StartAnywhere == at = "start" /\ current' = n /\ Improve(n + 1) /\ UNCHANGED n

\* The early return for zero, or the first two estimates.
Start ==
    /\ at = "start"
    /\ IF n = 0
       THEN at' = "some" /\ current' = 0 /\ UNCHANGED next
       ELSE current' = n /\ Improve(n + 1)
    /\ UNCHANGED n

\* Seeded faults: the quotient is by the estimate before, or it is counted
\* twice instead of averaged.
IterateLate ==
    /\ at = "loop"
    /\ next < current
    /\ current' = next
    /\ Improve(n \div current + next)
    /\ UNCHANGED n
IterateFar ==
    /\ at = "loop"
    /\ next < current
    /\ current' = next
    /\ Improve(n \div next + n)
    /\ UNCHANGED n

Iterate ==
    /\ at = "loop"
    /\ next < current
    /\ current' = next
    /\ Improve(n \div next + next)
    /\ UNCHANGED n

\* Seeded faults: the loop goes on while the estimates are equal, or it stops
\* one estimate early.
FinishLate  == at = "loop" /\ next > current /\ at' = "some" /\ UNCHANGED <<n, current, next>>
FinishEarly == at = "loop" /\ current - next < 2 /\ at' = "some" /\ UNCHANGED <<n, current, next>>

\* The estimates no longer fall.
Finish == at = "loop" /\ next >= current /\ at' = "some" /\ UNCHANGED <<n, current, next>>

Init == n \in Numbers /\ current = 0 /\ next = 0 /\ at = "start"

Next == Start \/ Iterate \/ Finish

\* The function is not interrupted.
Spec == Init /\ [][Next]_vars /\ WF_vars(Next)

-----------------------------------------------------------------------------
(***************************************************************************)
(* Properties.                                                             *)
(***************************************************************************)
TheRoot == IntSqrt(n)

\* While the loop runs, no estimate is below the floor of the root: this is
\* what makes it right to stop at the first that does not fall, and what keeps
\* the divisions from dividing by zero.
AboveTheRoot ==
    /\ n \in 0 .. LIMIT /\ current \in 0 .. LIMIT /\ next \in 0 .. LIMIT
    /\ at \in {"start", "loop", "some", "none"}
    /\ at = "loop" => 0 < next /\ n < (next + 1) * (next + 1) /\ n < (current + 1) * (current + 1)

\* "It returns the floor of the square root" (amount.rs:32).
ReturnsTheFloor == at = "some" => IsFloorSqrt(current, n)

\* Only the largest u256 has no result: no addition of the loop overflows, and
\* the first does for n + 1 alone.  Amounts are u128, so theirs always have.
FailsOnlyAtTheTop == at = "none" => n = LIMIT

\* An iteration that starts above the root at least halves the distance to it:
\* the number of iterations, and with it the gas of SQRT, is logarithmic.
HalvesTheError ==
    [][Iterate /\ next > TheRoot => 2 * (next' - TheRoot) <= next - TheRoot]_vars

\* The function returns, although the last estimate may rise again: for n = 3
\* the estimates are 3, 2, 1, 2.
Returns == <>(at \in {"some", "none"})

=============================================================================
