------------------------------- MODULE Amount -------------------------------
(***************************************************************************)
(* libs/deli/src/amount.rs: unsigned fixed point numbers.  An Amount is    *)
(* the raw integer, SCALE raw units make 1.0, and MAX is u128::MAX.        *)
(*                                                                         *)
(* The code computes every result in 256 bits and then converts it to      *)
(* u128, failing when it does not fit.  Here an operation returns the      *)
(* exact integer, and the caller asks whether the result is Representable. *)
(* A u256 subtraction that wraps is a number no u128 holds, like the       *)
(* negative integer it stands for here.                                    *)
(***************************************************************************)
EXTENDS Integers

CONSTANTS SCALE_SQRT,   \* 10^9 in the code
          MAX           \* u128::MAX in the code

SCALE == SCALE_SQRT * SCALE_SQRT

ASSUME AmountAssumption ==
    /\ SCALE_SQRT \in Nat \ {0}
    /\ MAX \in Nat
    /\ 4 * SCALE <= MAX          \* Amount::FOUR is a constant of the code

Amounts == 0 .. MAX
ONE     == SCALE
TWO     == 2 * SCALE
FOUR    == 4 * SCALE

Representable(x) == x \in Amounts

Lesser(x, y)  == IF x < y THEN x ELSE y
Greater(x, y) == IF y < x THEN x ELSE y

-----------------------------------------------------------------------------
\* checked_add, checked_sub, saturating_sub, checked_mul, checked_div.

Plus(x, y)  == x + y
Minus(x, y) == x - y
Ssb(x, y)   == x - Lesser(x, y)
Times(x, y) == (x * y) \div SCALE

\* A division by zero panics: the transaction reverts, as it does for a
\* result that no Amount holds.
Over(x, y)  == IF y = 0 THEN -1 ELSE (x * SCALE) \div y

\* sqrt_u256 returns the floor of the root (amount.rs:30-32); the Newton
\* iteration that computes it is a machine of its own.
IsFloorSqrt(r, n) == r * r <= n /\ n < (r + 1) * (r + 1)
IntSqrt(n)        == CHOOSE r \in 0 .. n : IsFloorSqrt(r, n)
Sqrt(x)           == IntSqrt(x) * SCALE_SQRT

=============================================================================
