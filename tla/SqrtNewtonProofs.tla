-------------------------- MODULE SqrtNewtonProofs --------------------------
(***************************************************************************)
(* Proofs about SqrtNewton: the loop returns the floor of the root of      *)
(* every number but the largest of the word, whatever the word.            *)
(***************************************************************************)
EXTENDS SqrtNewton, AmountLemmas

-----------------------------------------------------------------------------
(***************************************************************************)
(* One iteration: q is the quotient of m by x, y the average of q and x.   *)
(***************************************************************************)
LEMMA HalfFacts ==
    ASSUME NEW x \in Nat
    PROVE  Half(x) \in Nat /\ 2 * Half(x) <= x /\ x <= 2 * Half(x) + 1
BY FloorDivision DEF Half

\* The average is not below the root: (q + 1 + x)^2 >= 4 * x * (q + 1).
LEMMA AverageIsAbove ==
    ASSUME NEW m \in Nat, NEW x \in Nat \ {0}
    PROVE  m < (Half(m \div x + x) + 1) * (Half(m \div x + x) + 1)
<1> DEFINE q == m \div x
           y == Half(q + x)
<1>1. q \in Nat /\ m < x * q + x
  BY FloorDivision
<1> HIDE DEF q
<1>2. y \in Nat /\ q + x <= 2 * y + 1
  BY <1>1, HalfFacts
<1> HIDE DEF y
<1> DEFINE g == q + 1 + x
           t == 2 * (y + 1)
<1>3. g \in Nat /\ t \in Nat /\ g <= t
  BY <1>1, <1>2
<1>4. 4 * (x * (q + 1)) <= g * g
  <2>1. g * g = 4 * (x * (q + 1)) + (q + 1 - x) * (q + 1 - x)
    BY <1>1
  <2>2. (q + 1 - x) * (q + 1 - x) >= 0
    <3> DEFINE z == q + 1 - x
    <3>1. z \in Int
      BY <1>1
    <3> HIDE DEF z
    <3>2. z * z >= 0
      BY <3>1
    <3> QED BY <3>2 DEF z
  <2>3. 4 * (x * (q + 1)) \in Int /\ (q + 1 - x) * (q + 1 - x) \in Int /\ g * g \in Int
    BY <1>1
  <2> QED BY <2>1, <2>2, <2>3
<1>5. g * g <= t * t
  <2> HIDE DEF g, t
  <2>1. g * g <= g * t /\ g * t <= t * t
    BY <1>3
  <2>2. g * g \in Nat /\ g * t \in Nat /\ t * t \in Nat
    BY <1>3
  <2> QED BY <2>1, <2>2
<1>6. t * t = 4 * ((y + 1) * (y + 1))
  BY <1>2
<1>7. x * (q + 1) = x * q + x /\ x * q \in Nat
  BY <1>1
<1>8. (y + 1) * (y + 1) \in Nat /\ g * g \in Nat
  BY <1>1, <1>2
<1> HIDE DEF g, t
<1>9. m < (y + 1) * (y + 1)
  <2>1. 4 * (x * q + x) <= 4 * ((y + 1) * (y + 1))
    BY <1>3, <1>4, <1>5, <1>6, <1>7, <1>8
  <2> QED BY <1>1, <1>7, <1>8, <2>1
<1> QED BY <1>9 DEF y, q

\* An average that is not below x means that x is not above the root.
LEMMA StopsAtTheRoot ==
    ASSUME NEW m \in Nat, NEW x \in Nat \ {0}, x <= Half(m \div x + x)
    PROVE  x * x <= m
<1> DEFINE q == m \div x
<1>1. q \in Nat /\ x * q <= m /\ x <= Half(q + x)
  BY FloorDivision
<1> HIDE DEF q
<1>2. 2 * Half(q + x) <= q + x /\ Half(q + x) \in Nat
  <2>1. q + x \in Nat
    BY <1>1
  <2> QED BY <2>1, HalfFacts
<1>3. x <= q
  BY <1>1, <1>2
<1>4. x * x <= x * q
  BY <1>1, <1>3
<1>5. x * x \in Nat /\ x * q \in Nat
  BY <1>1
<1> QED BY <1>1, <1>4, <1>5

\* The sum that is halved is at most m + 1, and the average is not zero.
LEMMA SumIsSmall ==
    ASSUME NEW m \in Nat \ {0}, NEW x \in Nat \ {0}, x <= m
    PROVE  /\ m \div x + x \in Nat
           /\ m \div x + x <= m + 1
           /\ Half(m \div x + x) \in Nat \ {0}
           /\ Half(m \div x + x) <= m
<1> DEFINE q == m \div x
<1>1. q \in Nat /\ x * q <= m /\ m < x * q + x
  BY FloorDivision
<1> HIDE DEF q
<1>2. q # 0
  <2>1. SUFFICES ASSUME q = 0 PROVE FALSE
    OBVIOUS
  <2>2. x * q = 0
    BY <2>1
  <2> QED BY <1>1, <2>2
<1>3. q + x <= m + 1
  <2>1. SUFFICES ASSUME m + 2 - x <= q PROVE FALSE
    BY <1>1
  <2>2. x * (m + 2 - x) <= x * q
    <3>1. m + 2 - x \in Nat
      OBVIOUS
    <3> QED BY <1>1, <2>1, <3>1
  <2>3. x * (m + 2 - x) = m + (x - 1) * (m - x) + x
    OBVIOUS
  <2>4. (x - 1) * (m - x) \in Nat
    <3>1. x - 1 \in Nat /\ m - x \in Nat
      OBVIOUS
    <3> QED BY <3>1
  <2>5. x * q \in Nat
    BY <1>1
  <2> QED BY <1>1, <2>2, <2>3, <2>4, <2>5
<1>4. Half(q + x) \in Nat /\ 2 * Half(q + x) <= q + x /\ q + x <= 2 * Half(q + x) + 1
  BY <1>1, HalfFacts
<1> HIDE DEF q
<1>5. Half(q + x) # 0
  BY <1>1, <1>2, <1>4
<1>6. Half(q + x) <= m
  BY <1>1, <1>3, <1>4
<1> QED BY <1>1, <1>3, <1>4, <1>5, <1>6 DEF q

\* Above the root r, the quotient is at most r, so that the average is at most
\* half as far from r as x is.
LEMMA DistanceHalves ==
    ASSUME NEW m \in Nat, NEW x \in Nat \ {0}, NEW r \in Nat, r < x, IsFloorSqrt(r, m)
    PROVE  2 * (Half(m \div x + x) - r) <= x - r
<1> DEFINE q == m \div x
<1>1. q \in Nat /\ x * q <= m
  BY FloorDivision
<1> HIDE DEF q
<1>2. m < (r + 1) * (r + 1)
  BY DEF IsFloorSqrt
<1>3. q <= r
  <2>1. SUFFICES ASSUME r + 1 <= q PROVE FALSE
    BY <1>1
  <2>2. (r + 1) * (r + 1) <= x * (r + 1)
    OBVIOUS
  <2>3. x * (r + 1) <= x * q
    BY <1>1, <2>1
  <2>4. (r + 1) * (r + 1) \in Nat /\ x * (r + 1) \in Nat /\ x * q \in Nat
    BY <1>1
  <2> QED BY <1>1, <1>2, <2>2, <2>3, <2>4
<1>4. Half(q + x) \in Nat /\ 2 * Half(q + x) <= q + x
  <2>1. q + x \in Nat
    BY <1>1
  <2> QED BY <2>1, HalfFacts
<1> QED BY <1>1, <1>3, <1>4 DEF q

-----------------------------------------------------------------------------
(***************************************************************************)
(* The invariant: next is the average of current and the quotient, and     *)
(* neither is below the root.                                              *)
(***************************************************************************)
LoopInv ==
    /\ n \in 0 .. LIMIT
    /\ at \in {"start", "loop", "some", "none"}
    /\ current \in 0 .. LIMIT /\ next \in 0 .. LIMIT
    /\ at = "loop" => /\ n \in 1 .. LIMIT - 1
                      /\ current \in 1 .. n /\ next \in 1 .. n
                      /\ next = Half(n \div current + current)
                      /\ n < (current + 1) * (current + 1)
                      /\ n < (next + 1) * (next + 1)
    /\ at = "some" => IsFloorSqrt(current, n)
    /\ at = "none" => n = LIMIT

LEMMA LoopStarts == ASSUME LoopInv, Start PROVE LoopInv'
<1>1. n \in Nat /\ LIMIT \in Nat /\ n <= LIMIT /\ n' = n
  BY NewtonAssumption DEF LoopInv, Start
<1>2. CASE n = 0
  BY <1>1, <1>2 DEF LoopInv, Start, IsFloorSqrt
<1>3. CASE n # 0 /\ LIMIT < n + 1
  <2>1. at' = "none" /\ current' = n /\ next' = next
    BY <1>1, <1>3 DEF Start, Improve
  <2> QED BY <1>1, <1>3, <2>1 DEF LoopInv
<1>4. CASE n # 0 /\ n + 1 <= LIMIT
  <2>1. at' = "loop" /\ current' = n /\ next' = Half(n + 1)
    BY <1>1, <1>4 DEF Start, Improve
  <2>2. n \div n = 1
    <3> DEFINE q == n \div n
    <3>1. q \in Nat /\ n * q <= n /\ n < n * q + n
      BY <1>1, <1>4, FloorDivision
    <3> HIDE DEF q
    <3>2. q # 0
      BY <1>1, <3>1
    <3>3. ~ (q >= 2)
      <4>1. SUFFICES ASSUME q >= 2 PROVE FALSE
        OBVIOUS
      <4>2. n * q >= n * 2
        BY <1>1, <3>1, <4>1
      <4> QED BY <1>1, <1>4, <3>1, <4>2
    <3>4. q = 1
      BY <3>1, <3>2, <3>3
    <3> QED BY <3>4 DEF q
  <2>3. n + 1 = n \div n + n
    BY <1>1, <2>2
  <2>4. /\ Half(n \div n + n) \in Nat \ {0} /\ Half(n \div n + n) <= n
        /\ n < (Half(n \div n + n) + 1) * (Half(n \div n + n) + 1)
    BY <1>1, <1>4, SumIsSmall, AverageIsAbove
  <2>5. n < (n + 1) * (n + 1)
    <3>1. (n + 1) * (n + 1) = n * n + 2 * n + 1 /\ n * n \in Nat
      BY <1>1
    <3> QED BY <1>1, <3>1
  <2> QED BY <1>1, <1>4, <2>1, <2>3, <2>4, <2>5 DEF LoopInv
<1> QED BY <1>1, <1>2, <1>3, <1>4

LEMMA LoopIterates == ASSUME LoopInv, Iterate PROVE LoopInv'
<1>1. /\ n \in Nat \ {0} /\ LIMIT \in Nat /\ n + 1 <= LIMIT /\ n' = n
      /\ next \in Nat \ {0} /\ next <= n /\ n < (next + 1) * (next + 1)
      /\ current' = next
  BY NewtonAssumption DEF LoopInv, Iterate
<1> DEFINE sum == n \div next + next
<1>2. /\ sum \in Nat /\ sum <= n + 1
      /\ Half(sum) \in Nat \ {0} /\ Half(sum) <= n
      /\ n < (Half(sum) + 1) * (Half(sum) + 1)
  BY <1>1, SumIsSmall, AverageIsAbove
<1>3. next' = Half(sum) /\ at' = "loop"
  BY <1>1, <1>2 DEF Iterate, Improve
<1>4. Half(sum) = Half(n' \div current' + current')
  BY <1>1
<1> HIDE DEF sum
<1> QED BY <1>1, <1>2, <1>3, <1>4 DEF LoopInv

LEMMA LoopFinishes == ASSUME LoopInv, Finish PROVE LoopInv'
<1>1. /\ n \in Nat /\ current \in Nat \ {0}
      /\ current <= Half(n \div current + current)
      /\ n < (current + 1) * (current + 1)
      /\ at' = "some" /\ UNCHANGED <<n, current, next>>
  BY NewtonAssumption DEF LoopInv, Finish
<1>2. current * current <= n
  BY <1>1, StopsAtTheRoot
<1> QED BY <1>1, <1>2 DEF LoopInv, IsFloorSqrt

LEMMA LoopInvariant == Spec => []LoopInv
<1>1. Init => LoopInv
  BY NewtonAssumption DEF Init, LoopInv
<1>2. LoopInv /\ [Next]_vars => LoopInv'
  <2>1. CASE UNCHANGED vars
    BY <2>1 DEF vars, LoopInv
  <2> QED BY <2>1, LoopStarts, LoopIterates, LoopFinishes DEF Next
<1> QED BY <1>1, <1>2, PTL DEF Spec

-----------------------------------------------------------------------------
(***************************************************************************)
(* Theorems.                                                               *)
(***************************************************************************)

\* No estimate of the loop is below the root, and none is zero.
THEOREM StaysAboveTheRoot == Spec => []AboveTheRoot
<1>1. LoopInv => AboveTheRoot
  BY NewtonAssumption DEF LoopInv, AboveTheRoot
<1> QED BY <1>1, LoopInvariant, PTL

\* What sqrt_u256 returns is the floor of the root, for every number.
THEOREM ReturnsTheRoot == Spec => []ReturnsTheFloor
<1>1. LoopInv => ReturnsTheFloor
  BY DEF LoopInv, ReturnsTheFloor
<1> QED BY <1>1, LoopInvariant, PTL

\* It returns None for the largest number of the word alone.
THEOREM FailsAtTheTop == Spec => []FailsOnlyAtTheTop
<1>1. LoopInv => FailsOnlyAtTheTop
  BY DEF LoopInv, FailsOnlyAtTheTop
<1> QED BY <1>1, LoopInvariant, PTL

\* Each iteration above the root halves the distance to it.
THEOREM ErrorHalves == Spec => HalvesTheError
<1>1. LoopInv /\ [Next]_vars
         => [Iterate /\ next > TheRoot => 2 * (next' - TheRoot) <= next - TheRoot]_vars
  <2> SUFFICES ASSUME LoopInv, Iterate, next > TheRoot
               PROVE  2 * (next' - TheRoot) <= next - TheRoot
    OBVIOUS
  <2>1. /\ n \in Nat \ {0} /\ LIMIT \in Nat /\ n + 1 <= LIMIT
        /\ next \in Nat \ {0} /\ next <= n
    BY NewtonAssumption DEF LoopInv, Iterate
  <2>2. TheRoot \in Nat /\ IsFloorSqrt(TheRoot, n)
    BY <2>1, FloorSqrtExists DEF TheRoot, IntSqrt
  <2>3. next' = Half(n \div next + next)
    <3>1. n \div next + next \in Nat /\ n \div next + next <= n + 1
      BY <2>1, SumIsSmall
    <3>2. n \div next + next <= LIMIT
      BY <2>1, <3>1
    <3> QED BY <3>2 DEF Iterate, Improve
  <2> HIDE DEF TheRoot
  <2> QED BY <2>1, <2>2, <2>3, DistanceHalves
<1> QED BY <1>1, LoopInvariant, PTL DEF Spec, HalvesTheError

=============================================================================
