------------------------- MODULE InstantFillProofs -------------------------
(***************************************************************************)
(* Proofs about InstantFill: what a fill computes, then the invariants and *)
(* the action properties of the specification, for every scale, every      *)
(* market, every index and every number of orders.                         *)
(***************************************************************************)
EXTENDS InstantFill, AmountLemmas

-----------------------------------------------------------------------------
(***************************************************************************)
(* What a fill computes.                                                   *)
(***************************************************************************)
LEMMA QuoteType ==
    ASSUME NEW o \in Orders
    PROVE  /\ QuoteOf(o) \in Quote
           /\ Weighted(o) \in [Basket(o) -> Amounts]
BY FillAssumption DEF QuoteOf, Weighted, Basket

\* In a typed state a solvable fill has a positive slope, amounts for the
\* quantities of the index, and a cost the collateral covers.
LEMMA SolvedFacts ==
    ASSUME TypeOK, NEW o \in DOMAIN orders,
           Solvable(QuoteOf(o).slope, QuoteOf(o).price, orders[o].collateral)
    PROVE  /\ QuoteOf(o).slope # 0
           /\ Solved(o) \in Amounts
           /\ Capped(o) \in Amounts /\ Capped(o) <= Solved(o)
           /\ SlopeTerm(o) \in Amounts /\ EffectivePrice(o) \in Amounts
           /\ Cost(o) \in Amounts /\ Cost(o) <= orders[o].collateral
<1> DEFINE s == QuoteOf(o).slope
           p == QuoteOf(o).price
           c == orders[o].collateral
<1>1. o \in Orders /\ orders[o] \in Order
  BY DEF TypeOK
<1>2. QuoteOf(o) \in Quote
  BY <1>1, QuoteType
<1>3. s \in Nat /\ p \in Amounts /\ p \in Nat /\ c \in Amounts /\ c \in Nat
      /\ QuoteOf(o).capacity \in Nat
  BY <1>1, <1>2, AmountAssumption DEF Quote, Order, Amounts
<1>4. Solved(o) = IndexQuantity(s, p, c)
  BY DEF Solved
<1>5. Solved(o) \in Amounts
  BY <1>4 DEF Solvable, Representable
<1>6. s # 0
  <2>1. SUFFICES ASSUME s = 0 PROVE FALSE
    OBVIOUS
  <2>2. Times(s, TWO) = 0
    BY <2>1, <1>3, TimesTwo
  <2>3. IndexQuantity(s, p, c) = -1
    BY <2>2 DEF IndexQuantity, Over
  <2> QED BY <1>4, <1>5, <2>3 DEF Amounts
<1>7. Capped(o) \in Amounts /\ Capped(o) <= Solved(o)
  BY <1>3, <1>5, AmountAssumption DEF Capped, Lesser, Amounts
<1>8. Capped(o) \in Nat
  BY <1>7, AmountAssumption DEF Amounts
<1>9. Cost(o) = Times(Plus(p, Times(s, Capped(o))), Capped(o))
  BY DEF Cost, EffectivePrice, SlopeTerm
<1>10. Cost(o) <= c
  <2> HIDE DEF s, p, c
  <2> QED BY <1>3, <1>4, <1>6, <1>7, <1>8, <1>9, CostWithinCollateral
<1>11. /\ SlopeTerm(o) = Times(s, Capped(o)) /\ SlopeTerm(o) \in Nat
       /\ EffectivePrice(o) = Plus(p, SlopeTerm(o))
       /\ EffectivePrice(o) <= Greater(p, Root(s, p, c))
  <2>1. SlopeTerm(o) = Times(s, Capped(o)) /\ EffectivePrice(o) = Plus(p, SlopeTerm(o))
    BY DEF SlopeTerm, EffectivePrice
  <2>2. Capped(o) <= IndexQuantity(s, p, c)
    BY <1>4, <1>7
  <2> HIDE DEF s, p, c
  <2> QED BY <1>3, <1>6, <1>8, <2>1, <2>2, PriceWithinRoot
<1>12. Greater(p, Root(s, p, c)) \in Amounts
  BY <1>3 DEF Solvable, Representable, Greater
<1>13. SlopeTerm(o) \in Amounts /\ EffectivePrice(o) \in Amounts
  <2>1. EffectivePrice(o) = p + SlopeTerm(o)
    BY <1>11 DEF Plus
  <2> HIDE DEF s, p, c
  <2> QED BY <1>3, <1>11, <1>12, <2>1, AmountAssumption DEF Amounts
<1>14. Cost(o) \in Nat
  <2>1. Cost(o) = Times(EffectivePrice(o), Capped(o)) /\ EffectivePrice(o) \in Nat
    BY <1>13, AmountAssumption DEF Cost, Amounts
  <2> QED BY <1>8, <2>1, TimesRoundsDown
<1>15. Cost(o) \in Amounts
  BY <1>3, <1>10, <1>14, AmountAssumption DEF Amounts
<1> QED BY <1>5, <1>6, <1>7, <1>10, <1>13, <1>15

\* An executable fill is a solvable one.
LEMMA FillFacts ==
    ASSUME TypeOK, NEW o \in DOMAIN orders, Executable(o)
    PROVE  /\ Solved(o) \in Amounts
           /\ Capped(o) \in Amounts /\ Capped(o) <= Solved(o)
           /\ Cost(o) \in Amounts /\ Cost(o) <= orders[o].collateral
BY SolvedFacts DEF Executable

\* An executable fill leaves amounts in the order and in the market.
LEMMA FillType ==
    ASSUME TypeOK, NEW o \in DOMAIN orders, Executable(o)
    PROVE  /\ FilledOrder(o) \in Order
           /\ Matched(o) \in Sides
           /\ DeltaOf(supply, Matched(o)) \in Sides
           /\ AssetQuantities(o) \in [Basket(o) -> Amounts]
<1>1. o \in Orders /\ orders[o] \in Order
  BY DEF TypeOK
<1>2. FilledOrder(o) \in Order
  <2>1. orders[o].collateral \in Amounts /\ Cost(o) \in Nat
    BY <1>1, FillFacts, AmountAssumption DEF Order, Amounts
  <2>2. Ssb(orders[o].collateral, Cost(o)) \in Amounts
    BY <2>1, SsbType
  <2>3. Plus(orders[o].spent, Cost(o)) \in Amounts
    BY DEF Executable, Representable
  <2> QED BY <2>2, <2>3, FillFacts DEF FilledOrder, Order
<1>3. AssetQuantities(o) \in [Basket(o) -> Amounts]
  BY DEF AssetQuantities, Executable, Representable
<1>4. \A a \in Assets : Asked(o, a) \in Nat
  BY <1>3, AmountAssumption DEF Asked, Amounts
<1>5. Matched(o) \in Sides
  <2>1. \A a \in Assets : Matched(o).long[a] \in Amounts
    BY DEF Executable, Representable
  <2>2. \A a \in Assets : Ssb(demand.short[a], Asked(o, a)) \in Amounts
    <3> TAKE a \in Assets
    <3>1. demand.short[a] \in Amounts
      BY DEF TypeOK, Sides
    <3> QED BY <1>4, <3>1, SsbType
  <2> QED BY <2>1, <2>2 DEF Matched, Sides
<1>6. DeltaOf(supply, Matched(o)) \in Sides
  <2>1. \A a \in Assets : /\ Inflow(supply, Matched(o), a) \in Amounts
                          /\ Outflow(supply, Matched(o), a) \in Amounts
    BY DEF Executable, Representable
  <2>2. \A x, y \in Amounts : Ssb(x, y) \in Amounts
    <3> TAKE x, y \in Amounts
    <3>1. y \in Nat
      BY AmountAssumption DEF Amounts
    <3> QED BY <3>1, SsbType
  <2> QED BY <2>1, <2>2 DEF DeltaOf, Sides
<1> QED BY <1>2, <1>3, <1>5, <1>6

-----------------------------------------------------------------------------
(***************************************************************************)
(* Theorems of the specification.                                          *)
(***************************************************************************)
LEMMA BookType ==
    ASSUME NEW b \in Books
    PROVE  b.supply \in Sides /\ b.demand \in Sides /\ b.delta \in Sides /\ Netted(b.demand)
BY FillAssumption

\* Whatever the market and the indexes, every stored vector stays a vector of
\* amounts of its length: no overflow, no negative amount, no division by zero
\* reaches the storage.
THEOREM TypeCorrect == Spec => []TypeOK
<1>1. Init => TypeOK
  BY BookType DEF Init, TypeOK
<1>2. TypeOK /\ [Next]_vars => TypeOK'
  <2> SUFFICES ASSUME TypeOK, [Next]_vars PROVE TypeOK'
    OBVIOUS
  <2>1. ASSUME NEW o \in Orders, NEW c \in Deposits, PlaceOrder(o, c)
        PROVE  TypeOK'
    <3>1. [collateral |-> c, spent |-> 0, minted |-> 0] \in Order
      BY FillAssumption, AmountAssumption DEF Order, Amounts
    <3>2. DOMAIN orders' \subseteq Orders /\ orders' \in [DOMAIN orders' -> Order]
      BY <2>1, <3>1 DEF TypeOK, PlaceOrder, Put
    <3>3. DOMAIN orders \subseteq DOMAIN orders'
      BY <2>1 DEF PlaceOrder, Put
    <3> QED BY <2>1, <3>2, <3>3 DEF TypeOK, PlaceOrder
  <2>2. ASSUME NEW o \in Orders, ExecuteBuyOrder(o)
        PROVE  TypeOK'
    <3>1. o \in DOMAIN orders /\ Executable(o)
      BY <2>2 DEF ExecuteBuyOrder
    <3>2. /\ FilledOrder(o) \in Order
          /\ Matched(o) \in Sides
          /\ DeltaOf(supply, Matched(o)) \in Sides
          /\ AssetQuantities(o) \in [Basket(o) -> Amounts]
      BY <3>1, FillType
    <3>3. Capped(o) \in Amounts /\ Minus(Solved(o), Capped(o)) \in Amounts
      BY <3>1, FillFacts, AmountAssumption DEF Minus, Amounts
    <3>4. DOMAIN orders' = DOMAIN orders /\ orders' \in [DOMAIN orders' -> Order]
      BY <2>2, <3>1, <3>2 DEF TypeOK, ExecuteBuyOrder
    <3>5. DOMAIN executed' = DOMAIN executed \cup {o}
      BY <2>2 DEF ExecuteBuyOrder, Put
    <3>6. \A p \in DOMAIN executed' :
             executed'[p] = IF p = o THEN [index     |-> Capped(o),
                                           remaining |-> Minus(Solved(o), Capped(o)),
                                           assets    |-> AssetQuantities(o)]
                            ELSE executed[p]
      BY <2>2 DEF ExecuteBuyOrder, Put
    <3>7. \A p \in DOMAIN executed' : /\ executed'[p].index \in Amounts
                                     /\ executed'[p].remaining \in Amounts
                                     /\ executed'[p].assets \in [Basket(p) -> Amounts]
      <4> TAKE p \in DOMAIN executed'
      <4>1. CASE p = o
        BY <3>2, <3>3, <3>6, <4>1
      <4>2. CASE p # o
        BY <3>5, <3>6, <4>2 DEF TypeOK
      <4> QED BY <4>1, <4>2
    <3>8. supply' \in Sides /\ demand' \in Sides /\ delta' \in Sides
      BY <2>2, <3>2 DEF TypeOK, ExecuteBuyOrder
    <3>9. DOMAIN orders' \subseteq Orders /\ DOMAIN executed' \subseteq DOMAIN orders'
      BY <3>1, <3>4, <3>5 DEF TypeOK
    <3>10. \A p \in DOMAIN executed' : Basket(p)' = Basket(p)
      BY DEF Basket, Weighted
    <3> QED BY <3>4, <3>7, <3>8, <3>9, <3>10 DEF TypeOK
  <2>3. CASE UNCHANGED vars
    BY <2>3 DEF TypeOK, vars, Basket, Weighted
  <2> QED BY <2>1, <2>2, <2>3 DEF Next
<1> QED BY <1>1, <1>2, PTL DEF Spec

\* The solver's rounding never lets an executable fill cost more than the
\* collateral of its order.
THEOREM NeverOverspends == Spec => []NoOverspend
<1>1. TypeOK => NoOverspend
  BY FillFacts DEF NoOverspend
<1> QED BY <1>1, TypeCorrect, PTL

\* An executable fill that is not capped leaves of the collateral only what
\* the roundings of the solver and of the cost take away.
THEOREM LeavesOnlyDust == Spec => []SpendsAllButDust
<1>1. TypeOK => SpendsAllButDust
  <2> SUFFICES ASSUME TypeOK, NEW o \in DOMAIN orders,
                      Executable(o), Solved(o) <= QuoteOf(o).capacity
               PROVE  LET s == QuoteOf(o).slope
                          r == Root(s, QuoteOf(o).price, orders[o].collateral)
                      IN  4 * SCALE * s * (orders[o].collateral - Cost(o)) < Dust(s, r)
    BY DEF SpendsAllButDust
  <2> DEFINE s == QuoteOf(o).slope
             p == QuoteOf(o).price
             c == orders[o].collateral
  <2>1. QuoteOf(o) \in Quote /\ orders[o] \in Order
    BY QuoteType DEF TypeOK
  <2>2. s \in Nat \ {0} /\ p \in Nat /\ c \in Nat
    BY <2>1, SolvedFacts, AmountAssumption DEF Executable, Quote, Order, Amounts
  <2>3. Capped(o) = IndexQuantity(s, p, c)
    <3>1. Solved(o) \in Nat /\ QuoteOf(o).capacity \in Nat
      BY <2>1, FillFacts, AmountAssumption DEF Quote, Amounts
    <3>2. Capped(o) = Solved(o)
      BY <3>1 DEF Capped, Lesser
    <3> QED BY <3>2 DEF Solved
  <2>4. Cost(o) = Times(Plus(p, Times(s, IndexQuantity(s, p, c))), IndexQuantity(s, p, c))
    BY <2>3 DEF Cost, EffectivePrice, SlopeTerm
  <2> HIDE DEF s, p, c
  <2>5. 4 * SCALE * s * (c - Cost(o)) < Dust(s, Root(s, p, c))
    BY <2>2, <2>4, UncappedDust DEF Dust
  <2> QED BY <2>5 DEF s, p, c
<1> QED BY <1>1, TypeCorrect, PTL

\* What a fill takes from the collateral of its order it adds to the spent.
LEMMA FillConserves ==
    ASSUME TypeOK, NEW o \in DOMAIN orders, Executable(o)
    PROVE  FilledOrder(o).collateral + FilledOrder(o).spent
              = orders[o].collateral + orders[o].spent
<1>1. /\ orders[o].collateral \in Nat /\ orders[o].spent \in Nat
      /\ Cost(o) \in Nat /\ Cost(o) <= orders[o].collateral
  BY FillFacts, AmountAssumption DEF TypeOK, Order, Amounts
<1>2. FilledOrder(o).collateral = orders[o].collateral - Cost(o)
  BY <1>1, SsbFacts DEF FilledOrder
<1>3. FilledOrder(o).spent = orders[o].spent + Cost(o)
  BY DEF FilledOrder, Plus
<1> QED BY <1>1, <1>2, <1>3

\* Every step conserves collateral plus spent of every order.
THEOREM ConservesCollateral == Spec => CollateralConserved
<1> DEFINE Conserved ==
             \A o \in DOMAIN orders :
                /\ o \in DOMAIN orders'
                /\ orders'[o].collateral + orders'[o].spent
                      = orders[o].collateral + orders[o].spent
<1>1. TypeOK /\ [Next]_vars => [Conserved]_vars
  <2> SUFFICES ASSUME TypeOK, Next PROVE Conserved
    OBVIOUS
  <2>1. ASSUME NEW o \in Orders, NEW c \in Deposits, PlaceOrder(o, c)
        PROVE  Conserved
    BY <2>1 DEF PlaceOrder, Put
  <2>2. ASSUME NEW o \in Orders, ExecuteBuyOrder(o)
        PROVE  Conserved
    <3>1. o \in DOMAIN orders /\ Executable(o)
      BY <2>2 DEF ExecuteBuyOrder
    <3>2. orders' = [orders EXCEPT ![o] = FilledOrder(o)]
      BY <2>2 DEF ExecuteBuyOrder
    <3>3. FilledOrder(o).collateral + FilledOrder(o).spent
             = orders[o].collateral + orders[o].spent
      BY <3>1, FillConserves
    <3> QED BY <3>1, <3>2, <3>3 DEF TypeOK
  <2> QED BY <2>1, <2>2 DEF Next
<1> QED BY <1>1, TypeCorrect, PTL DEF Spec, CollateralConserved

\* An order never holds and has spent together more than an Amount: the
\* strengthening that bounds what was spent before the next fill.
FundsFit == \A o \in DOMAIN orders : orders[o].collateral + orders[o].spent \in Amounts

LEMMA FundsStayFit == Spec => []FundsFit
<1>1. Init => FundsFit
  BY DEF Init, FundsFit
<1>2. TypeOK /\ FundsFit /\ [Next]_vars => FundsFit'
  <2> SUFFICES ASSUME TypeOK, FundsFit, [Next]_vars PROVE FundsFit'
    OBVIOUS
  <2>1. ASSUME NEW o \in Orders, NEW c \in Deposits, PlaceOrder(o, c)
        PROVE  FundsFit'
    <3>1. c \in Amounts /\ c + 0 \in Amounts
      BY FillAssumption, AmountAssumption DEF Amounts
    <3> QED BY <2>1, <3>1 DEF FundsFit, PlaceOrder, Put
  <2>2. ASSUME NEW o \in Orders, ExecuteBuyOrder(o)
        PROVE  FundsFit'
    <3>1. /\ o \in DOMAIN orders /\ Executable(o)
          /\ orders' = [orders EXCEPT ![o] = FilledOrder(o)]
      BY <2>2 DEF ExecuteBuyOrder
    <3>2. FilledOrder(o).collateral + FilledOrder(o).spent
             = orders[o].collateral + orders[o].spent
      BY <3>1, FillConserves
    <3> QED BY <3>1, <3>2 DEF FundsFit, TypeOK
  <2>3. CASE UNCHANGED vars
    BY <2>3 DEF FundsFit, vars
  <2> QED BY <2>1, <2>2, <2>3 DEF Next
<1> QED BY <1>1, <1>2, TypeCorrect, PTL DEF Spec

\* No fill fails after it has stored its first vector, after any number of
\* earlier fills and for every scale, bound and quote.
THEOREM StoresSafely == Spec => []StoringIsSafe
<1>1. TypeOK /\ FundsFit => StoringIsSafe
  <2> SUFFICES ASSUME TypeOK, FundsFit, NEW o \in DOMAIN orders,
                      Solvable(QuoteOf(o).slope, QuoteOf(o).price, orders[o].collateral)
               PROVE  /\ Representable(SlopeTerm(o))
                      /\ Representable(EffectivePrice(o))
                      /\ Representable(Cost(o))
                      /\ Representable(Plus(orders[o].spent, Cost(o)))
                      /\ Representable(Minus(Solved(o), Capped(o)))
    BY DEF StoringIsSafe
  <2>1. /\ Solved(o) \in Amounts /\ Capped(o) \in Amounts /\ Capped(o) <= Solved(o)
        /\ SlopeTerm(o) \in Amounts /\ EffectivePrice(o) \in Amounts
        /\ Cost(o) \in Amounts /\ Cost(o) <= orders[o].collateral
    BY SolvedFacts
  <2>2. /\ orders[o].collateral \in Nat /\ orders[o].spent \in Nat
        /\ orders[o].collateral + orders[o].spent \in Amounts
    BY AmountAssumption DEF FundsFit, TypeOK, Order, Amounts
  <2>3. orders[o].spent + Cost(o) \in Amounts
    BY <2>1, <2>2, AmountAssumption DEF Amounts
  <2>4. Solved(o) - Capped(o) \in Amounts
    BY <2>1, AmountAssumption DEF Amounts
  <2> QED BY <2>1, <2>3, <2>4 DEF Representable, Plus, Minus
<1> QED BY <1>1, TypeCorrect, FundsStayFit, PTL

\* No asset is ever demanded in both directions.
THEOREM DemandStaysNetted == Spec => []DemandNetted
<1>1. Init => DemandNetted
  BY BookType DEF Init, DemandNetted
<1>2. TypeOK /\ DemandNetted /\ [Next]_vars => DemandNetted'
  <2> SUFFICES ASSUME TypeOK, DemandNetted, [Next]_vars PROVE DemandNetted'
    OBVIOUS
  <2>1. ASSUME NEW o \in Orders, ExecuteBuyOrder(o)
        PROVE  DemandNetted'
    <3>1. o \in DOMAIN orders /\ Executable(o) /\ demand' = Matched(o)
      BY <2>1 DEF ExecuteBuyOrder
    <3> SUFFICES ASSUME NEW a \in Assets
                 PROVE  Matched(o).long[a] = 0 \/ Matched(o).short[a] = 0
      BY <3>1 DEF DemandNetted, Netted
    <3>2. demand.long[a] \in Nat /\ demand.short[a] \in Nat
      BY AmountAssumption DEF TypeOK, Sides, Amounts
    <3>3. Asked(o, a) \in Nat
      BY <3>1, FillType, AmountAssumption DEF Asked, Amounts
    <3>4. Matched(o).long[a] = demand.long[a] + Ssb(Asked(o, a), demand.short[a])
      BY DEF Matched, Plus
    <3>5. Matched(o).short[a] = Ssb(demand.short[a], Asked(o, a))
      BY DEF Matched
    <3>6. CASE demand.short[a] <= Asked(o, a)
      BY <3>2, <3>3, <3>5, <3>6, SsbFacts
    <3>7. CASE Asked(o, a) <= demand.short[a] /\ demand.short[a] # 0
      <4>1. demand.long[a] = 0
        BY <3>7 DEF DemandNetted, Netted
      <4>2. Ssb(Asked(o, a), demand.short[a]) = 0
        BY <3>2, <3>3, <3>7, SsbFacts
      <4> QED BY <3>4, <4>1, <4>2
    <3> QED BY <3>2, <3>3, <3>6, <3>7
  <2>2. CASE UNCHANGED demand
    BY <2>2 DEF DemandNetted, Netted
  <2> QED BY <2>1, <2>2 DEF Next, PlaceOrder, vars
<1> QED BY <1>1, <1>2, TypeCorrect, PTL DEF Spec

\* After every fill delta is the balance of supply and demand.
THEOREM DeltaStaysBalanced == Spec => []DeltaBalances
<1>1. Init => DeltaBalances
  BY DEF Init, DeltaBalances
<1>2. TypeOK /\ DeltaBalances /\ [Next]_vars => DeltaBalances'
  <2> SUFFICES ASSUME TypeOK, DeltaBalances, [Next]_vars PROVE DeltaBalances'
    OBVIOUS
  <2>1. ASSUME NEW o \in Orders, ExecuteBuyOrder(o)
        PROVE  DeltaBalances'
    <3>1. /\ o \in DOMAIN orders /\ Executable(o)
          /\ demand' = Matched(o) /\ supply' = supply
          /\ delta' = DeltaOf(supply, Matched(o))
      BY <2>1 DEF ExecuteBuyOrder
    <3>2. Matched(o) \in Sides
      BY <3>1, FillType
    <3> SUFFICES ASSUME NEW a \in Assets
                 PROVE  /\ delta'.long[a] - delta'.short[a]
                              = (supply.long[a] + Matched(o).short[a])
                                - (supply.short[a] + Matched(o).long[a])
                        /\ delta'.long[a] = 0 \/ delta'.short[a] = 0
      BY <3>1 DEF DeltaBalances
    <3> DEFINE x == Inflow(supply, Matched(o), a)
               y == Outflow(supply, Matched(o), a)
    <3>3. /\ x = supply.long[a] + Matched(o).short[a]
          /\ y = supply.short[a] + Matched(o).long[a]
      BY DEF Inflow, Outflow, Plus
    <3>4. x \in Nat /\ y \in Nat
      BY <3>1, AmountAssumption DEF Executable, Representable, Amounts
    <3>5. delta'.long[a] = Ssb(x, y) /\ delta'.short[a] = Ssb(y, x)
      BY <3>1 DEF DeltaOf
    <3> HIDE DEF x, y
    <3>6. CASE x <= y
      <4>1. Ssb(x, y) = 0 /\ Ssb(y, x) = y - x
        BY <3>4, <3>6, SsbFacts
      <4> QED BY <3>3, <3>4, <3>5, <4>1
    <3>7. CASE y <= x
      <4>1. Ssb(y, x) = 0 /\ Ssb(x, y) = x - y
        BY <3>4, <3>7, SsbFacts
      <4> QED BY <3>3, <3>4, <3>5, <4>1
    <3> QED BY <3>4, <3>6, <3>7
  <2>2. CASE UNCHANGED <<supply, demand, delta, executed>>
    BY <2>2 DEF DeltaBalances
  <2> QED BY <2>1, <2>2 DEF Next, PlaceOrder, vars
<1> QED BY <1>1, <1>2, TypeCorrect, PTL DEF Spec

\* The market absorbs exactly the quantities a fill publishes.
THEOREM DemandFollows == Spec => DemandFollowsExecution
<1> DEFINE Follows ==
             demand' # demand =>
                \E o \in DOMAIN executed' : \A a \in Assets :
                   NetDemand(demand', a) - NetDemand(demand, a)
                      = IF a \in Basket(o) THEN executed'[o].assets[a] ELSE 0
<1>1. TypeOK /\ [Next]_vars => [Follows]_vars
  <2> SUFFICES ASSUME TypeOK, Next PROVE Follows
    OBVIOUS
  <2>1. ASSUME NEW o \in Orders, ExecuteBuyOrder(o)
        PROVE  Follows
    <3>1. o \in DOMAIN orders /\ Executable(o) /\ demand' = Matched(o)
      BY <2>1 DEF ExecuteBuyOrder
    <3>2. o \in DOMAIN executed' /\ executed'[o].assets = AssetQuantities(o)
      BY <2>1 DEF ExecuteBuyOrder, Put
    <3>3. ASSUME NEW a \in Assets
          PROVE  NetDemand(Matched(o), a) - NetDemand(demand, a) = Asked(o, a)
      <4>1. demand.long[a] \in Nat /\ demand.short[a] \in Nat
        BY AmountAssumption DEF TypeOK, Sides, Amounts
      <4>2. Asked(o, a) \in Nat
        BY <3>1, FillType, AmountAssumption DEF Asked, Amounts
      <4>3. /\ Matched(o).long[a] = demand.long[a] + Ssb(Asked(o, a), demand.short[a])
            /\ Matched(o).short[a] = Ssb(demand.short[a], Asked(o, a))
        BY DEF Matched, Plus
      <4>4. CASE demand.short[a] <= Asked(o, a)
        <5>1. /\ Ssb(Asked(o, a), demand.short[a]) = Asked(o, a) - demand.short[a]
              /\ Ssb(demand.short[a], Asked(o, a)) = 0
          BY <4>1, <4>2, <4>4, SsbFacts
        <5> QED BY <4>1, <4>2, <4>3, <5>1 DEF NetDemand
      <4>5. CASE Asked(o, a) <= demand.short[a]
        <5>1. /\ Ssb(Asked(o, a), demand.short[a]) = 0
              /\ Ssb(demand.short[a], Asked(o, a)) = demand.short[a] - Asked(o, a)
          BY <4>1, <4>2, <4>5, SsbFacts
        <5> QED BY <4>1, <4>2, <4>3, <5>1 DEF NetDemand
      <4> QED BY <4>1, <4>2, <4>4, <4>5
    <3> QED BY <3>1, <3>2, <3>3 DEF Asked
  <2>2. ASSUME NEW o \in Orders, NEW c \in Deposits, PlaceOrder(o, c)
        PROVE  Follows
    BY <2>2 DEF PlaceOrder
  <2> QED BY <2>1, <2>2 DEF Next
<1> QED BY <1>1, TypeCorrect, PTL DEF Spec, DemandFollowsExecution

=============================================================================
