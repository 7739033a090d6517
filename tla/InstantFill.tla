---------------------------- MODULE InstantFill ----------------------------
(***************************************************************************)
(* What executing index buy orders promises, whatever machine executes     *)
(* them: the order book of the vaults, the demand and delta of the market, *)
(* and the fill that moves all of them in one step.                        *)
(*                                                                         *)
(* The arithmetic is the one of the VIL program execute_buy_order and of   *)
(* its subroutine solve_quadratic, with the rounding of Amount.  A fill    *)
(* is atomic: the program runs inside one transaction of the DeVIL         *)
(* contract, and a result no Amount holds reverts that transaction, so     *)
(* such a fill is no step at all.                                          *)
(***************************************************************************)
EXTENDS Quadratic

CONSTANTS Orders,     \* the ids an order vector may be stored under
          Indexes,    \* the vaults
          IndexOf,    \* the vault an order was sent to
          Weights,    \* Weights[x]: the index's assets and their weights
          Quotes,     \* Quotes[x]: capacity, price and slope of the index
          Assets,     \* the assets of the market
          Deposits,   \* the collateral amounts an order may start with
          Books       \* the supply, demand and delta a market may start with

Order == [collateral : Amounts, spent : Amounts, minted : Amounts]
Quote == [capacity : Amounts, price : Amounts, slope : Amounts]
Sides == [long : [Assets -> Amounts], short : [Assets -> Amounts]]

\* A market is netted when no asset is demanded in both directions.
Netted(d) == \A a \in Assets : d.long[a] = 0 \/ d.short[a] = 0

ASSUME FillAssumption ==
    /\ IndexOf \in [Orders -> Indexes]
    /\ Quotes \in [Indexes -> Quote]
    /\ \A x \in Indexes : Weights[x] \in [DOMAIN Weights[x] -> Amounts]
    /\ Deposits \subseteq Amounts
    /\ Books \subseteq [supply : Sides, demand : Sides, delta : Sides]
    /\ \A b \in Books : Netted(b.demand)

VARIABLES orders,     \* the stored order vectors [Collateral, Spent, Minted]
          supply,     \* supply_long, supply_short
          demand,     \* demand_long, demand_short
          delta,      \* delta_long, delta_short
          executed    \* the executed quantities the last fill of an order stored

vars == <<orders, supply, demand, delta, executed>>

-----------------------------------------------------------------------------
(***************************************************************************)
(* The quantities of a fill of order o.                                    *)
(***************************************************************************)
QuoteOf(o)  == Quotes[IndexOf[o]]
Weighted(o) == Weights[IndexOf[o]]
Basket(o)   == DOMAIN Weighted(o)

Solved(o) == IndexQuantity(QuoteOf(o).slope, QuoteOf(o).price,
                           orders[o].collateral)

\* Cap Index Quantity with Capacity.
Capped(o) == Lesser(Solved(o), QuoteOf(o).capacity)

\* Generate Individual Asset Orders.
AssetQuantities(o) == [a \in Basket(o) |-> Times(Weighted(o)[a], Capped(o))]

\* What the fill asks of an asset of the market.
Asked(o, a) == IF a \in Basket(o) THEN AssetQuantities(o)[a] ELSE 0

\* Seeded faults: the whole quantity is added to the long demand, or the short
\* demand that was matched stays.
MatchedTwice(o) ==
    [long  |-> [a \in Assets |-> Plus(demand.long[a], Asked(o, a))],
     short |-> [a \in Assets |-> Ssb(demand.short[a], Asked(o, a))]]
MatchedUnconsumed(o) ==
    [long  |-> [a \in Assets |-> Plus(demand.long[a], Ssb(Asked(o, a), demand.short[a]))],
     short |-> demand.short]

\* Match Market: short demand is consumed first, the rest is new long demand.
Matched(o) ==
    [long  |-> [a \in Assets |-> Plus(demand.long[a], Ssb(Asked(o, a), demand.short[a]))],
     short |-> [a \in Assets |-> Ssb(demand.short[a], Asked(o, a))]]

\* Update Delta: (Supply Long + Demand Short) - (Supply Short + Demand Long).
Inflow(s, d, a)  == Plus(s.long[a], d.short[a])
Outflow(s, d, a) == Plus(s.short[a], d.long[a])

\* Seeded faults: a checked subtraction, or none on the long side.
DeltaOfSigned(s, d) ==
    [long  |-> [a \in Assets |-> Minus(Inflow(s, d, a), Outflow(s, d, a))],
     short |-> [a \in Assets |-> Minus(Outflow(s, d, a), Inflow(s, d, a))]]
DeltaOfGross(s, d) ==
    [long  |-> [a \in Assets |-> Inflow(s, d, a)],
     short |-> [a \in Assets |-> Ssb(Outflow(s, d, a), Inflow(s, d, a))]]

DeltaOf(s, d) ==
    [long  |-> [a \in Assets |-> Ssb(Inflow(s, d, a), Outflow(s, d, a))],
     short |-> [a \in Assets |-> Ssb(Outflow(s, d, a), Inflow(s, d, a))]]

\* Compute Collateral Spent: Q * (P + S * Q).
SlopeTerm(o)      == Times(QuoteOf(o).slope, Capped(o))
EffectivePrice(o) == Plus(QuoteOf(o).price, SlopeTerm(o))
Cost(o)           == Times(EffectivePrice(o), Capped(o))

\* The program runs to its end: the index has assets (an empty vector counts
\* as none) and trades only those of the market, the slope divides, and every
\* intermediate result fits an Amount.
Executable(o) ==
    /\ Basket(o) # {}
    /\ Basket(o) \subseteq Assets
    /\ Solvable(QuoteOf(o).slope, QuoteOf(o).price, orders[o].collateral)
    /\ \A a \in Basket(o) : Representable(AssetQuantities(o)[a])
    /\ \A a \in Assets : /\ Representable(Matched(o).long[a])
                         /\ Representable(Inflow(supply, Matched(o), a))
                         /\ Representable(Outflow(supply, Matched(o), a))
    /\ Representable(SlopeTerm(o))
    /\ Representable(EffectivePrice(o))
    /\ Representable(Cost(o))
    /\ Representable(Plus(orders[o].spent, Cost(o)))

-----------------------------------------------------------------------------
(***************************************************************************)
(* The actions.                                                            *)
(***************************************************************************)

\* Store an entry under o, replacing the one that is there.
Put(f, o, v) == [p \in DOMAIN f \cup {o} |-> IF p = o THEN v ELSE f[p]]

\* The order vector is submitted to DeVIL, which refuses an id in use.
PlaceOrder(o, c) ==
    /\ o \notin DOMAIN orders
    /\ orders' = Put(orders, o, [collateral |-> c, spent |-> 0, minted |-> 0])
    /\ UNCHANGED <<supply, demand, delta, executed>>

\* Seeded fault: what was spent is counted without the slope.
FilledOrderFlat(o) ==
    [collateral |-> Ssb(orders[o].collateral, Cost(o)),
     spent      |-> Plus(orders[o].spent, Times(QuoteOf(o).price, Capped(o))),
     minted     |-> Capped(o)]

\* Seeded fault: the order keeps its collateral.
FilledOrderUnpaid(o) ==
    [collateral |-> orders[o].collateral,
     spent      |-> Plus(orders[o].spent, Cost(o)),
     minted     |-> Capped(o)]

\* The order vector a fill stores: (CR, CS_new, CIQ).
FilledOrder(o) ==
    [collateral |-> Ssb(orders[o].collateral, Cost(o)),
     spent      |-> Plus(orders[o].spent, Cost(o)),
     minted     |-> Capped(o)]

ExecuteBuyOrder(o) ==
    /\ o \in DOMAIN orders
    /\ Executable(o)
    /\ orders'   = [orders EXCEPT ![o] = FilledOrder(o)]
    /\ demand'   = Matched(o)
    /\ delta'    = DeltaOf(supply, Matched(o))
    /\ executed' = Put(executed, o, [index     |-> Capped(o),
                                     remaining |-> Minus(Solved(o), Capped(o)),
                                     assets    |-> AssetQuantities(o)])
    /\ UNCHANGED supply

Init ==
    /\ orders = << >>
    /\ executed = << >>
    /\ \E b \in Books : supply = b.supply /\ demand = b.demand /\ delta = b.delta

Next ==
    \/ \E o \in Orders, c \in Deposits : PlaceOrder(o, c)
    \/ \E o \in Orders : ExecuteBuyOrder(o)

Spec == Init /\ [][Next]_vars

-----------------------------------------------------------------------------
(***************************************************************************)
(* Properties.                                                             *)
(***************************************************************************)

\* Every stored vector holds amounts, has the length its labels ask for, and
\* an execution is recorded only for an order that was placed.
TypeOK ==
    /\ DOMAIN orders \subseteq Orders
    /\ orders \in [DOMAIN orders -> Order]
    /\ supply \in Sides /\ demand \in Sides /\ delta \in Sides
    /\ DOMAIN executed \subseteq DOMAIN orders
    /\ \A o \in DOMAIN executed :
          /\ executed[o].index \in Amounts
          /\ executed[o].remaining \in Amounts
          /\ executed[o].assets \in [Basket(o) -> Amounts]

\* The rounded solution of the quadratic never costs more than the collateral
\* it was solved from, so the saturating "CR = (C - CS)" of the program
\* (execute_buy_order.rs:138-140) never hides a loss.
NoOverspend ==
    \A o \in DOMAIN orders : Executable(o) => Cost(o) <= orders[o].collateral

\* A fill the capacity does not cap spends the collateral up to what rounding
\* takes: about (R / 2S) / SCALE_SQRT for the truncated root, and units for the
\* truncated products and quotient.  Multiplied out, in raw units.
Dust(s, r) == 6 * SCALE * SCALE + (2 * SCALE_SQRT + 2) * SCALE * r + 4 * s * r + 4 * s * SCALE
SpendsAllButDust ==
    \A o \in DOMAIN orders :
        Executable(o) /\ Solved(o) <= QuoteOf(o).capacity =>
            LET s == QuoteOf(o).slope
                r == Root(s, QuoteOf(o).price, orders[o].collateral)
            IN  4 * SCALE * s * (orders[o].collateral - Cost(o)) < Dust(s, r)

\* The program stores demand and delta before it computes what the fill costs
\* (execute_buy_order.rs:120-147).  Once the quadratic is solved, none of the
\* later sums, products and differences can overflow, however often the order
\* was filled before: no fill fails after its first STV.
StoringIsSafe ==
    \A o \in DOMAIN orders :
        Solvable(QuoteOf(o).slope, QuoteOf(o).price, orders[o].collateral) =>
            /\ Representable(SlopeTerm(o))
            /\ Representable(EffectivePrice(o))
            /\ Representable(Cost(o))
            /\ Representable(Plus(orders[o].spent, Cost(o)))
            /\ Representable(Minus(Solved(o), Capped(o)))

\* Collateral leaves an order only into what the order has spent: over any
\* step the sum of both is what it was, for every order in the book.
CollateralConserved ==
    [][\A o \in DOMAIN orders :
          /\ o \in DOMAIN orders'
          /\ orders'[o].collateral + orders'[o].spent
                = orders[o].collateral + orders[o].spent]_vars

\* Matching consumes the short demand of an asset before it adds long demand,
\* so no asset is ever demanded in both directions
\* (execute_buy_order.rs:63-88).
DemandNetted == Netted(demand)

\* From the first fill on, delta is the balance of supply and demand the
\* comment at execute_buy_order.rs:92 states, split over two unsigned vectors
\* of which one is zero for each asset.
DeltaBalances ==
    DOMAIN executed # {} =>
        \A a \in Assets :
            /\ delta.long[a] - delta.short[a]
                  = (supply.long[a] + demand.short[a]) - (supply.short[a] + demand.long[a])
            /\ delta.long[a] = 0 \/ delta.short[a] = 0

\* The net demand of the market moves by exactly the asset quantities the
\* fill publishes: nothing is lost between the filter, the update and the
\* addition of the joins (execute_buy_order.rs:67-83 and 163-165).
NetDemand(d, a) == d.long[a] - d.short[a]
DemandFollowsExecution ==
    [][demand' # demand =>
          \E o \in DOMAIN executed' : \A a \in Assets :
              NetDemand(demand', a) - NetDemand(demand, a)
                 = IF a \in Basket(o) THEN executed'[o].assets[a] ELSE 0]_vars

\* The minted quantity of an order never shrinks: Vault keeps, per user,
\* "[USDC Remaining, USDC Spent, ITP Minted]" (vault/src/lib.rs:27), the
\* running totals of the order.
MintedAccumulates ==
    [][\A o \in DOMAIN orders : orders'[o].minted >= orders[o].minted]_vars

=============================================================================
