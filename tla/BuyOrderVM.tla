----------------------------- MODULE BuyOrderVM -----------------------------
(***************************************************************************)
(* Executing index buy orders on DeVIL: the machine of Devil, loaded with  *)
(* the vectors of a market and of its indexes, is sent order vectors and   *)
(* the assembled execute_buy_order program, as Daxos.submit_order sends    *)
(* it.  The storage this leaves, decoded, is a behavior of InstantFill.    *)
(***************************************************************************)
EXTENDS Devil, Vil

CONSTANTS Orders,       \* the ids of the order vectors
          Indexes,      \* the vaults
          IndexOf,      \* the vault an order was sent to
          IndexLabels,  \* asset names of each index, a sequence of labels
          IndexWeights, \* weights of each index, one per label
          Quotes,       \* quote of each index: capacity, price, slope
          MarketLabels, \* asset names of the market
          Deposits,     \* collateral of new orders
          Markets,      \* vectors a market starts with
          MaxOrders,    \* bound: most orders in the book
          Daxos         \* the owner of the machine

\* Ids of the market's vectors, and of each index's and each order's
\* (daxos/src/lib.rs:179-192; orders count from 2001 instead of 10001, for an
\* id is a word and no word exceeds MAX).
MarketIds == [names |-> 101, supplyLong |-> 102, supplyShort |-> 103, demandLong |-> 104,
              demandShort |-> 105, deltaLong |-> 106, deltaShort |-> 107]
SolveQuadraticId == 10
NamesId(x)   == 1001 + 10 * x
WeightsId(x) == 1002 + 10 * x
QuoteId(x)   == 1003 + 10 * x
OrderId(o)           == 2001 + 10 * o
ExecutedAssetsId(o)  == 2002 + 10 * o
ExecutedIndexId(o)   == 2003 + 10 * o

\* The arguments of execute_buy_order.
FillIds(o) ==
    [order                   |-> OrderId(o),
     executedIndexQuantities |-> ExecutedIndexId(o),
     executedAssetQuantities |-> ExecutedAssetsId(o),
     assetNames              |-> NamesId(IndexOf[o]),
     assetWeights            |-> WeightsId(IndexOf[o]),
     indexQuote              |-> QuoteId(IndexOf[o]),
     marketAssetNames        |-> MarketIds.names,
     supplyLong              |-> MarketIds.supplyLong,
     supplyShort             |-> MarketIds.supplyShort,
     demandLong              |-> MarketIds.demandLong,
     demandShort             |-> MarketIds.demandShort,
     deltaLong               |-> MarketIds.deltaLong,
     deltaShort              |-> MarketIds.deltaShort,
     solveQuadratic          |-> SolveQuadraticId]

BuyCode == [o \in Orders |-> Assemble(ExecuteBuyOrderProgram(FillIds(o)))]
BuyPrograms == {[code |-> BuyCode[o], registers |-> 16] : o \in Orders}

\* The storage before the first order.
QuadraticCode == Assemble(SolveQuadratic)
QuoteWords(x) == <<Quotes[x].capacity, Quotes[x].price, Quotes[x].slope>>
IndexData ==
    [id \in UNION {{NamesId(x), WeightsId(x), QuoteId(x)} : x \in Indexes} |->
        LET x == CHOOSE y \in Indexes : id \in {NamesId(y), WeightsId(y), QuoteId(y)}
        IN  CASE id = NamesId(x)   -> IndexLabels[x]
              [] id = WeightsId(x) -> IndexWeights[x]
              [] OTHER             -> QuoteWords(x)]
MarketData(market) ==
    [id \in {MarketIds[k] : k \in DOMAIN MarketIds} |->
        IF id = MarketIds.names THEN MarketLabels
        ELSE market[CHOOSE k \in DOMAIN MarketIds : MarketIds[k] = id]]
Preloaded(market) ==
    [id \in {SolveQuadraticId} \cup DOMAIN IndexData \cup DOMAIN MarketData(market) |->
        CASE id = SolveQuadraticId  -> QuadraticCode
          [] id \in DOMAIN IndexData -> IndexData[id]
          [] OTHER                  -> MarketData(market)[id]]

\* Fewer than a hundred indexes, so that their ids end before those of the
\* orders begin; the contract accepts the orders and the programs; `as usize`
\* keeps the positions and register numbers of a program; a market starts with
\* words only.
ASSUME BuyOrderAssumption ==
    /\ Orders \subseteq Nat
    /\ Indexes \subseteq 0 .. 99
    /\ IndexOf \in [Orders -> Indexes]
    /\ Daxos \in Addresses
    /\ USIZE >= 100
    /\ BuyPrograms \subseteq Programs
    /\ {OrderId(o) : o \in Orders} \subseteq Ids
    /\ {<<c, 0, 0>> : c \in Deposits} \subseteq Blobs
    /\ \A market \in Markets : StorageOK(Preloaded(market))

LoadedInit ==
    /\ owner = Daxos
    /\ vectors \in {Preloaded(market) : market \in Markets}
    /\ committed = vectors
    /\ frames = << >>
    /\ tx = [sender |-> Daxos, outcome |-> "done"]

IsStored(id) == Stored(committed, id) # << >>
Placed       == {o \in Orders : IsStored(OrderId(o))}

PlaceOrder(o) == /\ Cardinality(Placed \cup {o}) <= MaxOrders
                 /\ \E c \in Deposits : Submit(Daxos, OrderId(o), <<c, 0, 0>>)
FillOrder(o)  == Execute(Daxos, [code |-> BuyCode[o], registers |-> 16])

FillNext == \/ \E o \in Orders : PlaceOrder(o) \/ FillOrder(o)
            \/ Step

FillSpec == LoadedInit /\ [][FillNext]_vars /\ WF_vars(Step)

-----------------------------------------------------------------------------
(***************************************************************************)
(* The refinement: what the committed storage says about orders, supply,   *)
(* demand, delta and executions.                                           *)
(***************************************************************************)
PositionIn(labels, a) == CHOOSE i \in DOMAIN labels : labels[i] = a
ByAsset(vector) == [a \in ToSet(MarketLabels) |-> vector[PositionIn(MarketLabels, a)]]
BothSides(long, short) == [long |-> ByAsset(long), short |-> ByAsset(short)]
WeightOf(x)  == [a \in ToSet(IndexLabels[x]) |-> IndexWeights[x][PositionIn(IndexLabels[x], a)]]

OrderBook ==
    [o \in Placed |->
        [collateral |-> committed[OrderId(o)][1],
         spent      |-> committed[OrderId(o)][2],
         minted     |-> committed[OrderId(o)][3]]]
Executions ==
    [o \in {p \in Orders : IsStored(ExecutedIndexId(p))} |->
        [index     |-> committed[ExecutedIndexId(o)][1],
         remaining |-> committed[ExecutedIndexId(o)][2],
         assets    |-> [a \in ToSet(IndexLabels[IndexOf[o]]) |->
                           committed[ExecutedAssetsId(o)][PositionIn(IndexLabels[IndexOf[o]], a)]]]]

StartBooks ==
    {[supply |-> BothSides(m.supplyLong, m.supplyShort),
      demand |-> BothSides(m.demandLong, m.demandShort),
      delta  |-> BothSides(m.deltaLong, m.deltaShort)] : m \in Markets}

Fill == INSTANCE InstantFill WITH
            Weights  <- [x \in Indexes |-> WeightOf(x)],
            Assets   <- ToSet(MarketLabels),
            Books    <- StartBooks,
            orders   <- OrderBook,
            supply   <- BothSides(committed[MarketIds.supplyLong],
                                  committed[MarketIds.supplyShort]),
            demand   <- BothSides(committed[MarketIds.demandLong],
                                  committed[MarketIds.demandShort]),
            delta    <- BothSides(committed[MarketIds.deltaLong], committed[MarketIds.deltaShort]),
            executed <- Executions

-----------------------------------------------------------------------------
(***************************************************************************)
(* Properties.                                                             *)
(***************************************************************************)

\* Every committed storage decodes to a state of InstantFill and every
\* transaction to one of its steps or to none: a hundred instructions, their
\* stack positions and their subroutine compute the fill, all of it or nothing.
ImplementsInstantFill == Fill!Init /\ [][Fill!Next]_(Fill!vars)

\* A fill that can be computed is never rejected: the program reverts only
\* for an order that is not there, an index the market does not cover, a
\* slope of zero or a value no Amount holds.
RejectsOnlyTheInexecutable ==
    [][/\ ~ Idle
       /\ Idle'
       /\ tx'.outcome = "reverted"
       => \A o \in Orders :
             frames[1].code = BuyCode[o] => ~ (IsStored(OrderId(o)) /\ Fill!Executable(o))]_vars

\* A fill that fails has stored nothing yet.  Demand and delta are stored
\* before the cost is known and added to what was spent
\* (execute_buy_order.rs:120-147), and none of that can fail any more.
NothingToRollBack ==
    [][~ Idle /\ Idle' /\ tx'.outcome = "reverted" => vectors = committed]_vars

\* Every position in the program is right to the end: it leaves the stack as
\* empty as its last comment says (execute_buy_order.rs:161-166).
EndsWithEmptyStack == Len(frames) = 1 /\ Finished => M.stack = << >>

\* No instruction reads a register that LDM has emptied, or never set.
NoEmptyOperand ==
    \A f \in ToSet(frames) : NoOperand \notin ToSet(f.m.stack)

=============================================================================
