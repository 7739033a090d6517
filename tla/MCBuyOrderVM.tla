---------------------------- MODULE MCBuyOrderVM ----------------------------
(***************************************************************************)
(* BuyOrderVM for TLC: a market of three assets, five indexes, one order   *)
(* for each but two for the first.  Index 1 fills; index 2 names an asset  *)
(* beyond the last of the market and index 3 one before its first; index 4 *)
(* has a slope of zero; index 5 has no assets.                             *)
(***************************************************************************)
EXTENDS BuyOrderVM

MCOrders  == 1 .. 6
MCIndexes == 1 .. 5
MCIndexOf == <<1, 1, 2, 3, 4, 5>>
MCIndexLabels  == << <<51, 53>>, <<52, 55>>, <<50, 52>>, <<52>>, << >> >>
MCIndexWeights == << <<50, 100>>, <<100, 70>>, <<100, 70>>, <<100>>, << >> >>
\* A solvable quote, whose capacity caps the fill, and one of slope zero.
Priced    == [capacity |-> 100, price |-> 150, slope |-> 50]
Flat      == [capacity |-> 400, price |-> 230, slope |-> 0]
MCQuotes  == <<Priced, Priced, Priced, Flat, Priced>>
MCMarketLabels == <<51, 52, 53>>
MCDeposits == {700}

Quiet == [k \in {"supplyLong", "supplyShort", "demandLong", "demandShort",
                 "deltaLong", "deltaShort"} |-> <<0, 0, 0>>]
MCMarkets ==
    {[Quiet EXCEPT !.supplyLong = <<20, 20, 20>>, !.demandLong = <<30, 0, 0>>,
                   !.demandShort = <<0, 60, 60>>],
     [Quiet EXCEPT !.supplyShort = <<0, 40, 0>>, !.demandLong = <<0, 0, 1800>>]}

MCAddresses == {Daxos}
MCIds   == {OrderId(o) : o \in MCOrders}
MCBlobs == {<<c, 0, 0>> : c \in MCDeposits}

=============================================================================
