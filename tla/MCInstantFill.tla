--------------------------- MODULE MCInstantFill ---------------------------
(***************************************************************************)
(* InstantFill for TLC.  1.0 is 100 raw units, two indexes share an asset  *)
(* of a market of three, and fills overflow: the small index for its       *)
(* largest order, and every index once the demand of a crowded market is   *)
(* near MAX.                                                               *)
(***************************************************************************)
EXTENDS InstantFill, FiniteSets

CONSTANTS o1, o2, o3, btc, eth, sol, large, small

MCOrders  == {o1, o2, o3}
MCIndexes == {large, small}
MCIndexOf == [o \in MCOrders |-> IF o = o3 THEN small ELSE large]
MCAssets  == {btc, eth, sol}

\* The large index holds two assets, the small one the two others share.
MCWeights ==
    [x \in MCIndexes |-> IF x = large THEN [a \in {btc, eth} |-> IF a = btc THEN 50 ELSE 100]
                                      ELSE [a \in {eth, sol} |-> IF a = sol THEN 70 ELSE 30]]
MCQuotes ==
    [x \in MCIndexes |-> IF x = large THEN [capacity |-> 100, price |-> 150, slope |-> 50]
                                      ELSE [capacity |-> 400, price |-> 230, slope |-> 70]]
MCDeposits == {0, 130, 700}

Flat(n)  == [a \in MCAssets |-> n]
NoSides  == [long |-> Flat(0), short |-> Flat(0)]
Uneven   == [long |-> [Flat(0) EXCEPT ![btc] = 30], short |-> [Flat(0) EXCEPT ![eth] = 60]]
Crowded  == [NoSides EXCEPT !.long[eth] = 2300]
MCBooks  ==
    {[supply |-> [NoSides EXCEPT !.long = Flat(20)], demand |-> Uneven, delta |-> NoSides],
     [supply |-> [NoSides EXCEPT !.short[eth] = 40], demand |-> Crowded, delta |-> NoSides]}

=============================================================================
