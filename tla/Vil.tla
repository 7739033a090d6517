-------------------------------- MODULE Vil --------------------------------
(***************************************************************************)
(* The VIL programs of libs/icore/src/vil, and the devil! macro            *)
(* (proc-macros/devil-macros) that assembles them.                         *)
(*                                                                         *)
(* A source program is a sequence of instructions, a mnemonic followed by  *)
(* its arguments.  The arguments of LDR, LDM and STR are names of          *)
(* registers, those of IMMS and VPUSH amounts in units of 1.0.             *)
(***************************************************************************)
EXTENDS Vis, Amount, SequencesExt

NamesRegister(instruction) == instruction[1] \in {"LDR", "LDM", "STR"}
HoldsAmount(instruction)   == instruction[1] \in {"IMMS", "VPUSH"}

\* A register's number is how many others the program names before it.
Namings(program, name)  ==
    {i \in DOMAIN program : NamesRegister(program[i]) /\ program[i][2] = name}
RegisterOf(program, name) ==
    LET first == Min(Namings(program, name))
    IN  Cardinality({program[i][2] : i \in {j \in 1 .. first - 1 : NamesRegister(program[j])}})

Words(program, instruction) ==
    <<Opcode[instruction[1]]>> \o
        CASE NamesRegister(instruction) -> <<RegisterOf(program, instruction[2])>>
          [] HoldsAmount(instruction)   -> <<instruction[2] * SCALE>>
          [] OTHER                      -> Tail(instruction)

Assemble(program) ==
    LET code[i \in 0 .. Len(program)] ==
            IF i = 0 THEN << >> ELSE code[i - 1] \o Words(program, program[i])
    IN  code[Len(program)]

-----------------------------------------------------------------------------
\* (S, P, C) on the stack -> the quantity Q with S*Q^2 + P*Q = C.
SolveQuadratic == <<
    <<"STR", "C">>, <<"STR", "P">>, <<"STR", "S">>,
    \* P^2
    <<"LDR", "P">>, <<"MUL", 0>>, <<"STR", "P2">>,
    \* the root of P^2 + 4*S*C
    <<"LDR", "S">>, <<"LDM", "C">>, <<"MUL", 1>>,
    <<"IMMS", 4>>, <<"MUL", 1>>,
    <<"LDM", "P2">>, <<"ADD", 1>>, <<"SQRT">>,
    \* the numerator max(R - P, 0)
    <<"LDM", "P">>, <<"SWAP", 1>>, <<"SSB", 1>>,
    \* divided by 2*S
    <<"LDM", "S">>, <<"IMMS", 2>>, <<"SWAP", 1>>, <<"MUL", 1>>,
    <<"SWAP", 2>>, <<"DIV", 2>> >>

\* The ids of the vectors and labels of a fill, in a record.
ExecuteBuyOrderProgram(id) == <<
    \* the weights, the order and the quote
    <<"LDV", id.assetWeights>>, <<"STR", "Weights">>,
    <<"LDV", id.order>>, <<"UNPK">>,
    <<"STR", "Minted">>, <<"STR", "Spent">>, <<"STR", "Collateral">>,
    <<"LDV", id.indexQuote>>, <<"UNPK">>, <<"SWAP", 2>>,
    <<"STR", "Capacity">>, <<"STR", "Price">>, <<"STR", "Slope">>,
    \* the index quantity, capped with the capacity
    <<"LDR", "Slope">>, <<"LDR", "Price">>, <<"LDR", "Collateral">>,
    <<"B", id.solveQuadratic, 3, 1, 4>>, <<"STR", "IndexQuantity">>,
    <<"LDM", "Capacity">>, <<"LDR", "IndexQuantity">>, <<"MIN", 1>>,
    <<"STR", "CappedIndexQuantity">>, <<"POPN", 1>>,
    \* the individual asset orders
    <<"LDR", "CappedIndexQuantity">>, <<"LDM", "Weights">>, <<"MUL", 1>>,
    <<"STR", "AssetQuantities">>, <<"POPN", 1>>,
    \* demand short: filter it to the index, subtract, put it back
    <<"LDL", id.assetNames>>, <<"LDL", id.marketAssetNames>>,
    <<"LDV", id.demandShort>>, <<"LDR", "AssetQuantities">>, <<"LDD", 1>>, <<"JFLT", 3, 4>>,
    <<"LDD", 0>>, <<"SSB", 2>>, <<"SWAP", 3>>, <<"JUPD", 3, 4, 5>>, <<"SWAP", 3>>, <<"POPN", 1>>,
    \* demand long: add what the short demand did not cover
    <<"SWAP", 1>>, <<"SSB", 1>>, <<"LDV", id.demandLong>>, <<"JADD", 1, 4, 5>>,
    <<"SWAP", 2>>, <<"POPN", 2>>, <<"STR", "DemandLong">>, <<"STR", "DemandShort">>,
    \* delta: supply long + demand short against supply short + demand long
    <<"LDV", id.supplyLong>>, <<"LDR", "DemandShort">>, <<"ADD", 1>>, <<"SWAP", 1>>, <<"POPN", 1>>,
    <<"LDV", id.supplyShort>>, <<"LDR", "DemandLong">>, <<"ADD", 1>>, <<"SWAP", 1>>, <<"POPN", 1>>,
    <<"LDD", 0>>, <<"SSB", 2>>, <<"STR", "DeltaShort">>,
    <<"SWAP", 1>>, <<"SSB", 1>>, <<"STR", "DeltaLong">>, <<"POPN", 3>>,
    \* store demand and delta
    <<"LDM", "DemandLong">>, <<"LDM", "DemandShort">>,
    <<"STV", id.demandShort>>, <<"STV", id.demandLong>>,
    <<"LDM", "DeltaLong">>, <<"LDM", "DeltaShort">>,
    <<"STV", id.deltaShort>>, <<"STV", id.deltaLong>>,
    \* the collateral spent, and what remains of it
    <<"LDR", "CappedIndexQuantity">>, <<"LDM", "Slope">>, <<"MUL", 1>>,
    <<"LDM", "Price">>, <<"ADD", 1>>, <<"SWAP", 1>>, <<"POPN", 1>>, <<"MUL", 1>>,
    <<"LDM", "Collateral">>, <<"SSB", 1>>, <<"SWAP", 1>>,
    <<"LDM", "Spent">>, <<"ADD", 1>>, <<"SWAP", 1>>, <<"POPN", 1>>,
    <<"SWAP", 1>>, <<"SWAP", 2>>,
    \* store the order, and what was executed
    <<"PKV", 3>>, <<"STV", id.order>>,
    <<"LDM", "CappedIndexQuantity">>, <<"LDM", "IndexQuantity">>, <<"SUB", 1>>,
    <<"PKV", 2>>, <<"STV", id.executedIndexQuantities>>,
    <<"LDM", "AssetQuantities">>, <<"STV", id.executedAssetQuantities>> >>

=============================================================================
