---------------------------- MODULE MCContracts ----------------------------
(***************************************************************************)
(* Contracts for TLC: two users, and one Daxos, vault, market and DeVIL.   *)
(* The setups name users, Daxos or nobody as owner, in any order and any   *)
(* number of times; one makes Daxos its own market.  setup_vault names the *)
(* vault, the market, DeVIL, a user and the zero address, under two ids.   *)
(***************************************************************************)
EXTENDS Contracts

CONSTANTS alice, bob, vault, market, devil

MCUsers   == {alice, bob}
MCVaults  == {vault}
MCMarkets == {market}
MCDevils  == {devil}
MCIndexes == {1, 2}

To(c, messages) == {[to |-> c, message |-> m] : m \in messages}

DaxosSetups   == {SetupDaxos(alice, devil, market), SetupDaxos(bob, Zero, Zero),
                  SetupDaxos(Daxos, devil, Daxos), SetupDaxos(Zero, devil, bob)}
HandledSetups == {Setup(alice, devil), Setup(Daxos, Zero)}
VaultSetups   == {SetupVault(i, v) : i \in MCIndexes, v \in {vault, market, devil, bob, Zero}}

MCTransactions ==
    To(Daxos, DaxosSetups \cup VaultSetups \cup {SubmitOrder(1), SubmitOrder(2), SubmitSupply})
    \cup To(vault, HandledSetups \cup {TakeOrder, Read})
    \cup To(market, HandledSetups \cup {SubmitSupply, Read})
    \cup To(devil, {SetupDevil(bob), SetupDevil(Daxos), Execute("own")})

=============================================================================
