----------------------------- MODULE Deployment -----------------------------
(***************************************************************************)
(* The contracts of an exchange, the addresses around them, and what the   *)
(* contracts store: Daxos its owner, DeVIL, market and vaults; a vault and *)
(* the market their owner and DeVIL; DeVIL its owner, and here the kind of *)
(* program that wrote its vectors last.  The handles of vault and market   *)
(* are left out: no method of theirs that returns assigns one.             *)
(***************************************************************************)
EXTENDS Naturals

CONSTANTS Users,     \* addresses without code: senders of transactions
          Zero,      \* the address of what is not set
          Daxos,     \* the one Daxos contract
          Vaults, Markets, Devils,   \* the other deployed contracts
          Indexes    \* the vault ids

Handled   == Vaults \cup Markets       \* contracts with a setup(owner, devil)
Deployed  == {Daxos} \cup Handled \cup Devils
Addresses == Users \cup {Zero} \cup Deployed
Kinds     == {"order", "supply", "own"}

ASSUME DeploymentAssumption ==
    /\ Zero \notin Users
    /\ Deployed \cap (Users \cup {Zero}) = {}
    /\ Daxos \notin Handled \cup Devils
    /\ Vaults \cap Markets = {}
    /\ Handled \cap Devils = {}

Stores == [owner  : [Deployed -> Addresses],
           devil  : [{Daxos} \cup Handled -> Addresses],
           market : Addresses,
           vaults : [Indexes -> Addresses],
           wrote  : [Devils -> Kinds \cup {"nothing"}]]

\* Storage begins all zero.
Fresh == [owner  |-> [c \in Deployed |-> Zero],
          devil  |-> [c \in {Daxos} \cup Handled |-> Zero],
          market |-> Zero,
          vaults |-> [i \in Indexes |-> Zero],
          wrote  |-> [d \in Devils |-> "nothing"]]

\* check_owner of contract c returns Ok for address a.
Accepts(s, c, a) == s.owner[c] \in {Zero, a}

\* What the setups, the registration of a vault and a program write.
WithDaxos(s, owner, devil, market) ==
    [s EXCEPT !.owner[Daxos] = owner, !.devil[Daxos] = devil, !.market = market]
WithHandled(s, c, owner, devil) == [s EXCEPT !.owner[c] = owner, !.devil[c] = devil]
WithOwner(s, d, owner)          == [s EXCEPT !.owner[d] = owner]
WithVault(s, id, v)             == [s EXCEPT !.vaults[id] = v]
Written(s, d, kind)             == [s EXCEPT !.wrote[d] = kind]

=============================================================================
