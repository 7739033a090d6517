----------------------------- MODULE Contracts ------------------------------
(***************************************************************************)
(* Daxos, vaults, market and DeVIL as contracts that call each other       *)
(* (contracts/daxos, contracts/vault, contracts/market, contracts/devil).  *)
(* A transaction is a stack of calls; one step runs a method up to its     *)
(* next call or to its end.  A call that fails restores the storage to     *)
(* what it was when the call began, and every `?` passes the failure on.   *)
(*                                                                         *)
(* The host is modelled as its callers use it: a call to an address        *)
(* without code succeeds and does nothing; a method a contract does not    *)
(* have fails, and so does a call to a contract that is already running.   *)
(***************************************************************************)
EXTENDS Deployment, Sequences

CONSTANT Transactions     \* [to, message]: what users send

\* Arguments have the types of the interfaces.
MessageOK(m) ==
    /\ m.method = "setupDaxos" =>
          m.owner \in Addresses /\ m.devil \in Addresses /\ m.market \in Addresses
    /\ m.method = "setup" => m.owner \in Addresses /\ m.devil \in Addresses
    /\ m.method = "setupDevil" => m.owner \in Addresses
    /\ m.method = "setupVault" => m.id \in Indexes /\ m.vault \in Addresses
    /\ m.method = "submitOrder" => m.id \in Indexes
    /\ m.method = "execute" => m.kind = "own"

ASSUME ContractsAssumption ==
    \A t \in Transactions : t.to \in Deployed /\ MessageOK(t.message)

VARIABLES store,    \* the storage of all contracts, as the running call sees it
          calls,    \* the calls in progress, the innermost last; none when idle
          outcome   \* how the last transaction ended

vars == <<store, calls, outcome>>

-----------------------------------------------------------------------------
(***************************************************************************)
(* Messages.  A method is known by its name and the types of its           *)
(* arguments.  A vault and the market have the same setup(address,address),*)
(* so either answers a call meant for the other; so do submitSupply of     *)
(* Daxos and of the market.  setupDaxos and setupDevil are the setups with *)
(* three addresses and with one; takeOrder is the submit_order of a vault, *)
(* whose first argument is an address and not an id.                       *)
(***************************************************************************)
SetupDaxos(o, d, m) ==
    [method |-> "setupDaxos", owner |-> o, devil |-> d, market |-> m]
Setup(o, d)      == [method |-> "setup", owner |-> o, devil |-> d]
SetupDevil(o)    == [method |-> "setupDevil", owner |-> o]
SetupVault(i, v) == [method |-> "setupVault", id |-> i, vault |-> v]
SubmitOrder(i)   == [method |-> "submitOrder", id |-> i]
TakeOrder        == [method |-> "takeOrder"]
SubmitSupply     == [method |-> "submitSupply"]
Read             == [method |-> "get"]
Execute(kind)    == [method |-> "execute", kind |-> kind]

Methods(c) ==
    CASE c = Daxos    -> {"setupDaxos", "setupVault", "submitOrder", "submitSupply"}
      [] c \in Vaults -> {"setup", "takeOrder", "get"}
      [] c \in Markets -> {"setup", "submitSupply", "get"}
      [] c \in Devils -> {"setupDevil", "execute"}

-----------------------------------------------------------------------------
(***************************************************************************)
(* Calls.                                                                  *)
(***************************************************************************)
\* answers: how the calls that this one made ended.
Frame(sender, to, message, before) ==
    [sender |-> sender, to |-> to, message |-> message, before |-> before, answers |-> << >>]

Idle      == calls = << >>
Now       == calls[Len(calls)]
Origin    == calls[1].sender
Committed == IF Idle THEN store ELSE calls[1].before

\* Seeded fault: the contracts are built with the reentrant feature of the SDK.
ReenteredFreely == FALSE

\* A second call of a running contract.
Reentered == \E i \in 1 .. Len(calls) - 1 : calls[i].to = Now.to

\* The innermost call runs this method of one of these contracts, and the
\* calls it made have ended so.
Runs(contracts, method, answers) ==
    /\ ~ Idle
    /\ Now.to \in contracts
    /\ Now.message.method = method
    /\ Now.answers = answers
    /\ ~ Reentered

\* The method stores what it has and makes its next call.
CallOut(after, to, message) ==
    /\ store' = after
    /\ calls' = Append(calls, Frame(Now.to, to, message, after))
    /\ UNCHANGED outcome

\* The call ends: the transaction with it, or its caller hears how.
End(after, result) ==
    /\ store' = after
    /\ IF Len(calls) = 1
       THEN calls' = << >> /\ outcome' = result
       ELSE /\ calls' = [SubSeq(calls, 1, Len(calls) - 1)
                            EXCEPT ![Len(calls) - 1].answers = Append(@, result)]
            /\ UNCHANGED outcome

Return(after) == End(after, "done")
Fail          == End(Now.before, "reverted")

Begin(user, to, message) ==
    /\ Idle
    /\ calls' = <<Frame(user, to, message, store)>>
    /\ outcome' = "running"
    /\ UNCHANGED store

\* An address without code answers every call, and does nothing.
NoCode == ~ Idle /\ Now.to \notin Deployed /\ Return(store)

\* A method the contract does not have, or a contract that is running.
NoEntry ==
    /\ ~ Idle
    /\ Now.to \in Deployed
    /\ Reentered \/ Now.message.method \notin Methods(Now.to)
    /\ Fail

\* Seeded fault: the caller goes on as if the call had succeeded.
PassOnIgnored ==
    /\ ~ Idle
    /\ \E i \in DOMAIN Now.answers : Now.answers[i] = "reverted"
    /\ Return(store)

\* `?` after a call that failed.
PassOn ==
    /\ ~ Idle
    /\ \E i \in DOMAIN Now.answers : Now.answers[i] = "reverted"
    /\ Fail

-----------------------------------------------------------------------------
(***************************************************************************)
(* Daxos.  Its setups ask who signed the transaction, not who called.      *)
(***************************************************************************)
DaxosSetup ==
    /\ Runs({Daxos}, "setupDaxos", << >>)
    /\ IF Accepts(store, Daxos, Origin)
       THEN Return(WithDaxos(store, Now.message.owner, Now.message.devil, Now.message.market))
       ELSE Fail

\* Seeded faults: no test for a duplicate vault, or none of the owner.
MayRegisterAgain(id) == Accepts(store, Daxos, Origin)
MayRegisterOpen(id)  == store.vaults[id] = Zero

MayRegister(id) == Accepts(store, Daxos, Origin) /\ store.vaults[id] = Zero

\* Seeded fault: the vault gets the market where it should get the DeVIL.
VaultSetupMisplaced == Setup(Daxos, store.market)

VaultSetup == Setup(Daxos, store.devil[Daxos])

\* The vault is registered first, and then called.
DaxosSetupVault ==
    \/ /\ Runs({Daxos}, "setupVault", << >>)
       /\ IF MayRegister(Now.message.id)
          THEN CallOut(WithVault(store, Now.message.id, Now.message.vault),
                       Now.message.vault, VaultSetup)
          ELSE Fail
    \/ Runs({Daxos}, "setupVault", <<"done">>) /\ Return(store)

DaxosSubmitOrder ==
    \/ /\ Runs({Daxos}, "submitOrder", << >>)
       /\ IF store.vaults[Now.message.id] # Zero
          THEN CallOut(store, store.vaults[Now.message.id], TakeOrder)
          ELSE Fail
    \/ /\ Runs({Daxos}, "submitOrder", <<"done">>)
       /\ CallOut(store, store.devil[Daxos], Execute("order"))
    \/ Runs({Daxos}, "submitOrder", <<"done", "done">>) /\ Return(store)

DaxosSubmitSupply ==
    \/ /\ Runs({Daxos}, "submitSupply", << >>)
       /\ CallOut(store, store.market, SubmitSupply)
    \/ /\ Runs({Daxos}, "submitSupply", <<"done">>)
       /\ CallOut(store, store.devil[Daxos], Execute("supply"))
    \/ Runs({Daxos}, "submitSupply", <<"done", "done">>) /\ Return(store)

-----------------------------------------------------------------------------
(***************************************************************************)
(* Vault, market and DeVIL ask who called.                                 *)
(***************************************************************************)
\* Seeded fault: no test of the owner.
HandledSetupOpen ==
    /\ Runs(Handled, "setup", << >>)
    /\ Return(WithHandled(store, Now.to, Now.message.owner, Now.message.devil))

HandledSetup ==
    /\ Runs(Handled, "setup", << >>)
    /\ IF Accepts(store, Now.to, Now.sender)
       THEN Return(WithHandled(store, Now.to, Now.message.owner, Now.message.devil))
       ELSE Fail

\* Refused to others than the owner, and todo!() for the owner.
VaultSubmitOrder   == Runs(Vaults, "takeOrder", << >>) /\ Fail
MarketSubmitSupply == Runs(Markets, "submitSupply", << >>) /\ Fail

\* The getters: a vault answers its owner, the market everyone.
HandledGet ==
    /\ Runs(Handled, "get", << >>)
    /\ IF Now.to \in Markets \/ Accepts(store, Now.to, Now.sender)
       THEN Return(store)
       ELSE Fail

DevilSetup ==
    /\ Runs(Devils, "setupDevil", << >>)
    /\ IF Accepts(store, Now.to, Now.sender)
       THEN Return(WithOwner(store, Now.to, Now.message.owner))
       ELSE Fail

\* A program, or a submission by the owner: whether it succeeds depends on the
\* vectors, which are Devil's subject.
DevilExecute ==
    /\ Runs(Devils, "execute", << >>)
    /\ \/ Accepts(store, Now.to, Now.sender) /\ Return(Written(store, Now.to, Now.message.kind))
       \/ Fail

-----------------------------------------------------------------------------
Init == store = Fresh /\ calls = << >> /\ outcome = "done"

Send == \E u \in Users, t \in Transactions : Begin(u, t.to, t.message)

DaxosStep   == DaxosSetup \/ DaxosSetupVault \/ DaxosSubmitOrder \/ DaxosSubmitSupply
HandledStep == HandledSetup \/ VaultSubmitOrder \/ MarketSubmitSupply \/ HandledGet
DevilStep   == DevilSetup \/ DevilExecute
HostStep    == NoCode \/ NoEntry \/ PassOn

Next == Send \/ DaxosStep \/ HandledStep \/ DevilStep \/ HostStep

Spec == Init /\ [][Next]_vars

-----------------------------------------------------------------------------
(***************************************************************************)
(* Properties.                                                             *)
(***************************************************************************)

\* Addresses are where addresses belong, a call is at most two deep, only the
\* outer one waits for answers, and the storage is the committed one when no
\* transaction runs.
FrameOK(f) == /\ f.sender \in Addresses /\ f.to \in Addresses
              /\ f.before \in Stores
              /\ Len(f.answers) <= 2
TypeOK ==
    /\ store \in Stores
    /\ Len(calls) <= 2
    /\ \A i \in DOMAIN calls : FrameOK(calls[i])
    /\ ~ Idle => Origin \in Users
    /\ Len(calls) = 2 => calls[1].to = Daxos /\ Now.sender = Daxos /\ Now.answers = << >>
    /\ Idle <=> outcome # "running"

\* The nested calls, with their rollbacks, amount to one atomic step of the
\* registry for each transaction that ends well, and to none otherwise.
Abstract == INSTANCE Registry WITH store <- Committed
ImplementsRegistry == Abstract!Spec

\* Once a transaction ended, a contract that is registered as a vault belongs
\* to Daxos.  setup_vault registers it before it calls it (daxos/src/lib.rs
\* :152-161): when the contract refuses, because someone else was faster to
\* set it up, nothing of the registration may stay.
VaultsBelongToDaxos ==
    \A id \in Indexes :
        Committed.vaults[id] \in Deployed => Committed.owner[Committed.vaults[id]] = Daxos

\* An id once bound stays bound to the same address, whoever owns Daxos and
\* whatever is registered or set up later.
BoundOnce ==
    [][\A id \in Indexes :
          Committed.vaults[id] # Zero => Committed'.vaults[id] = Committed.vaults[id]]_vars

\* What Daxos owns it owns for good: no transaction, through Daxos or around
\* it, gives a vault, the market or DeVIL another owner, since Daxos only ever
\* calls the setup of a vault, with itself as owner.
OwnedForGood ==
    [][\A c \in Handled \cup Devils :
          Committed.owner[c] = Daxos => Committed'.owner[c] = Daxos]_vars

\* Vaults and Daxos send their programs to the same DeVIL until Daxos is given
\* another: only the setup of Daxos separates them, which leaves the vaults
\* that are registered on the DeVIL they were registered with.
SameDevil(s) ==
    \A id \in Indexes : s.vaults[id] \in Handled => s.devil[s.vaults[id]] = s.devil[Daxos]
OnlySetupSeparates ==
    [][SameDevil(Committed) /\ Committed'.devil[Daxos] = Committed.devil[Daxos]
          => SameDevil(Committed')]_vars

\* An order or a supply update that ends well was run: the program is the last
\* that wrote DeVIL, whatever called contracts answered, unless Daxos was never
\* given a DeVIL.
Submits(message, kind) ==
    \/ kind = "order" /\ message.method = "submitOrder"
    \/ kind = "supply" /\ message.method = "submitSupply"
SubmittedMeansRun ==
    [][\A kind \in Kinds :
          ( /\ Len(calls) = 1 /\ Idle' /\ outcome' = "done"
            /\ calls[1].to = Daxos /\ Submits(calls[1].message, kind)
            /\ store.devil[Daxos] \in Devils )
          => store'.wrote[store.devil[Daxos]] = kind]_vars

=============================================================================
