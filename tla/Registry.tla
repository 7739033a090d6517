------------------------------ MODULE Registry ------------------------------
(***************************************************************************)
(* What the contracts promise together: a registry of vaults that changes  *)
(* in one step per transaction.  Registering a vault with code and taking  *)
(* it over are one step, an order that is taken and the program that fills *)
(* it are one step, and a transaction that fails is no step.               *)
(***************************************************************************)
EXTENDS Deployment

VARIABLE store

\* The owner of Daxos, or anyone while there is none, configures it.
Configure(user, owner, devil, market) ==
    /\ Accepts(store, Daxos, user)
    /\ store' = WithDaxos(store, owner, devil, market)

\* The owner of a vault, market or DeVIL hands it over.
HandOver(user, c, owner, devil) ==
    /\ Accepts(store, c, user)
    /\ \/ c \in Handled /\ store' = WithHandled(store, c, owner, devil)
       \/ c \in Devils  /\ store' = WithOwner(store, c, owner)

\* The owner of Daxos binds a free id, to a contract that accepts Daxos and is
\* then Daxos's own, or to an address without code.
Register(user, id, v) ==
    /\ Accepts(store, Daxos, user)
    /\ store.vaults[id] = Zero
    /\ \/ /\ v \in Handled
          /\ Accepts(store, v, Daxos)
          /\ store' = WithHandled(WithVault(store, id, v), v, Daxos, store.devil[Daxos])
       \/ v \in Users /\ store' = WithVault(store, id, v)

\* The owner of a DeVIL writes its vectors.
Use(user, d) ==
    /\ Accepts(store, d, user)
    /\ store' = Written(store, d, "own")

\* A program of Daxos runs on the DeVIL of Daxos, if there is one.
Run(kind) ==
    LET d == store.devil[Daxos]
    IN  /\ d \in Devils
        /\ Accepts(store, d, Daxos)
        /\ store' = Written(store, d, kind)

\* Anyone's order is filled, or supply updated.  No contract takes either
\* yet, their methods are todo!(): only addresses without code do.
FillOrder(id) == store.vaults[id] \in Users /\ Run("order")
UpdateSupply  == store.market \in Users \cup {Zero} /\ Run("supply")

Init == store = Fresh

Next ==
    \/ \E u \in Users, o, d, m \in Addresses : Configure(u, o, d, m)
    \/ \E u \in Users, c \in Handled \cup Devils, o, d \in Addresses : HandOver(u, c, o, d)
    \/ \E u \in Users, id \in Indexes, v \in Handled \cup Users : Register(u, id, v)
    \/ \E u \in Users, d \in Devils : Use(u, d)
    \/ \E id \in Indexes : FillOrder(id)
    \/ UpdateSupply

Spec == Init /\ [][Next]_store

=============================================================================
