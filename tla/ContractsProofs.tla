-------------------------- MODULE ContractsProofs ---------------------------
(***************************************************************************)
(* Proofs about Contracts: nested calls and rollbacks implement the atomic *)
(* registry, and what follows from that for vaults and their owners, for   *)
(* every set of users, contracts, ids and transactions.                    *)
(***************************************************************************)
EXTENDS Contracts, SequenceTheorems, TLAPS

-----------------------------------------------------------------------------
(***************************************************************************)
(* The invariant: how far the outer call has come with the storage.        *)
(***************************************************************************)
Outer == calls[1]
Inner == calls[2]

IsFrame(f) == f = [sender |-> f.sender, to |-> f.to, message |-> f.message,
                   before |-> f.before, answers |-> f.answers]

\* A call that a transaction makes.
UserCall(f) == /\ IsFrame(f)
               /\ f.sender \in Users /\ f.to \in Deployed /\ MessageOK(f.message)
               /\ f.before \in Stores

\* The call f to setup_vault may bind its id ...
Binds(f) == /\ f.to = Daxos /\ f.message.method = "setupVault"
            /\ Accepts(f.before, Daxos, f.sender)
            /\ f.before.vaults[f.message.id] = Zero

\* ... and s is the storage when the vault has answered.
Bound(f, s) ==
    LET v == f.message.vault
        b == WithVault(f.before, f.message.id, v)
    IN  \/ v \in Users \cup {Zero} /\ s = b
        \/ v \in Handled /\ Accepts(f.before, v, Daxos)
              /\ s = WithHandled(b, v, Daxos, f.before.devil[Daxos])

\* The order or the supply update f was taken by an address without code ...
Taken(f) ==
    /\ f.to = Daxos
    /\ \/ /\ f.message.method = "submitOrder"
          /\ f.before.vaults[f.message.id] \in Users
       \/ /\ f.message.method = "submitSupply"
          /\ f.before.market \in Users \cup {Zero}
KindOf(f) == IF f.message.method = "submitSupply" THEN "supply" ELSE "order"

\* ... and s is the storage when its program has run.
Filled(f, s) ==
    LET d == f.before.devil[Daxos]
    IN  \/ d \notin Deployed /\ s = f.before
        \/ d \in Devils /\ Accepts(f.before, d, Daxos) /\ s = Written(f.before, d, KindOf(f))

\* What the outer call has made of the storage after the calls it made.
Reached(f, s) ==
    \/ f.answers = << >> /\ s = f.before
    \/ f.answers \in {<<"reverted">>, <<"done", "reverted">>}
    \/ f.answers = <<"done">> /\ Binds(f) /\ Bound(f, s)
    \/ f.answers = <<"done">> /\ Taken(f) /\ s = f.before
    \/ f.answers = <<"done", "done">> /\ Taken(f) /\ Filled(f, s)

\* The call that the outer call waits for.
Waits(f, g) ==
    /\ IsFrame(g) /\ g.sender = Daxos /\ g.answers = << >> /\ f.to = Daxos
    /\ \/ /\ f.answers = << >> /\ Binds(f)
          /\ g.to = f.message.vault /\ g.message = Setup(Daxos, f.before.devil[Daxos])
          /\ g.before = WithVault(f.before, f.message.id, f.message.vault)
       \/ /\ f.answers = << >> /\ f.message.method = "submitOrder"
          /\ f.before.vaults[f.message.id] # Zero
          /\ g.to = f.before.vaults[f.message.id] /\ g.message = TakeOrder
          /\ g.before = f.before
       \/ /\ f.answers = << >> /\ f.message.method = "submitSupply"
          /\ g.to = f.before.market /\ g.message = SubmitSupply
          /\ g.before = f.before
       \/ /\ f.answers = <<"done">> /\ Taken(f)
          /\ g.to = f.before.devil[Daxos] /\ g.message = Execute(KindOf(f))
          /\ g.before = f.before

CallsInv ==
    /\ store \in Stores
    /\ \/ calls = << >>
       \/ calls = <<Outer>> /\ UserCall(Outer) /\ Reached(Outer, store)
       \/ /\ calls = <<Outer, Inner>> /\ UserCall(Outer)
          /\ Waits(Outer, Inner) /\ store = Inner.before

-----------------------------------------------------------------------------
(***************************************************************************)
(* Sequences of one and of two members.                                    *)
(***************************************************************************)
LEMMA SameMembers ==
    ASSUME NEW S, NEW s \in Seq(S), NEW t \in Seq(S),
           Len(s) = 1, Len(t) = 1, s[1] = t[1]
    PROVE  s = t
<1>1. \A i \in 1 .. Len(s) : s[i] = t[i]
  OBVIOUS
<1> QED BY <1>1, SeqEqual

LEMMA AppendToNone ==
    ASSUME NEW a
    PROVE  Append(<< >>, a) = <<a>>
<1>1. << >> \in Seq({a}) /\ <<a>> \in Seq({a}) /\ a \in {a}
  OBVIOUS
<1>2. Append(<< >>, a) \in Seq({a}) /\ Len(Append(<< >>, a)) = 1 /\ Append(<< >>, a)[1] = a
  BY <1>1, AppendProperties
<1> QED BY <1>1, <1>2, SameMembers

LEMMA AppendToOne ==
    ASSUME NEW a, NEW b
    PROVE  Append(<<a>>, b) = <<a, b>>
<1>1. <<a>> \in Seq({a, b}) /\ <<a, b>> \in Seq({a, b}) /\ b \in {a, b}
  OBVIOUS
<1>2. /\ Append(<<a>>, b) \in Seq({a, b}) /\ Len(Append(<<a>>, b)) = 2
      /\ Append(<<a>>, b)[1] = a /\ Append(<<a>>, b)[2] = b
  BY <1>1, AppendProperties
<1>3. Len(<<a, b>>) = 2 /\ \A i \in 1 .. 2 : Append(<<a>>, b)[i] = <<a, b>>[i]
  BY <1>2
<1>4. Append(<<a>>, b) = <<a, b>>
  BY <1>1, <1>2, <1>3, SeqEqual
<1> QED BY <1>4

LEMMA FrontOfTwo ==
    ASSUME NEW a, NEW b
    PROVE  SubSeq(<<a, b>>, 1, 1) = <<a>>
<1>1. \A i \in 1 .. 1 : <<a, b>>[i] \in {a, b}
  OBVIOUS
<1>2. /\ SubSeq(<<a, b>>, 1, 1) \in Seq({a, b})
      /\ Len(SubSeq(<<a, b>>, 1, 1)) = 1
      /\ SubSeq(<<a, b>>, 1, 1)[1] = a
  BY <1>1, SubSeqProperties
<1>3. <<a>> \in Seq({a, b})
  OBVIOUS
<1>4. SubSeq(<<a, b>>, 1, 1) = <<a>>
  BY <1>2, <1>3, SameMembers
<1> QED BY <1>4

LEMMA AnswerOne ==
    ASSUME NEW f, NEW a
    PROVE  [<<f>> EXCEPT ![1].answers = Append(@, a)]
               = <<[f EXCEPT !.answers = Append(@, a)]>>
OBVIOUS

-----------------------------------------------------------------------------
(***************************************************************************)
(* Steps on the stack of calls.                                            *)
(***************************************************************************)
LEMMA OneCall ==
    ASSUME NEW f, calls = <<f>>
    PROVE  ~ Idle /\ Len(calls) = 1 /\ Now = f /\ Outer = f /\ Origin = f.sender
           /\ Committed = f.before /\ ~ Reentered
BY DEF Idle, Now, Outer, Origin, Committed, Reentered

LEMMA TwoCalls ==
    ASSUME NEW f, NEW g, calls = <<f, g>>
    PROVE  ~ Idle /\ Len(calls) = 2 /\ Now = g /\ Outer = f /\ Inner = g
           /\ Committed = f.before /\ (Reentered <=> f.to = g.to)
BY DEF Idle, Now, Outer, Inner, Committed, Reentered

LEMMA OuterEnds ==
    ASSUME NEW f, calls = <<f>>, NEW after, NEW result, End(after, result)
    PROVE  calls' = << >> /\ store' = after /\ outcome' = result /\ Committed' = after
BY OneCall DEF End, Committed, Idle

\* The outer call, with one more answer.
Answered(f, result) ==
    [sender |-> f.sender, to |-> f.to, message |-> f.message,
     before |-> f.before, answers |-> Append(f.answers, result)]

LEMMA InnerEnds ==
    ASSUME NEW f, NEW g, calls = <<f, g>>, IsFrame(f),
           NEW after, NEW result, End(after, result)
    PROVE  /\ calls' = <<Answered(f, result)>>
           /\ store' = after /\ Committed' = f.before /\ outcome' = outcome
<1>1. Len(calls) = 2 /\ SubSeq(calls, 1, 1) = <<f>>
  BY TwoCalls, FrontOfTwo
<1>2. calls' = [<<f>> EXCEPT ![1].answers = Append(@, result)]
  BY <1>1 DEF End
<1>3. [f EXCEPT !.answers = Append(@, result)] = Answered(f, result)
  BY DEF IsFrame, Answered
<1>4. calls' = <<Answered(f, result)>>
  <2>1. calls' = <<[f EXCEPT !.answers = Append(@, result)]>>
    BY <1>2, AnswerOne
  <2> QED BY <1>3, <2>1
<1>5. Committed' = f.before
  BY <1>4 DEF Committed, Idle, Answered
<1>6. store' = after /\ outcome' = outcome
  BY <1>1 DEF End
<1> QED BY <1>4, <1>5, <1>6

LEMMA CallsOut ==
    ASSUME NEW f, calls = <<f>>, NEW after, NEW to, NEW message, CallOut(after, to, message)
    PROVE  /\ calls' = <<f, Frame(f.to, to, message, after)>>
           /\ store' = after /\ Committed' = f.before /\ outcome' = outcome
<1>1. Now = f
  BY OneCall
<1>2. calls' = <<f, Frame(f.to, to, message, after)>> /\ store' = after /\ outcome' = outcome
  BY <1>1, AppendToOne DEF CallOut
<1> QED BY <1>2 DEF Committed, Idle

-----------------------------------------------------------------------------
(***************************************************************************)
(* How far the outer call has come, by the answers it has.                 *)
(***************************************************************************)
LEMMA AnswersDiffer ==
    /\ << >> \notin {<<"done">>, <<"reverted">>, <<"done", "reverted">>, <<"done", "done">>}
    /\ <<"done">> \notin {<<"reverted">>, <<"done", "reverted">>, <<"done", "done">>}
    /\ <<"done", "done">> \notin {<<"reverted">>, <<"done", "reverted">>}
OBVIOUS

LEMMA AnswersAreFew ==
    /\ Len(<< >>) <= 2 /\ Len(<<"done">>) <= 2 /\ Len(<<"reverted">>) <= 2
    /\ Len(<<"done", "reverted">>) <= 2 /\ Len(<<"done", "done">>) <= 2
OBVIOUS

LEMMA NotAnswered ==
    ASSUME NEW f, NEW s, Reached(f, s), f.answers = << >>
    PROVE  s = f.before
BY AnswersDiffer DEF Reached

LEMMA AnsweredOnce ==
    ASSUME NEW f, NEW s, Reached(f, s), f.answers = <<"done">>
    PROVE  \/ Binds(f) /\ Bound(f, s)
           \/ Taken(f) /\ s = f.before
BY AnswersDiffer DEF Reached

LEMMA AnsweredTwice ==
    ASSUME NEW f, NEW s, Reached(f, s), f.answers = <<"done", "done">>
    PROVE  Taken(f) /\ Filled(f, s)
BY AnswersDiffer DEF Reached

\* The call that is waited for has one of the methods Daxos calls.
LEMMA WaitsFor ==
    ASSUME NEW f, NEW g, Waits(f, g)
    PROVE  /\ g.message.method \in {"setup", "takeOrder",
                                    "submitSupply", "execute"}
           /\ g.message.method = "setup" =>
                 /\ f.answers = << >> /\ Binds(f) /\ g.to = f.message.vault
                 /\ g.message.owner = Daxos /\ g.message.devil = f.before.devil[Daxos]
                 /\ g.before = WithVault(f.before, f.message.id, f.message.vault)
           /\ g.message.method = "execute" =>
                 /\ f.answers = <<"done">> /\ Taken(f) /\ g.to = f.before.devil[Daxos]
                 /\ g.message.kind = KindOf(f) /\ g.before = f.before
<1>1. CASE /\ f.answers = << >> /\ Binds(f) /\ g.to = f.message.vault
           /\ g.message = Setup(Daxos, f.before.devil[Daxos])
           /\ g.before = WithVault(f.before, f.message.id, f.message.vault)
  BY <1>1 DEF Setup
<1>2. CASE g.message = TakeOrder
  BY <1>2 DEF TakeOrder
<1>3. CASE g.message = SubmitSupply
  BY <1>3 DEF SubmitSupply
<1>4. CASE /\ f.answers = <<"done">> /\ Taken(f) /\ g.to = f.before.devil[Daxos]
           /\ g.message = Execute(KindOf(f)) /\ g.before = f.before
  BY <1>4 DEF Execute
<1> QED BY <1>1, <1>2, <1>3, <1>4 DEF Waits

-----------------------------------------------------------------------------
(***************************************************************************)
(* What is written to the storage.                                         *)
(***************************************************************************)
LEMMA WrittenStores ==
    ASSUME NEW s \in Stores, NEW a \in Addresses, NEW b \in Addresses, NEW c \in Addresses
    PROVE  /\ WithDaxos(s, a, b, c) \in Stores
           /\ \A h \in Handled : WithHandled(s, h, a, b) \in Stores
           /\ \A d \in Devils : WithOwner(s, d, a) \in Stores
           /\ \A id \in Indexes : WithVault(s, id, a) \in Stores
           /\ \A d \in Devils, kind \in Kinds : Written(s, d, kind) \in Stores
<1>1. WithDaxos(s, a, b, c) \in Stores
  BY DEF Stores, WithDaxos, Deployed
<1>2. \A h \in Handled : WithHandled(s, h, a, b) \in Stores
  BY DEF Stores, WithHandled, Deployed
<1>3. \A d \in Devils : WithOwner(s, d, a) \in Stores
  BY DEF Stores, WithOwner, Deployed
<1>4. \A id \in Indexes : WithVault(s, id, a) \in Stores
  BY DEF Stores, WithVault
<1>5. \A d \in Devils, kind \in Kinds : Written(s, d, kind) \in Stores
  BY DEF Stores, Written
<1> QED BY <1>1, <1>2, <1>3, <1>4, <1>5

\* To bind a free id to the zero address is to leave the storage as it is.
LEMMA BindsNothing ==
    ASSUME NEW s \in Stores, NEW id \in Indexes, s.vaults[id] = Zero
    PROVE  WithVault(s, id, Zero) = s
<1>1. [s.vaults EXCEPT ![id] = Zero] = s.vaults
  BY DEF Stores
<1> QED BY <1>1 DEF Stores, WithVault

LEMMA FreshIsStore == Fresh \in Stores
BY DEF Fresh, Stores, Addresses, Deployed

-----------------------------------------------------------------------------
(***************************************************************************)
(* A step of a method is a step of the registry or none, and keeps the     *)
(* invariant.                                                              *)
(***************************************************************************)
Refines == CallsInv' /\ (Committed' = Committed \/ Abstract!Next)

LEMMA IdleStep ==
    ASSUME CallsInv, Next, calls = << >>
    PROVE  Refines
<1>1. Idle
  BY DEF Idle
<1>2. Send
  BY <1>1 DEF Next, DaxosStep, HandledStep, DevilStep, HostStep, DaxosSetup, DaxosSetupVault,
      DaxosSubmitOrder, DaxosSubmitSupply, HandledSetup, VaultSubmitOrder, MarketSubmitSupply,
      HandledGet, DevilSetup, DevilExecute, NoCode, NoEntry, PassOn, Runs
<1>3. PICK u \in Users, t \in Transactions : Begin(u, t.to, t.message)
  BY <1>2 DEF Send
<1> DEFINE f == Frame(u, t.to, t.message, store)
<1>4. calls' = <<f>> /\ store' = store
  BY <1>3 DEF Begin
<1>5. store \in Stores /\ UserCall(f) /\ Reached(f, store)
  BY ContractsAssumption DEF CallsInv, UserCall, IsFrame, Frame, Reached
<1>6. CallsInv'
  BY <1>4, <1>5 DEF CallsInv, Outer
<1>7. Committed' = store /\ Committed = store
  BY <1>1, <1>4 DEF Committed, Idle, Frame
<1> QED BY <1>6, <1>7 DEF Refines

LEMMA OuterFails ==
    ASSUME NEW f, CallsInv, calls = <<f>>, Fail
    PROVE  Refines
<1>1. f.before \in Stores /\ Now = f /\ Committed = f.before
  BY OneCall DEF CallsInv, UserCall
<1>2. calls' = << >> /\ store' = f.before /\ Committed' = f.before
  BY <1>1, OuterEnds DEF Fail
<1> QED BY <1>1, <1>2 DEF Refines, CallsInv

LEMMA OuterReturns ==
    ASSUME NEW f, CallsInv, calls = <<f>>, NEW s \in Stores, Return(s),
           s = f.before \/ Abstract!Next
    PROVE  Refines
<1>1. calls' = << >> /\ store' = s /\ Committed' = s /\ Committed = f.before
  BY OneCall, OuterEnds DEF Return
<1> QED BY <1>1 DEF Refines, CallsInv

LEMMA OuterCalls ==
    ASSUME NEW f, CallsInv, calls = <<f>>, f.to = Daxos,
           NEW s \in Stores, NEW to, NEW message, CallOut(s, to, message),
           Waits(f, Frame(Daxos, to, message, s))
    PROVE  Refines
<1> DEFINE g == Frame(Daxos, to, message, s)
<1>1. calls' = <<f, g>> /\ store' = s /\ Committed' = f.before /\ Committed = f.before
  BY OneCall, CallsOut
<1>2. UserCall(f) /\ g.before = s
  BY OneCall DEF CallsInv, Frame
<1>3. CallsInv'
  BY <1>1, <1>2 DEF CallsInv, Outer, Inner
<1> QED BY <1>1, <1>3 DEF Refines

LEMMA InnerAnswers ==
    ASSUME NEW f, NEW g, CallsInv, calls = <<f, g>>,
           NEW s \in Stores, NEW result, End(s, result), Reached(Answered(f, result), s)
    PROVE  Refines
<1>1. UserCall(f) /\ IsFrame(f)
  BY TwoCalls DEF CallsInv, UserCall
<1>2. /\ calls' = <<Answered(f, result)>> /\ store' = s
      /\ Committed' = f.before /\ Committed = f.before
  BY <1>1, TwoCalls, InnerEnds
<1>3. UserCall(Answered(f, result))
  BY <1>1 DEF UserCall, Answered, IsFrame
<1>4. CallsInv'
  BY <1>2, <1>3 DEF CallsInv, Outer
<1> QED BY <1>2, <1>4 DEF Refines

LEMMA InnerFails ==
    ASSUME NEW f, NEW g, CallsInv, calls = <<f, g>>, Fail
    PROVE  Refines
<1>1. g.before \in Stores /\ Now = g /\ (f.answers = << >> \/ f.answers = <<"done">>)
  BY TwoCalls DEF CallsInv, Waits
<1>2. End(g.before, "reverted")
  BY <1>1 DEF Fail
<1>3. Answered(f, "reverted").answers \in {<<"reverted">>, <<"done", "reverted">>}
  BY <1>1, AppendToNone, AppendToOne DEF Answered
<1>4. Reached(Answered(f, "reverted"), g.before)
  BY <1>3 DEF Reached
<1> QED BY <1>1, <1>2, <1>4, InnerAnswers

-----------------------------------------------------------------------------
(***************************************************************************)
(* The actions, with one call in progress and with two.                    *)
(***************************************************************************)
LEMMA DaxosSetups ==
    ASSUME NEW f, CallsInv, calls = <<f>>, DaxosSetup
    PROVE  Refines
<1>1. /\ Now = f /\ Origin = f.sender /\ Committed = f.before /\ UserCall(f)
      /\ f.to = Daxos /\ f.answers = << >>
  BY OneCall DEF CallsInv, DaxosSetup, Runs
<1>2. store = f.before /\ store \in Stores
  BY <1>1, OneCall, NotAnswered DEF CallsInv
<1>3. CASE Accepts(store, Daxos, f.sender)
  <2> DEFINE m == f.message
             s == WithDaxos(store, m.owner, m.devil, m.market)
  <2>1. m.owner \in Addresses /\ m.devil \in Addresses /\ m.market \in Addresses
    BY <1>1 DEF DaxosSetup, Runs, UserCall, MessageOK
  <2>2. s \in Stores
    BY <1>2, <2>1, WrittenStores
  <2>3. Return(s)
    BY <1>1, <1>3 DEF DaxosSetup
  <2>4. store' = s /\ Committed' = s
    BY <2>3, OuterEnds DEF Return
  <2>5. f.sender \in Users
    BY <1>1 DEF UserCall
  <2>6. Abstract!Configure(f.sender, m.owner, m.devil, m.market)
    BY <1>1, <1>2, <1>3, <2>4 DEF Abstract!Configure, Abstract!Accepts, Abstract!WithDaxos,
        Accepts, WithDaxos
  <2>7. Abstract!Next
    BY <2>1, <2>5, <2>6 DEF Abstract!Next, Abstract!Addresses, Abstract!Deployed,
        Abstract!Handled, Addresses, Deployed, Handled
  <2> QED BY <2>2, <2>3, <2>7, OuterReturns
<1>4. CASE ~ Accepts(store, Daxos, f.sender)
  BY <1>1, <1>4, OuterFails DEF DaxosSetup
<1> QED BY <1>3, <1>4

\* Daxos as the inner call would be a second call of a running contract.
LEMMA NotInner ==
    ASSUME NEW f, NEW g, CallsInv, calls = <<f, g>>
    PROVE  /\ f.to = Daxos /\ Waits(f, g) /\ UserCall(f) /\ f.before \in Stores
           /\ store = g.before /\ store \in Stores /\ g.answers = << >> /\ ~ DaxosStep
           /\ Now = g
<1>1. Now = g /\ Waits(f, g) /\ UserCall(f) /\ store = g.before /\ store \in Stores
  BY TwoCalls DEF CallsInv
<1>2. f.to = Daxos /\ f.before \in Stores /\ g.answers = << >>
  BY <1>1 DEF Waits, UserCall
<1>3. g.to = Daxos => Reentered
  BY <1>2, TwoCalls
<1> QED BY <1>1, <1>2, <1>3 DEF DaxosStep, DaxosSetup, DaxosSetupVault, DaxosSubmitOrder,
         DaxosSubmitSupply, Runs

\* What is in the storage when a vault has answered.
LEMMA VaultBound ==
    ASSUME NEW f, CallsInv, calls = <<f>>, f.answers = <<"done">>, f.to = Daxos,
           f.message.method = "setupVault", Return(store)
    PROVE  Refines
<1> DEFINE v  == f.message.vault
           id == f.message.id
           b  == WithVault(f.before, id, v)
<1>1. /\ Committed = f.before /\ UserCall(f) /\ store \in Stores
      /\ Binds(f) /\ Bound(f, store)
  BY OneCall, AnsweredOnce DEF CallsInv, Taken
<1>2. /\ f.sender \in Users /\ f.before \in Stores /\ id \in Indexes
      /\ Accepts(f.before, Daxos, f.sender) /\ f.before.vaults[id] = Zero
  BY <1>1 DEF Binds, UserCall, MessageOK
<1>3. Committed' = store
  BY OuterEnds DEF Return
<1>4. CASE v = Zero /\ store = b
  BY <1>1, <1>2, <1>4, BindsNothing, OuterReturns
<1>5. CASE v \in Users /\ store = b
  <2>1. Abstract!Register(f.sender, id, v)
    BY <1>1, <1>2, <1>3, <1>5 DEF Abstract!Register, Abstract!Accepts, Abstract!WithVault,
        Accepts, WithVault
  <2>2. Abstract!Next
    BY <1>2, <1>5, <2>1 DEF Abstract!Next
  <2> QED BY <1>1, <2>2, OuterReturns
<1>6. CASE /\ v \in Handled /\ Accepts(f.before, v, Daxos)
           /\ store = WithHandled(b, v, Daxos, f.before.devil[Daxos])
  <2>1. Abstract!Register(f.sender, id, v)
    BY <1>1, <1>2, <1>3, <1>6 DEF Abstract!Register, Abstract!Accepts, Abstract!WithVault,
        Abstract!WithHandled, Abstract!Handled, Accepts, WithVault, WithHandled, Handled
  <2>2. Abstract!Next
    BY <1>2, <1>6, <2>1 DEF Abstract!Next, Abstract!Handled, Handled
  <2> QED BY <1>1, <2>2, OuterReturns
<1> QED BY <1>1, <1>4, <1>5, <1>6 DEF Bound

LEMMA DaxosSetupVaults ==
    ASSUME NEW f, CallsInv, calls = <<f>>, DaxosSetupVault
    PROVE  Refines
<1>1. /\ Now = f /\ Origin = f.sender /\ Committed = f.before /\ UserCall(f)
      /\ f.to = Daxos /\ f.message.method = "setupVault"
  BY OneCall DEF CallsInv, DaxosSetupVault, Runs
<1>2. CASE f.answers = << >>
  <2> DEFINE v  == f.message.vault
             id == f.message.id
             b  == WithVault(store, id, v)
  <2>1. store = f.before /\ store \in Stores
    BY <1>2, OneCall, NotAnswered DEF CallsInv
  <2>2. id \in Indexes /\ v \in Addresses
    BY <1>1 DEF UserCall, MessageOK
  <2>3. CASE MayRegister(id)
    <3>1. CallOut(b, v, VaultSetup)
      BY <1>1, <1>2, <2>3 DEF DaxosSetupVault, Runs
    <3>2. b \in Stores
      BY <2>1, <2>2, WrittenStores
    <3>3. Binds(f)
      BY <1>1, <2>1, <2>3 DEF Binds, MayRegister
    <3>4. Waits(f, Frame(Daxos, v, VaultSetup, b))
      BY <1>1, <1>2, <2>1, <3>3 DEF Waits, IsFrame, Frame, VaultSetup
    <3> QED BY <1>1, <3>1, <3>2, <3>4, OuterCalls
  <2>4. CASE ~ MayRegister(id)
    BY <1>1, <1>2, <2>4, OuterFails DEF DaxosSetupVault, Runs
  <2> QED BY <2>3, <2>4
<1>3. CASE f.answers = <<"done">>
  <2>1. Return(store)
    BY <1>1, <1>3 DEF DaxosSetupVault, Runs
  <2> QED BY <1>1, <1>3, <2>1, VaultBound
<1> QED BY <1>1, <1>2, <1>3 DEF DaxosSetupVault, Runs

\* An order or a supply update that was taken and filled ends.
LEMMA FilledEnds ==
    ASSUME NEW f, CallsInv, calls = <<f>>, f.answers = <<"done", "done">>, Return(store)
    PROVE  Refines
<1> DEFINE d == f.before.devil[Daxos]
<1>1. /\ Committed = f.before /\ UserCall(f) /\ store \in Stores
      /\ Taken(f) /\ Filled(f, store)
  BY OneCall, AnsweredTwice DEF CallsInv
<1>2. Committed' = store
  BY OuterEnds DEF Return
<1>3. CASE store = f.before
  BY <1>1, <1>3, OuterReturns
<1>4. CASE /\ d \in Devils /\ Accepts(f.before, d, Daxos)
           /\ store = Written(f.before, d, KindOf(f))
  <2>1. Abstract!Run(KindOf(f))
    BY <1>1, <1>2, <1>4 DEF Abstract!Run, Abstract!Accepts, Abstract!Written, Accepts, Written
  <2>2. CASE f.message.method = "submitOrder"
    <3>1. f.message.id \in Indexes /\ KindOf(f) = "order"
      BY <1>1, <2>2 DEF UserCall, MessageOK, KindOf
    <3>2. Abstract!FillOrder(f.message.id)
      BY <1>1, <2>1, <2>2, <3>1 DEF Taken, Abstract!FillOrder
    <3> QED BY <1>1, <3>1, <3>2, OuterReturns DEF Abstract!Next
  <2>3. CASE f.message.method = "submitSupply"
    <3>1. KindOf(f) = "supply"
      BY <2>3 DEF KindOf
    <3>2. Abstract!UpdateSupply
      BY <1>1, <2>1, <2>3, <3>1 DEF Taken, Abstract!UpdateSupply
    <3> QED BY <1>1, <3>2, OuterReturns DEF Abstract!Next
  <2> QED BY <1>1, <2>2, <2>3 DEF Taken
<1> QED BY <1>1, <1>3, <1>4 DEF Filled

LEMMA DaxosOrders ==
    ASSUME NEW f, CallsInv, calls = <<f>>, DaxosSubmitOrder
    PROVE  Refines
<1> DEFINE m == f.message
           v == f.before.vaults[m.id]
<1>1. /\ Now = f /\ UserCall(f) /\ f.to = Daxos /\ m.method = "submitOrder"
      /\ store \in Stores /\ Reached(f, store)
  BY OneCall DEF CallsInv, DaxosSubmitOrder, Runs
<1>2. CASE f.answers = << >>
  <2>1. store = f.before
    BY <1>1, <1>2, NotAnswered
  <2>2. CASE v = Zero
    BY <1>1, <1>2, <2>1, <2>2, AnswersDiffer, OuterFails DEF DaxosSubmitOrder, Runs
  <2>3. CASE v # Zero
    <3>1. CallOut(store, v, TakeOrder)
      BY <1>1, <1>2, <2>1, <2>3, AnswersDiffer DEF DaxosSubmitOrder, Runs
    <3>2. Waits(f, Frame(Daxos, v, TakeOrder, store))
      BY <1>1, <1>2, <2>1, <2>3 DEF Waits, IsFrame, Frame
    <3> QED BY <1>1, <3>1, <3>2, OuterCalls
  <2> QED BY <2>2, <2>3
<1>3. CASE f.answers = <<"done">>
  <2>1. store = f.before /\ Taken(f) /\ KindOf(f) = "order"
    BY <1>1, <1>3, AnsweredOnce DEF Binds, KindOf
  <2>2. CallOut(store, store.devil[Daxos], Execute("order"))
    BY <1>1, <1>3, AnswersDiffer DEF DaxosSubmitOrder, Runs
  <2>3. Waits(f, Frame(Daxos, store.devil[Daxos], Execute("order"), store))
    BY <1>1, <1>3, <2>1 DEF Waits, IsFrame, Frame
  <2> QED BY <1>1, <2>2, <2>3, OuterCalls
<1>4. CASE f.answers = <<"done", "done">>
  <2>1. Return(store)
    BY <1>1, <1>4, AnswersDiffer DEF DaxosSubmitOrder, Runs
  <2> QED BY <1>4, <2>1, FilledEnds
<1> QED BY <1>1, <1>2, <1>3, <1>4 DEF DaxosSubmitOrder, Runs

LEMMA DaxosSupplies ==
    ASSUME NEW f, CallsInv, calls = <<f>>, DaxosSubmitSupply
    PROVE  Refines
<1> DEFINE v == f.before.market
<1>1. /\ Now = f /\ UserCall(f) /\ f.to = Daxos /\ f.message.method = "submitSupply"
      /\ store \in Stores /\ Reached(f, store)
  BY OneCall DEF CallsInv, DaxosSubmitSupply, Runs
<1>2. CASE f.answers = << >>
  <2>1. store = f.before
    BY <1>1, <1>2, NotAnswered
  <2>2. CallOut(store, v, SubmitSupply)
    BY <1>1, <1>2, <2>1 DEF DaxosSubmitSupply, Runs
  <2>3. Waits(f, Frame(Daxos, v, SubmitSupply, store))
    BY <1>1, <1>2, <2>1 DEF Waits, IsFrame, Frame
  <2> QED BY <1>1, <2>2, <2>3, OuterCalls
<1>3. CASE f.answers = <<"done">>
  <2>1. store = f.before /\ Taken(f) /\ KindOf(f) = "supply"
    BY <1>1, <1>3, AnsweredOnce DEF Binds, KindOf
  <2>2. CallOut(store, store.devil[Daxos], Execute("supply"))
    BY <1>1, <1>3 DEF DaxosSubmitSupply, Runs
  <2>3. Waits(f, Frame(Daxos, store.devil[Daxos], Execute("supply"), store))
    BY <1>1, <1>3, <2>1 DEF Waits, IsFrame, Frame
  <2> QED BY <1>1, <2>2, <2>3, OuterCalls
<1>4. CASE f.answers = <<"done", "done">>
  <2>1. Return(store)
    BY <1>1, <1>4 DEF DaxosSubmitSupply, Runs
  <2> QED BY <1>4, <2>1, FilledEnds
<1> QED BY <1>1, <1>2, <1>3, <1>4 DEF DaxosSubmitSupply, Runs

\* A user's own call of a vault, market or DeVIL.
LEMMA OuterHandled ==
    ASSUME NEW f, CallsInv, calls = <<f>>, HandledStep
    PROVE  Refines
<1>1. /\ Now = f /\ UserCall(f) /\ Committed = f.before /\ store \in Stores /\ Reached(f, store)
  BY OneCall DEF CallsInv
<1>2. /\ f.sender \in Users
      /\ f.answers = << >> => store = f.before
  BY <1>1 DEF UserCall, Reached
<1>3. CASE HandledSetup /\ Accepts(store, f.to, f.sender)
  <2> DEFINE m == f.message
             s == WithHandled(store, f.to, m.owner, m.devil)
  <2>1. f.to \in Handled /\ store = f.before /\ Return(s)
    BY <1>1, <1>2, <1>3 DEF HandledSetup, Runs
  <2>2. m.owner \in Addresses /\ m.devil \in Addresses
    BY <1>1, <1>3 DEF HandledSetup, Runs, UserCall, MessageOK
  <2>3. s \in Stores
    BY <1>1, <2>1, <2>2, WrittenStores
  <2>4. Committed' = s
    BY <2>1, OuterEnds DEF Return
  <2>5. Abstract!HandOver(f.sender, f.to, m.owner, m.devil)
    BY <1>1, <1>3, <2>1, <2>4 DEF Abstract!HandOver, Abstract!Accepts, Abstract!WithHandled,
        Abstract!Handled, Accepts, WithHandled, Handled
  <2>6. Abstract!Next
    BY <1>2, <2>1, <2>2, <2>5 DEF Abstract!Next, Abstract!Addresses, Abstract!Deployed,
        Abstract!Handled, Addresses, Deployed, Handled
  <2> QED BY <2>1, <2>3, <2>6, OuterReturns
<1>4. CASE HandledGet /\ Return(store)
  BY <1>1, <1>2, <1>4, OuterReturns DEF HandledGet, Runs
<1>5. CASE Fail
  BY <1>5, OuterFails
<1> QED BY <1>1, <1>3, <1>4, <1>5 DEF HandledStep, HandledSetup, VaultSubmitOrder,
         MarketSubmitSupply, HandledGet

LEMMA OuterDevil ==
    ASSUME NEW f, CallsInv, calls = <<f>>, DevilStep
    PROVE  Refines
<1>1. /\ Now = f /\ UserCall(f) /\ Committed = f.before /\ store \in Stores /\ Reached(f, store)
  BY OneCall DEF CallsInv
<1>2. f.answers = << >> /\ f.to \in Devils
  BY <1>1 DEF DevilStep, DevilSetup, DevilExecute, Runs
<1>3. f.sender \in Users /\ store = f.before
  BY <1>1, <1>2 DEF UserCall, Reached
<1>4. CASE DevilSetup /\ Accepts(store, f.to, f.sender)
  <2> DEFINE o == f.message.owner
             s == WithOwner(store, f.to, o)
  <2>1. Return(s)
    BY <1>1, <1>4 DEF DevilSetup
  <2>2. o \in Addresses
    BY <1>1, <1>4 DEF DevilSetup, Runs, UserCall, MessageOK
  <2>3. s \in Stores
    BY <1>1, <1>2, <2>2, WrittenStores
  <2>4. Committed' = s
    BY <2>1, OuterEnds DEF Return
  <2>5. Abstract!HandOver(f.sender, f.to, o, o)
    BY <1>1, <1>2, <1>3, <1>4, <2>4 DEF Abstract!HandOver, Abstract!Accepts,
        Abstract!WithOwner, Accepts, WithOwner
  <2>6. Abstract!Next
    BY <1>2, <1>3, <2>2, <2>5 DEF Abstract!Next, Abstract!Addresses, Abstract!Deployed,
        Abstract!Handled, Addresses, Deployed, Handled
  <2> QED BY <2>1, <2>3, <2>6, OuterReturns
<1>5. CASE DevilExecute /\ Accepts(store, f.to, f.sender)
           /\ Return(Written(store, f.to, f.message.kind))
  <2> DEFINE s == Written(store, f.to, "own")
  <2>1. Return(s)
    BY <1>1, <1>5 DEF DevilExecute, Runs, UserCall, MessageOK
  <2>2. s \in Stores
    BY <1>1, <1>2, WrittenStores DEF Kinds, Stores, Written
  <2>3. Committed' = s
    BY <2>1, OuterEnds DEF Return
  <2>4. Abstract!Use(f.sender, f.to)
    BY <1>1, <1>3, <1>5, <2>3 DEF Abstract!Use, Abstract!Accepts, Abstract!Written,
        Accepts, Written
  <2>5. Abstract!Next
    BY <1>2, <1>3, <2>4 DEF Abstract!Next
  <2> QED BY <2>1, <2>2, <2>5, OuterReturns
<1>6. CASE Fail
  BY <1>6, OuterFails
<1> QED BY <1>1, <1>4, <1>5, <1>6 DEF DevilStep, DevilSetup, DevilExecute

LEMMA OuterStep ==
    ASSUME NEW f, CallsInv, calls = <<f>>, Next
    PROVE  Refines
<1>1. ~ Send
  BY OneCall DEF Send, Begin
<1>2. ~ NoCode
  BY OneCall DEF NoCode, CallsInv, UserCall
<1>3. CASE DaxosStep
  BY <1>3, DaxosSetups, DaxosSetupVaults, DaxosOrders, DaxosSupplies DEF DaxosStep
<1>4. CASE HandledStep
  BY <1>4, OuterHandled
<1>5. CASE DevilStep
  BY <1>5, OuterDevil
<1>6. CASE NoEntry \/ PassOn
  BY <1>6, OuterFails DEF NoEntry, PassOn
<1> QED BY <1>1, <1>2, <1>3, <1>4, <1>5, <1>6 DEF Next, HostStep

LEMMA InnerHandled ==
    ASSUME NEW f, NEW g, CallsInv, calls = <<f, g>>, HandledStep
    PROVE  Refines
<1> DEFINE v == f.message.vault
           b == WithVault(f.before, f.message.id, v)
           s == WithHandled(b, v, Daxos, f.before.devil[Daxos])
           h == Answered(f, "done")
<1>1. /\ Now = g /\ Waits(f, g) /\ f.before \in Stores /\ store = g.before
      /\ store \in Stores /\ UserCall(f)
  BY NotInner
<1>2. CASE HandledSetup /\ Accepts(store, g.to, g.sender)
  <2>1. g.to \in Handled /\ g.message.method = "setup"
        /\ Return(WithHandled(store, g.to, g.message.owner, g.message.devil))
    BY <1>1, <1>2 DEF HandledSetup, Runs
  <2>2. /\ f.answers = << >> /\ Binds(f) /\ g.to = v /\ store = b
        /\ g.message.owner = Daxos /\ g.message.devil = f.before.devil[Daxos]
    BY <1>1, <2>1, WaitsFor
  <2>3. g.sender = Daxos
    BY <1>1 DEF Waits
  <2>4. End(s, "done")
    BY <2>1, <2>2 DEF Return
  <2>5. s \in Stores
    <3>1. Daxos \in Addresses /\ f.before.devil[Daxos] \in Addresses
      BY <1>1 DEF Stores, Addresses, Deployed
    <3> QED BY <1>1, <2>1, <2>2, <3>1, WrittenStores
  <2>6. Accepts(f.before, v, Daxos)
    BY <1>2, <2>2, <2>3 DEF Accepts, WithVault
  <2>7. Bound(h, s) /\ Binds(h) /\ h.answers = <<"done">>
    BY <2>1, <2>2, <2>6, AppendToNone DEF Bound, Binds, Answered
  <2>8. Reached(h, s)
    BY <2>7 DEF Reached
  <2> QED BY <2>4, <2>5, <2>8, InnerAnswers
<1>3. ~ HandledGet
  BY <1>1, WaitsFor DEF HandledGet, Runs
<1>4. CASE Fail
  BY <1>4, InnerFails
<1> QED BY <1>1, <1>2, <1>3, <1>4 DEF HandledStep, HandledSetup, VaultSubmitOrder,
         MarketSubmitSupply

LEMMA InnerDevil ==
    ASSUME NEW f, NEW g, CallsInv, calls = <<f, g>>, DevilStep
    PROVE  Refines
<1> DEFINE d == f.before.devil[Daxos]
           s == Written(f.before, d, KindOf(f))
           h == Answered(f, "done")
<1>1. /\ Now = g /\ Waits(f, g) /\ f.before \in Stores /\ store = g.before
      /\ store \in Stores /\ UserCall(f)
  BY NotInner
<1>2. ~ DevilSetup
  BY <1>1, WaitsFor DEF DevilSetup, Runs
<1>3. CASE DevilExecute /\ Accepts(store, g.to, g.sender)
           /\ Return(Written(store, g.to, g.message.kind))
  <2>1. g.to \in Devils /\ g.message.method = "execute"
    BY <1>1, <1>3 DEF DevilExecute, Runs
  <2>2. /\ f.answers = <<"done">> /\ Taken(f) /\ g.to = d
        /\ g.message.kind = KindOf(f) /\ store = f.before
    BY <1>1, <2>1, WaitsFor
  <2>3. g.sender = Daxos /\ KindOf(f) \in Kinds
    BY <1>1 DEF Waits, KindOf, Kinds
  <2>4. End(s, "done")
    BY <1>3, <2>2, <2>3 DEF Return
  <2>5. s \in Stores
    BY <1>1, <2>1, <2>2, <2>3 DEF Stores, Written
  <2>6. h.answers = <<"done", "done">> /\ h.before = f.before /\ Taken(h)
    BY <2>2, AppendToOne DEF Answered, Taken
  <2>7. KindOf(h) = KindOf(f) /\ Accepts(f.before, d, Daxos)
    BY <1>3, <2>2, <2>3 DEF Answered, KindOf
  <2>8. Filled(h, s)
    BY <2>1, <2>2, <2>6, <2>7 DEF Filled
  <2>9. Reached(h, s)
    BY <2>6, <2>8 DEF Reached
  <2> QED BY <2>4, <2>5, <2>9, InnerAnswers
<1>4. CASE Fail
  BY <1>4, InnerFails
<1> QED BY <1>1, <1>2, <1>3, <1>4 DEF DevilStep, DevilExecute

LEMMA InnerNoCode ==
    ASSUME NEW f, NEW g, CallsInv, calls = <<f, g>>, NoCode
    PROVE  Refines
<1> DEFINE h == Answered(f, "done")
<1>1. /\ Now = g /\ Waits(f, g) /\ f.before \in Stores /\ store = g.before
      /\ store \in Stores /\ UserCall(f)
  BY NotInner
<1>2. g.to \notin Deployed /\ End(store, "done")
  BY <1>1 DEF NoCode, Return
<1>3. CASE f.answers = << >>
  <2>1. h.answers = <<"done">>
    BY <1>3, AppendToNone DEF Answered
  <2>2. CASE /\ Binds(f) /\ g.to = f.message.vault
             /\ store = WithVault(f.before, f.message.id, f.message.vault)
    <3>1. f.message.vault \in Users \cup {Zero}
      BY <1>1, <1>2, <2>2 DEF Binds, UserCall, MessageOK, Addresses
    <3>2. Binds(h) /\ Bound(h, store)
      BY <2>2, <3>1 DEF Binds, Bound, Answered
    <3>3. Reached(h, store)
      BY <2>1, <3>2 DEF Reached
    <3> QED BY <1>1, <1>2, <3>3, InnerAnswers
  <2>3. CASE /\ f.message.method = "submitOrder"
             /\ f.before.vaults[f.message.id] # Zero
             /\ g.to = f.before.vaults[f.message.id] /\ store = f.before
    <3>1. f.before.vaults[f.message.id] \in Users
      BY <1>1, <1>2, <2>3 DEF UserCall, MessageOK, Stores, Addresses
    <3>2. Taken(h) /\ h.before = f.before
      BY <1>1, <2>3, <3>1 DEF Waits, Taken, Answered
    <3>3. Reached(h, store)
      BY <2>1, <2>3, <3>2 DEF Reached
    <3> QED BY <1>1, <1>2, <3>3, InnerAnswers
  <2>4. CASE /\ f.message.method = "submitSupply"
             /\ g.to = f.before.market /\ store = f.before
    <3>1. f.before.market \in Users \cup {Zero}
      BY <1>1, <1>2, <2>4 DEF Stores, Addresses
    <3>2. Taken(h) /\ h.before = f.before
      BY <1>1, <2>4, <3>1 DEF Waits, Taken, Answered
    <3>3. Reached(h, store)
      BY <2>1, <2>4, <3>2 DEF Reached
    <3> QED BY <1>1, <1>2, <3>3, InnerAnswers
  <2> QED BY <1>1, <1>3, <2>2, <2>3, <2>4, AnswersDiffer DEF Waits
<1>4. CASE f.answers = <<"done">>
  <2>1. h.answers = <<"done", "done">> /\ h.before = f.before
    BY <1>4, AppendToOne DEF Answered
  <2>2. Taken(f) /\ g.to = f.before.devil[Daxos] /\ store = f.before
    BY <1>1, <1>4 DEF Waits
  <2>3. Taken(h) /\ Filled(h, store)
    BY <1>2, <2>1, <2>2 DEF Taken, Filled, Answered
  <2>4. Reached(h, store)
    BY <2>1, <2>3 DEF Reached
  <2> QED BY <1>1, <1>2, <2>4, InnerAnswers
<1> QED BY <1>1, <1>3, <1>4 DEF Waits

LEMMA InnerStep ==
    ASSUME NEW f, NEW g, CallsInv, calls = <<f, g>>, Next
    PROVE  Refines
<1>1. ~ Send
  BY TwoCalls DEF Send, Begin
<1>2. ~ DaxosStep /\ ~ PassOn
  BY NotInner DEF PassOn
<1>3. CASE HandledStep
  BY <1>3, InnerHandled
<1>4. CASE DevilStep
  BY <1>4, InnerDevil
<1>5. CASE NoCode
  BY <1>5, InnerNoCode
<1>6. CASE NoEntry
  BY <1>6, InnerFails DEF NoEntry
<1> QED BY <1>1, <1>2, <1>3, <1>4, <1>5, <1>6 DEF Next, HostStep

LEMMA StepRefines ==
    ASSUME CallsInv, [Next]_vars
    PROVE  Refines
<1>1. CASE Next
  BY <1>1, IdleStep, OuterStep, InnerStep DEF CallsInv
<1>2. CASE UNCHANGED vars
  <2>1. store' = store /\ calls' = calls
    BY <1>2 DEF vars
  <2>2. Outer' = Outer /\ Inner' = Inner /\ Idle' = Idle
    BY <2>1 DEF Outer, Inner, Idle
  <2>3. CallsInv'
    BY <2>1, <2>2 DEF CallsInv
  <2>4. Committed' = Committed
    BY <2>1, <2>2 DEF Committed
  <2> QED BY <2>3, <2>4 DEF Refines
<1> QED BY <1>1, <1>2

LEMMA InitRefines ==
    ASSUME Init
    PROVE  CallsInv /\ Abstract!Init
BY FreshIsStore DEF Init, CallsInv, Abstract!Init, Abstract!Fresh, Fresh, Committed, Idle,
   Abstract!Deployed, Deployed, Abstract!Handled, Handled

-----------------------------------------------------------------------------
(***************************************************************************)
(* What the steps of the registry keep.                                    *)
(***************************************************************************)
Owned(s) ==
    \A id \in Indexes : s.vaults[id] \in Deployed =>
        s.vaults[id] \in Handled /\ s.owner[s.vaults[id]] = Daxos

\* Bindings, and what Daxos owns.
Kept(s, t) ==
    /\ \A id \in Indexes : s.vaults[id] # Zero => t.vaults[id] = s.vaults[id]
    /\ \A c \in Handled \cup Devils : s.owner[c] = Daxos => t.owner[c] = Daxos

Together(s, t) == SameDevil(s) /\ t.devil[Daxos] = s.devil[Daxos] => SameDevil(t)

Keeps(s, t) == Owned(t) /\ Kept(s, t) /\ Together(s, t)

LEMMA ConfigureKeeps ==
    ASSUME NEW s \in Stores, NEW o, NEW d, NEW m, Owned(s)
    PROVE  Keeps(s, WithDaxos(s, o, d, m))
<1> DEFINE t == WithDaxos(s, o, d, m)
<1>1. /\ t.vaults = s.vaults
      /\ \A c \in Handled \cup Devils : t.owner[c] = s.owner[c]
      /\ \A c \in Handled : t.devil[c] = s.devil[c]
  BY DeploymentAssumption DEF Stores, WithDaxos, Deployed
<1> QED BY <1>1 DEF Keeps, Owned, Kept, Together, SameDevil

LEMMA HandOverKeeps ==
    ASSUME NEW s \in Stores, NEW u \in Users, NEW c \in Handled \cup Devils, NEW o, NEW d,
           Accepts(s, c, u), Owned(s)
    PROVE  /\ c \in Handled => Keeps(s, WithHandled(s, c, o, d))
           /\ c \in Devils => Keeps(s, WithOwner(s, c, o))
<1>1. s.owner[c] # Daxos /\ \A id \in Indexes : s.vaults[id] # c
  BY DeploymentAssumption DEF Accepts, Owned, Deployed
<1>2. CASE c \in Handled
  <2> DEFINE t == WithHandled(s, c, o, d)
  <2>1. /\ t.vaults = s.vaults
        /\ \A e \in Deployed : e # c => t.owner[e] = s.owner[e]
        /\ \A e \in {Daxos} \cup Handled : e # c => t.devil[e] = s.devil[e]
    BY DEF Stores, WithHandled
  <2>2. Daxos # c
    BY <1>2, DeploymentAssumption
  <2>3. Keeps(s, t)
    BY <1>1, <1>2, <2>1, <2>2 DEF Keeps, Owned, Kept, Together, SameDevil, Deployed
  <2> QED BY <1>2, <2>3, DeploymentAssumption
<1>3. CASE c \in Devils
  <2> DEFINE t == WithOwner(s, c, o)
  <2>1. /\ t.vaults = s.vaults /\ t.devil = s.devil
        /\ \A e \in Deployed : e # c => t.owner[e] = s.owner[e]
    BY DEF Stores, WithOwner
  <2>2. Keeps(s, t)
    BY <1>1, <1>3, <2>1 DEF Keeps, Owned, Kept, Together, SameDevil, Deployed
  <2> QED BY <1>3, <2>2, DeploymentAssumption
<1> QED BY <1>2, <1>3

LEMMA RegisterKeeps ==
    ASSUME NEW s \in Stores, NEW id \in Indexes, NEW v \in Handled \cup Users,
           s.vaults[id] = Zero, Owned(s)
    PROVE  /\ v \in Handled => Keeps(s, WithHandled(WithVault(s, id, v), v, Daxos,
                                                    s.devil[Daxos]))
           /\ v \in Users => Keeps(s, WithVault(s, id, v))
<1>1. CASE v \in Handled
  <2> DEFINE t == WithHandled(WithVault(s, id, v), v, Daxos, s.devil[Daxos])
  <2>1. /\ t.vaults[id] = v
        /\ \A j \in Indexes : j # id => t.vaults[j] = s.vaults[j]
        /\ t.owner[v] = Daxos /\ t.devil[v] = s.devil[Daxos]
        /\ \A e \in Deployed : e # v => t.owner[e] = s.owner[e]
        /\ \A e \in {Daxos} \cup Handled : e # v => t.devil[e] = s.devil[e]
    BY <1>1 DEF Stores, WithHandled, WithVault, Deployed
  <2>2. Daxos # v
    BY <1>1, DeploymentAssumption
  <2>3. Owned(t)
    BY <1>1, <2>1 DEF Owned
  <2>4. Kept(s, t)
    BY <2>1 DEF Kept, Deployed
  <2>5. Together(s, t)
    BY <1>1, <2>1, <2>2 DEF Together, SameDevil
  <2> QED BY <1>1, <2>3, <2>4, <2>5, DeploymentAssumption DEF Keeps, Deployed
<1>2. CASE v \in Users
  <2> DEFINE t == WithVault(s, id, v)
  <2>1. /\ t.vaults[id] = v /\ t.owner = s.owner /\ t.devil = s.devil
        /\ \A j \in Indexes : j # id => t.vaults[j] = s.vaults[j]
    BY DEF Stores, WithVault
  <2>2. v \notin Deployed
    BY <1>2, DeploymentAssumption
  <2> QED BY <1>2, <2>1, <2>2 DEF Keeps, Owned, Kept, Together, SameDevil, Deployed
<1> QED BY <1>1, <1>2

LEMMA WrittenKeeps ==
    ASSUME NEW s \in Stores, NEW d, NEW kind, Owned(s)
    PROVE  Keeps(s, Written(s, d, kind))
<1> DEFINE t == Written(s, d, kind)
<1>1. t.vaults = s.vaults /\ t.owner = s.owner /\ t.devil = s.devil
  BY DEF Stores, Written
<1> QED BY <1>1 DEF Keeps, Owned, Kept, Together, SameDevil

LEMMA RegistryKeeps ==
    ASSUME Committed \in Stores, Owned(Committed), Abstract!Next
    PROVE  Keeps(Committed, Committed')
<1>1. ASSUME NEW u \in Users, NEW o, NEW d, NEW m, Abstract!Configure(u, o, d, m)
      PROVE  Committed' = WithDaxos(Committed, o, d, m)
  BY <1>1 DEF Abstract!Configure, Abstract!WithDaxos, WithDaxos
<1>2. ASSUME NEW u \in Users, NEW c \in Handled \cup Devils, NEW o, NEW d,
             Abstract!HandOver(u, c, o, d)
      PROVE  /\ Accepts(Committed, c, u)
             /\ \/ c \in Handled /\ Committed' = WithHandled(Committed, c, o, d)
                \/ c \in Devils /\ Committed' = WithOwner(Committed, c, o)
  BY <1>2 DEF Abstract!HandOver, Abstract!Accepts, Abstract!WithHandled, Abstract!WithOwner,
      Abstract!Handled, Accepts, WithHandled, WithOwner, Handled
<1>3. ASSUME NEW u \in Users, NEW id \in Indexes, NEW v \in Handled \cup Users,
             Abstract!Register(u, id, v)
      PROVE  /\ Committed.vaults[id] = Zero
             /\ \/ v \in Handled /\ Committed' = WithHandled(WithVault(Committed, id, v), v,
                                                             Daxos, Committed.devil[Daxos])
                \/ v \in Users /\ Committed' = WithVault(Committed, id, v)
  BY <1>3 DEF Abstract!Register, Abstract!WithHandled, Abstract!WithVault, Abstract!Handled,
      WithHandled, WithVault, Handled
<1>4. ASSUME NEW kind, Abstract!Run(kind)
      PROVE  Committed' = Written(Committed, Committed.devil[Daxos], kind)
  BY <1>4 DEF Abstract!Run, Abstract!Written, Written
<1>5. ASSUME NEW u, NEW d, Abstract!Use(u, d)
      PROVE  Committed' = Written(Committed, d, "own")
  BY <1>5 DEF Abstract!Use, Abstract!Written, Written
<1>6. CASE \E u \in Users, o, d, m \in Abstract!Addresses : Abstract!Configure(u, o, d, m)
  BY <1>1, <1>6, ConfigureKeeps
<1>7. CASE \E u \in Users, c \in Handled \cup Devils, o, d \in Abstract!Addresses :
              Abstract!HandOver(u, c, o, d)
  BY <1>2, <1>7, HandOverKeeps
<1>8. CASE \E u \in Users, id \in Indexes, v \in Handled \cup Users : Abstract!Register(u, id, v)
  BY <1>3, <1>8, RegisterKeeps
<1>9. CASE \E u \in Users, d \in Devils : Abstract!Use(u, d)
  BY <1>5, <1>9, WrittenKeeps
<1>10. CASE \/ \E id \in Indexes : Abstract!FillOrder(id)
            \/ Abstract!UpdateSupply
  BY <1>4, <1>10, WrittenKeeps DEF Abstract!FillOrder, Abstract!UpdateSupply
<1> QED BY <1>6, <1>7, <1>8, <1>9, <1>10 DEF Abstract!Next, Abstract!Handled, Handled

-----------------------------------------------------------------------------
(***************************************************************************)
(* Theorems.                                                               *)
(***************************************************************************)
\* The storage is well-formed and the stack of calls is as deep as Daxos's
\* methods make it, with every call where the code leaves it.
THEOREM CallsInvariant == Spec => []CallsInv
<1>1. Init => CallsInv
  BY InitRefines
<1>2. CallsInv /\ [Next]_vars => CallsInv'
  BY StepRefines DEF Refines
<1> QED BY <1>1, <1>2, PTL DEF Spec

\* Every transaction is one step of the registry or none: a failing call deep
\* in setup_vault or submit_order leaves nothing behind.
THEOREM TransactionsAreAtomic == Spec => ImplementsRegistry
<1>1. Init => Abstract!Init
  BY InitRefines
<1>2. CallsInv /\ [Next]_vars => [Abstract!Next]_Committed
  BY StepRefines DEF Refines
<1> QED BY <1>1, <1>2, CallsInvariant, PTL DEF Spec, ImplementsRegistry, Abstract!Spec

\* What the registry needs: its store is well-formed, and its vaults that are
\* contracts are Daxos's own.
RegistryInv == CallsInv /\ Committed \in Stores /\ Owned(Committed)

LEMMA RegistryInvariant == Spec => []RegistryInv
<1>1. ASSUME Init
      PROVE  Owned(Committed)
  <2>1. Committed = Fresh
    BY <1>1 DEF Init, Committed, Idle
  <2> QED BY <2>1, DeploymentAssumption DEF Owned, Fresh
<1>2. CallsInv => Committed \in Stores
  BY OneCall, TwoCalls DEF CallsInv, UserCall, Committed, Idle
<1>3. ASSUME RegistryInv, [Next]_vars
      PROVE  Owned(Committed)'
  <2>1. Committed' = Committed \/ Abstract!Next
    BY <1>3, StepRefines DEF RegistryInv, Refines
  <2> QED BY <1>3, <2>1, RegistryKeeps DEF RegistryInv, Keeps, Owned
<1> QED BY <1>1, <1>2, <1>3, CallsInvariant, PTL DEF Spec, RegistryInv

LEMMA StepsKeep ==
    ASSUME RegistryInv, [Next]_vars
    PROVE  Kept(Committed, Committed') /\ Together(Committed, Committed')
<1>1. CASE Committed' = Committed
  BY <1>1 DEF Kept, Together
<1>2. CASE Abstract!Next
  BY <1>2, RegistryKeeps DEF RegistryInv, Keeps
<1> QED BY <1>1, <1>2, StepRefines DEF RegistryInv, Refines

\* A contract that is registered as a vault belongs to Daxos.
THEOREM RegisteredIsOwned == Spec => []VaultsBelongToDaxos
<1>1. RegistryInv => VaultsBelongToDaxos
  BY DEF RegistryInv, Owned, VaultsBelongToDaxos
<1> QED BY <1>1, RegistryInvariant, PTL

\* An id once bound stays bound to the same address.
THEOREM BindingsStay == Spec => BoundOnce
<1>1. RegistryInv /\ [Next]_vars =>
          [\A id \in Indexes :
              Committed.vaults[id] # Zero => Committed'.vaults[id] = Committed.vaults[id]]_vars
  BY StepsKeep DEF Kept
<1> QED BY <1>1, RegistryInvariant, PTL DEF Spec, BoundOnce

\* What Daxos owns, it owns for good.
THEOREM OwnershipStays == Spec => OwnedForGood
<1>1. RegistryInv /\ [Next]_vars =>
          [\A c \in Handled \cup Devils :
              Committed.owner[c] = Daxos => Committed'.owner[c] = Daxos]_vars
  BY StepsKeep DEF Kept
<1> QED BY <1>1, RegistryInvariant, PTL DEF Spec, OwnedForGood

\* Only a setup of Daxos that changes its DeVIL separates it from its vaults.
THEOREM SetupSeparates == Spec => OnlySetupSeparates
<1>1. RegistryInv /\ [Next]_vars =>
          [SameDevil(Committed) /\ Committed'.devil[Daxos] = Committed.devil[Daxos]
              => SameDevil(Committed')]_vars
  BY StepsKeep DEF Together
<1> QED BY <1>1, RegistryInvariant, PTL DEF Spec, OnlySetupSeparates

LEMMA OutcomeStep ==
    ASSUME CallsInv, [Next]_vars, Idle <=> outcome # "running"
    PROVE  Idle' <=> outcome' # "running"
<1>1. CASE UNCHANGED vars
  BY <1>1 DEF vars, Idle
<1>2. CASE Next /\ calls = << >>
  <2>1. Send
    BY <1>2 DEF Idle, Next, DaxosStep, HandledStep, DevilStep, HostStep, DaxosSetup,
        DaxosSetupVault, DaxosSubmitOrder, DaxosSubmitSupply, HandledSetup, VaultSubmitOrder,
        MarketSubmitSupply, HandledGet, DevilSetup, DevilExecute, NoCode, NoEntry, PassOn, Runs
  <2> QED BY <2>1 DEF Send, Begin, Idle
<1>3. ASSUME Next, NEW f, calls = <<f>>
      PROVE  Idle' <=> outcome' # "running"
  <2>1. CASE \E after : Return(after) \/ Fail
    BY <1>3, <2>1, OuterEnds DEF Return, Fail, Idle
  <2>2. CASE \E after, to, message : CallOut(after, to, message)
    <3>1. outcome = "running"
      BY <1>3, OneCall
    <3>2. outcome' = outcome /\ calls' # << >>
      BY <1>3, <2>2, CallsOut
    <3> QED BY <3>1, <3>2 DEF Idle
  <2> QED BY <1>3, <2>1, <2>2, OneCall DEF Next, Send, Begin, DaxosStep, HandledStep, DevilStep,
          HostStep, DaxosSetup, DaxosSetupVault, DaxosSubmitOrder, DaxosSubmitSupply,
          HandledSetup, VaultSubmitOrder, MarketSubmitSupply, HandledGet, DevilSetup,
          DevilExecute, NoCode, NoEntry, PassOn
<1>4. ASSUME Next, NEW f, NEW g, calls = <<f, g>>, UserCall(f)
      PROVE  Idle' <=> outcome' # "running"
  <2>1. \E after : Return(after) \/ Fail
    BY <1>4, TwoCalls, NotInner DEF Next, Send, Begin, HandledStep, DevilStep, HostStep,
       HandledSetup, VaultSubmitOrder, MarketSubmitSupply, HandledGet, DevilSetup,
       DevilExecute, NoCode, NoEntry, PassOn
  <2>2. outcome' = outcome /\ calls' # << >>
    BY <1>4, <2>1, InnerEnds DEF Return, Fail, UserCall
  <2>3. outcome = "running"
    BY <1>4, TwoCalls
  <2> QED BY <2>2, <2>3 DEF Idle
<1> QED BY <1>1, <1>2, <1>3, <1>4 DEF CallsInv

\* The types of the storage and of the calls, whose depth and answers the
\* methods of Daxos bound.
THEOREM TypesHold == Spec => []TypeOK
<1>1. Init => (Idle <=> outcome # "running")
  BY DEF Init, Idle
<1>2. CallsInv /\ (Idle <=> outcome # "running") => TypeOK
  <2>1. ASSUME CallsInv, Idle <=> outcome # "running", calls = << >>
        PROVE  TypeOK
    BY <2>1 DEF TypeOK, CallsInv, Idle
  <2>2. ASSUME CallsInv, Idle <=> outcome # "running", NEW f, calls = <<f>>
        PROVE  TypeOK
    <3>1. store \in Stores /\ UserCall(f) /\ Reached(f, store)
      BY <2>2, OneCall DEF CallsInv
    <3>2. Len(f.answers) <= 2
      <4>1. f.answers \in {<< >>, <<"done">>, <<"reverted">>, <<"done", "reverted">>,
                            <<"done", "done">>}
        BY <3>1 DEF Reached
      <4> QED BY <4>1, AnswersAreFew
    <3>3. FrameOK(f)
      BY <3>1, <3>2 DEF FrameOK, UserCall, Addresses
    <3> QED BY <2>2, <3>1, <3>3, OneCall DEF TypeOK, UserCall
  <2>3. ASSUME CallsInv, Idle <=> outcome # "running", NEW f, NEW g, calls = <<f, g>>
        PROVE  TypeOK
    <3>1. /\ store \in Stores /\ UserCall(f) /\ Waits(f, g) /\ store = g.before
          /\ f.to = Daxos
      BY <2>3, NotInner
    <3>2. FrameOK(f)
      <4>1. f.answers = << >> \/ f.answers = <<"done">>
        BY <3>1 DEF Waits
      <4>2. Len(f.answers) <= 2
        BY <4>1, AnswersAreFew
      <4> QED BY <3>1, <4>2 DEF FrameOK, UserCall, Addresses
    <3>3. g.to \in Addresses /\ g.sender = Daxos /\ g.answers = << >> /\ Daxos \in Addresses
      BY <3>1 DEF Waits, UserCall, MessageOK, Binds, Stores, Addresses, Deployed
    <3>4. FrameOK(g)
      BY <3>1, <3>3 DEF FrameOK
    <3>5. Origin = f.sender /\ f.sender \in Users
      BY <2>3, <3>1 DEF Origin, UserCall
    <3> QED BY <2>3, <3>1, <3>2, <3>3, <3>4, <3>5, TwoCalls DEF TypeOK
  <2> QED BY <2>1, <2>2, <2>3 DEF CallsInv
<1>3. CallsInv /\ [Next]_vars /\ (Idle <=> outcome # "running")
          => (Idle <=> outcome # "running")'
  BY OutcomeStep
<1> QED BY <1>1, <1>2, <1>3, CallsInvariant, PTL DEF Spec

\* An order or a supply update that ends well was run by the DeVIL of Daxos.
THEOREM SubmissionsRun == Spec => SubmittedMeansRun
<1> DEFINE f == calls[1]
           d == store.devil[Daxos]
<1>1. ASSUME CallsInv, Next, NEW kind \in Kinds,
             Len(calls) = 1, Idle', outcome' = "done", f.to = Daxos,
             Submits(f.message, kind), d \in Devils
      PROVE  store'.wrote[d] = kind
  <2>1. calls = <<f>>
    BY <1>1 DEF CallsInv, Outer
  <2>2. Now = f /\ store \in Stores /\ UserCall(f) /\ Reached(f, store) /\ ~ Idle
    <3> HIDE DEF f
    <3> QED BY <1>1, <2>1, OneCall DEF CallsInv
  <2>3. ~ Fail
    BY <1>1, <2>1, OuterEnds DEF Fail
  <2>4. ~ \E after, to, message : CallOut(after, to, message)
    BY <1>1, <2>1, CallsOut DEF Idle
  <2>5. DaxosSubmitOrder \/ DaxosSubmitSupply
    BY <1>1, <2>2, <2>3, <2>4, DeploymentAssumption DEF Next, Send, Begin, DaxosStep,
       HandledStep, DevilStep, HostStep, DaxosSetup, DaxosSetupVault, HandledSetup,
       VaultSubmitOrder, MarketSubmitSupply, HandledGet, DevilSetup, DevilExecute, NoCode,
       NoEntry, PassOn, Runs, Submits, Handled, Deployed
  <2>6. f.answers = <<"done", "done">> /\ Return(store)
    BY <2>2, <2>3, <2>4, <2>5 DEF DaxosSubmitOrder, DaxosSubmitSupply, Runs
  <2>7. Filled(f, store)
    BY <2>2, <2>6, AnsweredTwice
  <2>8. /\ f.before.devil[Daxos] = d /\ f.before \in Stores
        /\ store = f.before \/ store = Written(f.before, d, KindOf(f))
    BY <2>2, <2>7 DEF Filled, UserCall, Written, Stores
  <2>9. store = Written(f.before, d, KindOf(f))
    BY <1>1, <2>7, <2>8 DEF Filled, Deployed
  <2>10. store.wrote[d] = KindOf(f) /\ KindOf(f) = kind
    BY <1>1, <2>8, <2>9 DEF Written, Stores, KindOf, Submits
  <2> QED BY <2>1, <2>6, <2>10, OuterEnds DEF Return
<1>2. CallsInv /\ [Next]_vars =>
          [\A kind \in Kinds :
              ( /\ Len(calls) = 1 /\ Idle' /\ outcome' = "done"
                /\ calls[1].to = Daxos /\ Submits(calls[1].message, kind)
                /\ store.devil[Daxos] \in Devils )
              => store'.wrote[store.devil[Daxos]] = kind]_vars
  BY <1>1
<1> QED BY <1>2, CallsInvariant, PTL DEF Spec, SubmittedMeansRun

=============================================================================
