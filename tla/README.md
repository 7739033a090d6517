# A TLA+ model of deindex

deindex is a decentralised index exchange on Arbitrum Stylus. Users deposit
collateral to buy an index; the vault of the index quotes a capacity, a price
and a slope; filling the order asks the market for the assets of the index.
All quantities live as vectors on one contract, DeVIL, a small vector machine,
and the other contracts send it programs. This directory models that machine,
the programs it runs, what an order fill promises, and the contracts around it
with their calls, owners and rollbacks.

## Inventory

| Component | State | Operations | What makes it correct |
|---|---|---|---|
| `Amount` (`libs/deli/src/amount.rs`) | none | checked add, sub, mul, div, saturating sub, sqrt, with 18 decimals in a u128 | every result is exact or rounded down, and one that does not fit fails |
| Native solver (`libs/deli/src/math.rs`) | none | `solve_quadratic` in Rust | answers what the program answers |
| Labels, Vector, codec (`labels.rs`, `vector.rs`, `uint.rs`) | none | words to bytes and back | a blob that is no whole number of words is refused |
| Instruction set (`vis.rs`) | none | op codes | the instructions do what the table says |
| Machine (`contracts/devil/src/program.rs`) | operand stack, registers, program counter, nested calls | 36 instructions, subroutines (B), folds (FOLD) | positions address the operand they mean; joins match label by label; calls leave their caller's frame alone; every program ends |
| DeVIL contract (`contracts/devil/src/lib.rs`) | owner, one map id -> bytes | setup, submit, get, execute | only the owner calls; a submission never overwrites; a failed program leaves nothing |
| VIL programs (`libs/icore/src/vil`) | vectors on DeVIL: orders, demand, supply, delta, executions | `execute_buy_order`, `solve_quadratic`; two stubs | collateral is conserved, demand netted, delta balanced |
| `devil!` (`proc-macros/devil-macros`) | register numbering while assembling | assemble | one number for each register name |
| Daxos (`contracts/daxos`) | owner, DeVIL, market, map of vaults | setup, setup_vault, submit_order, submit_supply | a vault is bound once, owned by Daxos and on its DeVIL; an order that was taken is run |
| Vault, Market (`contracts/vault`, `contracts/market`) | owner, DeVIL, handles | setup; submit_order and submit_supply are `todo!()` | only the owner calls, and Daxos stays owner |
| Literal macros, `apps/ap`, scripts, `main.rs` | none | compile time, empty, deployment | not modelled |

How they interact: Daxos calls a vault or the market (a synchronous contract
call), then assembles a program and calls `Devil::execute`. The program loads
and stores vectors of DeVIL's map. There is no concurrency inside a
transaction: the host runs it to its end and reverts all of it on an error or
a panic. What interleaves is transactions: submissions, executions for
different orders on the same market vectors, and changes of ownership. A
contract that is called again while it runs refuses (the SDK's guard), a failed
call restores what it wrote, and every `?` passes a failure on.

What is hard here:

* *One fill is about a hundred instructions* whose operands are found by their
  distance from the top of the stack, with a subroutine that has its own stack.
  The repository has one test, of one fill.
* *Rollback.* The program stores demand and delta before it computes the cost
  and adds it to what was spent, all with checked arithmetic.
* *Rounding.* The square root is cut at nine decimals, quotients and products
  at eighteen, and the cost is recomputed from the rounded quantity. The final
  `C - CS` saturates, so an overspend would be silent.
* *Joins* of ascending label lists with two cursors, with errors for some
  mismatches only.
* *Repeated fills.* A capped order is filled again; collateral and spent carry
  over, the minted quantity does not.
* *Ownership.* Until `setup`, everybody may call everything. Daxos asks who
  signed the transaction (`tx_origin`), the others who called (`msg_sender`),
  and a vault may have got another owner before Daxos calls its `setup`.
* *Nested calls.* `setup_vault` writes before it calls, `submit_order` calls
  twice. Addresses are not typed: vault and market answer the same
  `setup(address,address)`, Daxos and market the same `submitSupply()`, an
  address without code answers everything with success.
* *The square root* is a Newton iteration without a bound on its steps.
* *Termination.* Programs have no jumps, but a subroutine may call itself.

`PROJECT.json` lists each hazard at its line with the properties that cover it.

## Modules

| Module | Models |
|---|---|
| `Amount` | `amount.rs`. An Amount is an integer in raw units. An operator returns the exact integer, `Representable` is the conversion to u128. `SCALE_SQRT` and `MAX` are constants |
| `SqrtNewton` | The loop of `sqrt_u256`, one iteration a step, with its checked additions |
| `Quadratic` | What `solve_quadratic` computes: the formula with the rounding of `Amount`, and when every value on the way fits |
| `NativeSolver` | `math.rs`, one line a step, beside `Quadratic` |
| `InstantFill` | The abstract specification: order book, supply, demand, delta, executions; `PlaceOrder` and `ExecuteBuyOrder`. A fill is one atomic step, with the arithmetic of the programs |
| `AmountLemmas` | What rounding can do to products, quotients, roots and the quadratic: the lemmas the proofs rest on |
| `InstantFillProofs`, `SqrtNewtonProofs` | Theorems about `InstantFill` and `SqrtNewton` |
| `Vis` | Op codes and the number of their arguments |
| `Stack` | `struct Stack`, one operator for each method: a machine `[stack, registry]` to the set of machines the method may leave, empty for an error |
| `Joins` | LUNION, JUPD, JADD, JFLT as folds over the labels on top that carry a cursor into the others |
| `Devil` | The contract and `execute_with_stack`: one action for each public method and each instruction |
| `Vil` | The two programs as data, and the assembler |
| `BuyOrderVM` | `Devil` loaded with `Vil`'s programs and a market; the refinement mapping to `InstantFill` |
| `DevilLaws` | Programs that must agree, and the joins against their definition on sets |
| `DevilProofs` | What every operator of `Stack` and `Joins` does to a machine of well-formed operands; the theorems about `Devil` |
| `DevilLawsProofs`, `NativeSolverProofs` | Theorems about the joins of `DevilLaws`, and `NativeSolver` |
| `BuyOrderProofs` | Theorems about the programs of `BuyOrderVM`: the shape of the machine at each of their lines, and what a fill may write |
| `Deployment` | The contracts of an exchange, their storage, the test of the owner, and what setups, registrations and programs write |
| `Registry` | The abstract specification of the contracts: one step for each transaction that ends well |
| `Contracts` | Daxos, vaults, market and DeVIL as contracts that call each other: a stack of calls, one step from call to call, rollback of each call that fails |
| `ContractsProofs` | Theorems about `Contracts`, the refinement of `Registry` among them |
| `MC*` | Constants for TLC |

`InstantFill` EXTENDS `Quadratic`, which EXTENDS `Amount`. `BuyOrderVM` EXTENDS
`Devil` and `Vil` (composition) and INSTANCEs `InstantFill` (refinement).
`Contracts` and `Registry` EXTEND `Deployment`; `Contracts` INSTANCEs
`Registry` with the storage as the last ended transaction left it. `Contracts`
takes of DeVIL its owner and which kind of program wrote last: what a program
does to vectors is `Devil`'s and `BuyOrderVM`'s subject.
Definitions commented "Seeded fault" are the forms a plausible slip in the
code would take. No specification uses them: they are put in place of the
definition after them to see that a property notices.

### State and code

* `vectors` is `Devil.vectors` as the running transaction sees it, `committed`
  what it was when the last transaction ended. `Revert` restores it: the host
  does that when `execute` returns `Err` or panics.
* `frames` is the Rust call stack of `execute_with_stack`: code, pc, machine,
  the number of outputs, and the items a FOLD has not passed on. The first
  frame is the program of the transaction.
* Every error reverts with the same "Program error", so which error it is is
  left out. Panics (a truncated instruction, division by zero, malformed
  bytes) revert too.
* A blob is a sequence of words or `MALFORMED`. An absent entry and an empty
  one are the same, as `StorageBytes::is_empty` makes them. Labels, vectors
  and programs share the map.
* Positions, counts and registers are words modulo `USIZE` (`as usize`).
* `GAS_DEPTH` stands for the gas limit where the code has no bound of its
  own: calls nested deeper fail. No other instruction runs out of gas.
* Ids: `submit_order` has fixed ids with a TODO to take them from vault and
  market. `BuyOrderVM` gives each index and order ids of its own, which is what
  the parameters of `execute_buy_order` are for; orders count from 2001 instead
  of 10001, for an id is a word and no word exceeds `MAX`.
* Order vectors are placed with `Devil::submit`; the vault function that will
  do it is a `todo!()`.
* `Contracts.calls` is the stack of contract calls of the running transaction.
  A frame holds sender, callee, message, the storage when it began and how the
  calls it made ended; the answers tell how far its method has come. `Return`
  keeps what the call wrote, `Fail` takes it back, in the callee and in whom it
  called; the caller then sees "reverted", and its `?` is `PassOn`.
* The host is external and modelled as its callers use it: `NoCode` (a call of
  an address without code succeeds), `NoEntry` (no such method, or a contract
  that is already running), `Origin` (`tx_origin`), the sender of a frame
  (`msg_sender`), all-zero storage of what was just deployed.
* `Vault::submit_order` and `Market::submit_supply` end in `todo!()`, a panic: with
  code at the address an order reverts. Only an address without code, which
  `setup_vault` accepts, lets `submit_order` reach DeVIL today. The model says so
  as it stands: `FillOrder` of `Registry` asks for such an address.
* In `SqrtNewton` `LIMIT` is the largest u256. Amounts are u128, so their
  roots are of numbers far below it.
* In `InstantFill` a fill that is not executable is no step. `BuyOrderVM` shows
  that the machine reverts exactly then. An index without assets is one of the
  cases: its labels are stored, but empty, and an empty vector is not found.

## Runs

| Run | What it checks |
|---|---|
| `instant_fill` | Three orders, two on one index, a third on another that shares an asset. Deposits of zero, below and above the capacity; a market with netted demand and supply and a crowded one. 1.0 is 100 units, so every rounding occurs. `MAX` makes the larger deposit of the second index unsolvable and the crowded market overflow after one fill |
| `buy_order_vm` | Six orders on five indexes: one good, one with an asset beyond the last of the market, one with an asset before the first, one with slope zero, one without assets, which the machine cannot load. Each of the four has that one reason to be rejected. Up to `MaxOrders` = 2 orders in the book at once, each filled any number of times, so a fill follows each kind of rejection and each kind of fill. The second market makes fills overflow where demand is matched |
| `devil` | Two senders, two ids, four blobs, seven programs: stores before a failure, calls and folds of whatever was submitted (a program that calls itself included), overwriting, code cut off, unknown op code, malformed code |
| `devil_laws` | Eighteen laws on all pairs of ten vectors of three components; the joins on all pairs of the 31 ascending sequences of labels 1..5. Every instruction fires in this run or the two before |
| `contracts` | Two users; one Daxos, vault, market and DeVIL; two ids. Setups of Daxos by either, with DeVIL or none, with the market, a user, nobody or Daxos itself as market, and with a user, Daxos or nobody as owner; setups of vault, market and DeVIL beside Daxos; registrations of vault, market, DeVIL, a user and the zero address; orders, supply updates and getters at any time. Some 380 000 states, every order of transactions included |
| `sqrt_newton` | All numbers of eleven bits, with 2047 as the largest of the type: the overflow at the top, both parities, squares and their neighbours |
| `native_solver` | All triples of coefficients of `MCNativeSolver`, small, middle and near the bound, zero included, so that each line fails somewhere |
| `get_returns_the_data`, `union_is_union`, `labels_must_be_covered`, `update_replaces`, `minted_accumulates` | What a comment says and the code does not do, see below |

Properties:

* `NoOverspend`, `CollateralConserved`: the rounded solution never costs more
  than the collateral, hence the saturating subtraction never saturates, and
  collateral plus spent is constant.
* `SpendsAllButDust`: the other side of `NoOverspend`. A fill that the
  capacity does not cap leaves less than what the truncated root, divided by
  twice the slope, and a few units of the other roundings can lose.
* `StoringIsSafe`, `NothingToRollBack`: nothing overflows behind the first STV of
  a fill, however often its order was filled; on the machine, a fill that
  fails has not stored anything.
* `DemandNetted`, `DemandFollowsExecution`, `DeltaBalances`: short demand is
  used before long demand is added, net demand moves by what the fill
  publishes, and delta is the balance of the comment in the program. Supply
  stays as it is in these runs, for `update_supply` is a stub: a delta that is
  stale because supply changed after the fill is out of their sight.
* `ImplementsInstantFill`: storage, decoded at each commit, behaves as
  `InstantFill`. `RejectsOnlyTheInexecutable`: and the machine does not fail
  otherwise. `EndsWithEmptyStack`, `NoEmptyOperand`: no operand is left over or
  read after it was moved.
* `OnlyTheOwnerActs`, `AllOrNothing`, `SubmittedOnce`, `TransactionsEnd` of the
  contract. Its `TypeOK` also places every call at an instruction or at the end
  of its code: an arm of the dispatch that advances pc over a word too many
  passes the end.
* `ImplementsRegistry`: however calls nest, fail, reenter and are misdirected,
  a transaction is one atomic step of the registry or none.
  `VaultsBelongToDaxos`: a registered contract has accepted Daxos as owner, and
  nothing of a registration stays when it refused. `BoundOnce`: no id changes
  its vault, whoever owns Daxos. `OwnedForGood`: nobody gets a vault, the
  market or DeVIL back from Daxos. `OnlySetupSeparates`: vaults and Daxos use
  the same DeVIL until a setup of Daxos changes it (which leaves the vaults
  behind: nothing in the code tells them). `SubmittedMeansRun`: an order that
  ends well was run.
* `AboveTheRoot`, `ReturnsTheFloor`, `FailsOnlyAtTheTop`, `HalvesTheError`,
  `Returns`: the loop never divides by zero, stops at the floor, overflows for
  the largest number alone, and takes logarithmically many steps.
* `AgreesWithProgram`: the Rust solver answers what the program answers, except
  where the truncated root is below B: there the program's SSB buys nothing and
  the checked subtraction fails.
* `LawsHold`, `FilterRestricts`, `JoinsCombine`, `UnionStaysOrdered` of the
  instructions. The join properties say what the code does beyond the range
  of A, too.

Fairness: `WF_vars(Step)` in `Devil!Spec` and `FillSpec`. The host executes a
transaction at once and to its end, so a step of a running program is never put
off. No caller is assumed to act: a transaction need not be sent. `SqrtNewton`
has `WF_vars(Next)` for the same reason, a function that runs to its end.
`Contracts` needs none: its properties are about what transactions that end
leave behind.

Bounds: numbers are small because TLC has 32 bits; `SCALE_SQRT` and `MAX` are
the only constants of `Amount`, and the theorems hold for all of them. A market
of three assets has one before, one between and one after those of an index.
The longest program needs about 145 steps; orders interact through storage
only, so two at a time reach every interaction of a pair. Contracts interact
through owners, DeVIL addresses and ids: two ids reach aliases and competition
for one contract, two users every race for an owner, and the proofs cover any
number of each.

### What the code does not do

* `Devil::get` tests `!is_empty()` for "No data" (`lib.rs:94`): it fails for
  every stored vector and answers with nothing for the others.
* `lunion` drops labels of B after the last of A, and a label of A when the
  inner loop uses up B before it.
* `jupd`, `jadd`, `jflt` ignore labels of B after the last of A, against their
  comments. A fill of an index with such an asset is rejected all the same,
  by the length check of the next subtraction.
* `jupd` with equal label positions adds.
* A second fill of an order overwrites its minted quantity. An order that is
  spent and filled again ends with zero minted.

Read in the source, without a run: `amount.rs:49-50` says of the Newton
sequence that x_{k+1} <= x_k is always true. It is until the loop ends, which
is when it no longer is: for 3 the estimates are 3, 2, 1, 2. The loop is right
because no estimate falls below the floor (`AboveTheRoot`). `checked_sq`, the
native solver's B^2, is the product Amount computes for B*B. VSUM, VMIN and VMAX replace their operand
where `vis.rs` says they do not consume it; `T 1` unpacks a vector into scalars
rather than into vectors of length one; `solve_quadratic` is called vectorised
in `test.rs:59`, but multiplies a scalar by what would be a vector (`MUL 1`
after `IMMS 4`), which the machine refuses.

## Proofs

`InstantFillProofs` proves for every value of the constants that satisfies
`AmountAssumption` and `FillAssumption` (scale and bound positive, `4.0`
representable, quotes, weights, deposits and books well typed, books netted):

* `TypeCorrect`, `DemandStaysNetted`, `DeltaStaysBalanced`,
  `DemandFollows`: invariants and an action property of `Spec`.
* `NeverOverspends`: the cost of an executable fill is at most the
  collateral. With R the root, R^2 <= P^2 + 4*S*C in scaled units
  (`SqrtRoundsDown`, `TimesRoundsDown`, `RootBound`), Q <= (R - P) / 2S
  (`QuantityBound`), hence Q*(P + S*Q) <= C (`CostInequality`), and rounding
  down the products and capping keep it (`CostWithinCollateral`).
* `StoresSafely`: the effective price P + S*Q is at most the root or P itself
  (`PriceWithinRoot`), the cost at most the collateral, and collateral plus
  spent stays an Amount. That last fact, `FundsFit`, is the strengthening the
  invariant needs: it bounds what earlier fills have spent (`FundsStayFit`).
* `ConservesCollateral` follows: without overspending the saturating
  subtraction is a subtraction.

* `LeavesOnlyDust`: what an uncapped fill leaves. Each product loses less than
  a unit (`TimesLosesLittle`), the root less than `SCALE_SQRT` units
  (`SqrtLosesLittle`, `RootLosesLittle`), the quotient less than one
  (`QuantityLosesLittle`); `DustInequality` adds them up without division.

`TypeOK` of `InstantFill` is inductive as it stands: each stored value is either
the result of a saturating subtraction or one `Executable` says is
representable. The rounding facts are lemmas about `Amount` and `Quadratic` in
`AmountLemmas`, stated with ASSUME and PROVE; existence of the integer root is
shown without recursion (`FloorSqrtExists`).

`SqrtNewtonProofs` proves for every `LIMIT` and every argument:
`StaysAboveTheRoot` (the inductive invariant: an average of x and n/x, each cut,
is never below the floor of the root), `ReturnsTheRoot` from it and the exit
condition of the loop, `FailsAtTheTop`, and `ErrorHalves`.

`ContractsProofs` proves the properties of run `contracts` for every set of
users, contracts, ids and transactions that satisfies `DeploymentAssumption`
(addresses are of one kind each, zero is no user) and `ContractsAssumption`
(arguments have the types of the interfaces):

* `CallsInvariant`: the inductive invariant `CallsInv`. None, one or two calls
  are in progress. `Reached` says what an outer call has made of the storage,
  by the answers it has: nothing yet; the vault bound and taken over; the order
  taken by an address without code; its program run. `Waits` says which call
  it waits for, with which storage. Nothing weaker is kept: when the vault has
  answered, only `Reached` remembers that it was Daxos's registration it
  answered, and from which storage.
* `TransactionsAreAtomic`: under `CallsInv` a step leaves the committed storage
  alone or is a step of `Registry` (`StepRefines`, one lemma for each method
  as the outer call and as the inner one).
* `RegisteredIsOwned`, `BindingsStay`, `OwnershipStays`, `SetupSeparates`: about
  steps of the registry alone (`RegistryKeeps`), carried over by the
  refinement. The strengthening is `Owned`: a registered contract is a vault
  or market, and Daxos's.
* `SubmissionsRun`, `TypesHold`: from `CallsInv`.

`DevilProofs` proves for every set of senders, ids, blobs and programs that
satisfies `DevilAssumption` (what is submitted is u128 words or malformed
bytes, the zero address sends nothing):

* `TypeCorrect`: every call is at an instruction or at its end, on a machine
  whose operands are well formed, and no program gets the machine out of that.
  `TypeOK` is inductive because it says so of all frames, not of the innermost
  one alone: `Return` resumes the caller. The operators need a lemma each
  (the first half of the module): whatever positions and operands they are given, they leave
  machines or fail. That is where an index beyond a vector would show.
* `TransactionsAreAtomic`: every instruction leaves owner, committed storage
  and transaction alone, or reverts, or commits (`StepOutcome`).
* `OwnerActs`: with `RunsForOwner`, a program runs for a sender who was allowed
  when it began. It is inductive since the owner cannot change meanwhile.
* `SubmissionsKeepData`.

`NativeSolverProofs` proves `SolversAgree` for every scale, bound and triple of
Amounts. The invariant `Bound` says that the lines so far have bound the terms
of the program (`LinesAreTerms`), and that each was an Amount; a line that fails
is a term that does not fit, or the root below B (`LinesFit`, `BindKeeps`).

`DevilLawsProofs` proves `FiltersRestrict`, `UpdatesCombine` and
`UnionsStayOrdered` for all labels, values and vectors that satisfy
`LawsAssumption` (labels ascend and are not empty; labels and values are
Amounts; `USIZE` exceeds the positions the programs use; malformed bytes are no
words), in three parts:

* The walks. The prover has no induction over data, so a fold is met as the
  function of its prefixes: `FoldExists` gives it by well-founded induction up
  to a bound (`UpTo`), and the `*Prefixes` lemmas its equations. Then one
  invariant over the prefixes: `Cursor` says that the labels of B before the
  cursor are among those of A that were passed, and the others beyond them.
  With it one step of the filter keeps the values of the rank reached so far
  (`FilterStepKeeps`), one of JUPD or JADD changes one value (`Matches`), and one
  of LUNION appends what keeps the result ascending. It also shows where a label
  of A may be lost: only once, when the cursor leaves B.
* The code. The assembler is unfolded word by word (`FilterWords` and its
  like), so each word has one instruction that can run (`StepDoes`) and each
  instruction its stack (`LoadVectorStep`, `FilterRuns`, ...).
* The transactions. `LawsInv` is the inductive invariant: none runs; or one of
  the other programs, whose code differs (`OthersDiffer`) and stays
  (`StepKeeps`: whatever is called or folded, the outermost call keeps its
  code); or one of the four is at its n-th word with exactly the operands its
  words have made.

`BuyOrderProofs` proves `ReadsNoEmptyOperand`, `LeavesTheStackEmpty` and
`FillsWriteTheirOwn` for all orders, indexes, quotes, weights, labels, markets
and deposits that satisfy `BuyOrderAssumption` (fewer than a hundred indexes, so
that the ids of indexes and orders are apart; `USIZE` exceeds the positions and
register numbers of a program; what is placed and loaded is words). The argument
is the one a type checker would make:

* The assembly. `WordsOf` and `LineHolds` say which words a line becomes and
  where; `LineFetched` that a machine at a line can fetch its instruction and no
  other; `LineDoes` that a step is then this instruction, with the arguments
  of the line. Registers are numbered by first use: two names never share a
  number (`RegistersDiffer`).
* The shapes. `HasShape` says how deep the stack is, that no operand on it is
  empty, which registers hold a value, and whether the top is three words long,
  as a quote or order must be for `UNPK`. `Fits` relates an instruction to the
  shapes before and after it. `LineStep`, for any program: from a machine of the
  first shape the instruction goes on to one of the second, or the transaction
  reverts. Whether the amounts fit is not asked.
* The programs. Together they are 122 lines, each shown to fit (`BuyFits`, `CallFits`),
  for the depths `BuyDepth` and `CallDepth` and for registers that live from the
  line that stores them to the `LDM` that empties them (`BuyLife`, `CallLife`). A
  read of a register after its `LDM`, or a `POPN` too few, would fit no shapes.
* The invariant. `BuyInv`: no transaction runs; or a program is at line n with
  the shape of line n; or it waits in the middle of line 17 with its subroutine
  at line k. `StoredWell` is the strengthening: quotes and orders stay three words
  long and the subroutine stays what it is, which holds because no store of the
  program names the id of a quote or of the subroutine (`FillIdsApart`) and an
  order is stored right after `PKV 3`. TLC evaluated `BuyInv` on more than ten thousand
  states of `MCBuyOrderVM`, calls and whole fills among them, before it was proved.
* What it writes. `WritesInv` adds that the running fill has changed only what
  is `Written`; so whatever it commits leaves other orders, quotes, baskets and
  the supply alone, and `WritesItsOwn` follows. TLC agrees, and finds a
  counterexample when one id is taken from `Written`.

Only model-checked:

* `TransactionsEnd`, `Returns`: liveness.
* `ImplementsInstantFill`, `RejectsOnlyTheInexecutable` and
  `NothingToRollBack` of `BuyOrderVM`. They are about values: what each of the
  122 instructions leaves has to be written out and compared with `InstantFill`,
  as `DevilLawsProofs` does for six. `BuyOrderProofs` has the frame for it: which
  line runs, on how many operands, with which registers, writing what.
* `LawsHold`: eighteen pairs of programs, two of them calling, four folding.

## Not modelled

The stubs `update_quote` and `update_supply` beyond that they are sent; the
handles and orders that vault and market declare and never write; formatting
and parsing of literals, byte order, gas other than by depth of calls; value
transfers and events, which no contract uses.

## Plan

Done so far, in this order: `Amount` and `InstantFill`; the machine (`Stack`,
`Joins`, `Devil`); the programs on it (`Vil`, `BuyOrderVM`) and the laws of the
instructions; `Deployment`, `Registry` and `Contracts`; `SqrtNewton`; the native
solver; the bound on unspent collateral; the proofs about the fill, the root
and the contracts; then those about the machine, the native solver and the
joins; then those about the shapes of the programs. What is left:

1. The refinement of `InstantFill` by `BuyOrderVM`: to the shape of each line
   in `BuyOrderProofs`, the values of its operands and registers.
2. `LawsHold`: the laws without calls and folds first.
3. When vault and market get their `todo!()` functions: their handles in
   `Deployment`, and the ids of `submit_order` from them instead of parameters.
