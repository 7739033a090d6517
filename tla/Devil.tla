------------------------------- MODULE Devil -------------------------------
(***************************************************************************)
(* The DeVIL contract (contracts/devil/src/lib.rs) and the interpreter it  *)
(* runs (contracts/devil/src/program.rs, execute_with_stack): one action   *)
(* per public method and one per instruction.                              *)
(*                                                                         *)
(* A method that fails reverts its transaction: the host restores the      *)
(* storage to what it was when the transaction began.                      *)
(***************************************************************************)
EXTENDS Vis, Joins

CONSTANTS Addresses,    \* who may send a transaction
          ZeroAddress,  \* the owner before setup
          Ids,          \* ids that transactions submit data under
          Blobs,        \* the data they submit
          Programs,     \* the code and register count they execute
          MALFORMED,    \* bytes that are no whole number of words
          USIZE,        \* 2^32: `as usize` keeps a word modulo this
          GAS_DEPTH     \* calls nested deeper run out of gas

\* What is stored and submitted: u128 words, or bytes that are none.
Bytes == {MALFORMED} \cup Seq(Amounts)

ASSUME DevilAssumption ==
    /\ ZeroAddress \notin Addresses
    /\ USIZE \in Nat \ {0}
    /\ GAS_DEPTH \in Nat \ {0}
    /\ Blobs \subseteq Bytes
    /\ \A p \in Programs : p.code \in Bytes /\ p.registers \in Nat

VARIABLES owner,      \* the address that may call, or ZeroAddress: anyone may
          vectors,    \* the storage: id -> words, as the running transaction sees it
          committed,  \* the storage as the last successful transaction left it
          frames,     \* the calls in progress, the innermost last; none when idle
          tx          \* the sender of the last transaction, and how it ended

vars == <<owner, vectors, committed, frames, tx>>

Idle == frames = << >>

-----------------------------------------------------------------------------
(***************************************************************************)
(* Storage.  Labels, vectors and programs share one map of byte strings;   *)
(* an empty string is the same as none.                                    *)
(***************************************************************************)
Stored(store, id)     == IF id \in DOMAIN store THEN store[id] ELSE << >>
Put(store, id, words) == [i \in DOMAIN store \cup {id} |-> IF i = id THEN words ELSE store[i]]

\* load_labels and load_vector return: there is data, and it is whole words.
Loadable(id) == Stored(vectors, id) \notin {<< >>, MALFORMED}

-----------------------------------------------------------------------------
(***************************************************************************)
(* Transactions.                                                           *)
(***************************************************************************)
\* check_owner returns Ok.
Allowed(sender) == owner = ZeroAddress \/ sender = owner

\* The transaction of the sender ends without running a program.
Ends(sender, how) == tx' = [sender |-> sender, outcome |-> how]
Refuse(sender)    == Ends(sender, "reverted") /\ UNCHANGED <<owner, vectors, committed, frames>>

\* Seeded fault: no test of the owner.
SetupUnchecked(sender, newOwner) ==
    /\ Idle
    /\ owner' = newOwner
    /\ Ends(sender, "done")
    /\ UNCHANGED <<vectors, committed, frames>>

Setup(sender, newOwner) ==
    /\ Idle
    /\ IF Allowed(sender)
       THEN /\ owner' = newOwner
            /\ Ends(sender, "done")
            /\ UNCHANGED <<vectors, committed, frames>>
       ELSE Refuse(sender)

\* Seeded fault: no test for duplicate data.
SubmitReplacing(sender, id, data) ==
    /\ Idle
    /\ IF Allowed(sender)
       THEN /\ vectors' = Put(vectors, id, data)
            /\ committed' = vectors'
            /\ Ends(sender, "done")
            /\ UNCHANGED <<owner, frames>>
       ELSE Refuse(sender)

Submit(sender, id, data) ==
    /\ Idle
    /\ IF Allowed(sender) /\ Stored(vectors, id) = << >>
       THEN /\ vectors' = Put(vectors, id, data)
            /\ committed' = vectors'
            /\ Ends(sender, "done")
            /\ UNCHANGED <<owner, frames>>
       ELSE Refuse(sender)

\* What get returns: nothing when it fails.  The test is the one of the code.
Get(sender, id) ==
    IF Allowed(sender) /\ Stored(committed, id) = << >> THEN {Stored(committed, id)} ELSE {}

\* A call in progress: code, position of its next word, machine, the outputs
\* it leaves to its caller, and the items a FOLD has not yet passed to it.
Frame(code, pc, m, outputs, items) ==
    [code |-> code, pc |-> pc, m |-> m, outputs |-> outputs, items |-> items]

Execute(sender, program) ==
    /\ Idle
    /\ IF Allowed(sender) /\ program.code # MALFORMED
       THEN /\ frames' = <<Frame(program.code, 1, NewStack(program.registers % USIZE), 0, << >>)>>
            /\ Ends(sender, "running")
            /\ UNCHANGED <<owner, vectors, committed>>
       ELSE Refuse(sender)

\* The program ended, with Ok or with an error.
Commit ==
    /\ frames' = << >>
    /\ committed' = vectors
    /\ tx' = [tx EXCEPT !.outcome = "done"]
    /\ UNCHANGED <<owner, vectors>>

\* Seeded fault: what the program stored before it failed stays.
RevertKeeping ==
    /\ frames' = << >>
    /\ tx' = [tx EXCEPT !.outcome = "reverted"]
    /\ UNCHANGED <<owner, vectors, committed>>

Revert ==
    /\ frames' = << >>
    /\ vectors' = committed
    /\ tx' = [tx EXCEPT !.outcome = "reverted"]
    /\ UNCHANGED <<owner, committed>>

-----------------------------------------------------------------------------
(***************************************************************************)
(* The interpreter.                                                        *)
(***************************************************************************)
Current  == frames[Len(frames)]
M        == Current.m
Finished == Current.pc > Len(Current.code)
Word(n)  == Current.code[Current.pc + n]
Arg(n)   == Word(n)               \* an id or an immediate value
Pos(n)   == Word(n) % USIZE       \* a position, a register or a count

\* The next word is this instruction, with all its arguments.
Fetch(mnemonic) ==
    /\ ~ Idle
    /\ ~ Finished
    /\ Word(0) = Opcode[mnemonic]
    /\ Current.pc + Arity(mnemonic) <= Len(Current.code)

\* Seeded fault: an instruction without arguments skips the word behind it, the
\* `pc += 1` of one that has an argument.
AdvancedPast(mnemonic, m) ==
    [Current EXCEPT !.pc = @ + (IF Arity(mnemonic) = 0 THEN 2 ELSE 1 + Arity(mnemonic)), !.m = m]

\* The innermost call after this instruction, with machine m.
Advanced(mnemonic, m) == [Current EXCEPT !.pc = @ + 1 + Arity(mnemonic), !.m = m]
Replace(frame)        == [frames EXCEPT ![Len(frames)] = frame]

\* An instruction that only works on the machine.
Instruction(mnemonic, outcomes) ==
    /\ Fetch(mnemonic)
    /\ IF outcomes = {} THEN Revert
       ELSE /\ \E m \in outcomes : frames' = Replace(Advanced(mnemonic, m))
            /\ UNCHANGED <<owner, vectors, committed, tx>>

Load(id, operand(_)) == When(Loadable(id), Push(M, operand(vectors[id])))
LDL == Instruction("LDL", Load(Arg(1), Labels))
LDV == Instruction("LDV", Load(Arg(1), Vector))

\* Seeded fault: the operand stays on the stack.
StoreCopying(mnemonic, id, kind) ==
    /\ Fetch(mnemonic)
    /\ IF Depth(M) > 0 /\ Top(M).kind = kind
       THEN /\ vectors' = Put(vectors, id, Top(M).data)
            /\ frames' = Replace(Advanced(mnemonic, M))
            /\ UNCHANGED <<owner, committed, tx>>
       ELSE Revert

\* Store the top operand, which must be of this kind.
Store(mnemonic, id, kind) ==
    /\ Fetch(mnemonic)
    /\ IF Depth(M) > 0 /\ Top(M).kind = kind
       THEN /\ vectors' = Put(vectors, id, Top(M).data)
            /\ frames' = Replace(Advanced(mnemonic, Drop(M, 1)))
            /\ UNCHANGED <<owner, committed, tx>>
       ELSE Revert
STL == Store("STL", Arg(1), "Labels")
STV == Store("STV", Arg(1), "Vector")

LDD    == Instruction("LDD", Ldd(M, Pos(1)))
LDR    == Instruction("LDR", Ldr(M, Pos(1)))
LDM    == Instruction("LDM", Ldm(M, Pos(1)))
STR    == Instruction("STR", Str(M, Pos(1)))
PKV    == Instruction("PKV", Pkv(M, Pos(1)))
PKL    == Instruction("PKL", Pkl(M, Pos(1)))
UNPK   == Instruction("UNPK", Unpk(M))
VPUSH  == Instruction("VPUSH", Vpush(M, Arg(1)))
VPOP   == Instruction("VPOP", Vpop(M))
T      == Instruction("T", Transpose(M, Pos(1)))
LUNION == Instruction("LUNION", Lunion(M, Pos(1)))
LPUSH  == Instruction("LPUSH", Lpush(M, Arg(1)))
LPOP   == Instruction("LPOP", Lpop(M))
JUPD   == Instruction("JUPD", Jupd(M, Pos(1), Pos(2), Pos(3)))
JADD   == Instruction("JADD", Jadd(M, Pos(1), Pos(2), Pos(3)))
JFLT   == Instruction("JFLT", Jflt(M, Pos(1), Pos(2)))
ADD    == Instruction("ADD", Add(M, Pos(1)))
SUB    == Instruction("SUB", Sub(M, Pos(1)))
SSB    == Instruction("SSB", SsbTop(M, Pos(1)))
MUL    == Instruction("MUL", Mul(M, Pos(1)))
DIV    == Instruction("DIV", Div(M, Pos(1)))
SQRT   == Instruction("SQRT", SqrtTop(M))
MIN    == Instruction("MIN", MinTop(M, Pos(1)))
MAXOP  == Instruction("MAX", MaxTop(M, Pos(1)))
VSUM   == Instruction("VSUM", Vsum(M))
VMIN   == Instruction("VMIN", Vmin(M))
VMAX   == Instruction("VMAX", Vmax(M))
IMMS   == Instruction("IMMS", Imms(M, Arg(1)))
IMML   == Instruction("IMML", Imml(M, Arg(1)))
ZEROS  == Instruction("ZEROS", Zeros(M, Pos(1)))
ONES   == Instruction("ONES", Ones(M, Pos(1)))
POPN   == Instruction("POPN", Popn(M, Pos(1)))
SWAP   == Instruction("SWAP", Swap(M, Pos(1)))

-----------------------------------------------------------------------------
(***************************************************************************)
(* Subroutines.  B and FOLD read <program> <inputs> <outputs> <registers>. *)
(***************************************************************************)

\* Enter the subroutine with the inputs taken from the caller's machine m.
Enter(mnemonic, m, pc, items) ==
    LET code   == vectors[Arg(1)]
        callee == [NewStack(Pos(4)) EXCEPT !.stack = TopN(m, Pos(2))]
    IN  /\ frames' = Append(Replace(Advanced(mnemonic, Drop(m, Pos(2)))),
                            Frame(code, IF pc = 0 THEN Len(code) + 1 ELSE pc,
                                  callee, Pos(3), items))
        /\ UNCHANGED <<owner, vectors, committed, tx>>

B ==
    /\ Fetch("B")
    /\ IF Loadable(Arg(1)) /\ Pos(2) <= Depth(M) /\ Len(frames) < GAS_DEPTH
       THEN Enter("B", M, 1, << >>)
       ELSE Revert

\* The vector or the labels to fold over are on top of the inputs.  The
\* subroutine has not run yet: it waits, finished, for the first item.
FOLD ==
    /\ Fetch("FOLD")
    /\ IF /\ Loadable(Arg(1)) /\ Depth(M) > 0 /\ HasItems(Top(M))
          /\ Pos(2) <= Depth(M) - 1 /\ Len(frames) < GAS_DEPTH
       THEN Enter("FOLD", Drop(M, 1), 0, Items(Top(M)))
       ELSE Revert

\* The next item goes on the stack the previous run left, and the code runs
\* again, on the same registers.
FoldNext ==
    /\ ~ Idle
    /\ Finished /\ Current.items # << >>
    /\ frames' = Replace(Frame(Current.code, 1, Push(M, Head(Current.items)),
                               Current.outputs, Tail(Current.items)))
    /\ UNCHANGED <<owner, vectors, committed, tx>>

\* The end of a subroutine moves its outputs to the stack of its caller.
Return ==
    /\ Len(frames) > 1
    /\ Finished /\ Current.items = << >>
    /\ LET caller == frames[Len(frames) - 1]
       IN  IF Current.outputs <= Depth(M)
           THEN /\ frames' = Append(SubSeq(frames, 1, Len(frames) - 2),
                                    [caller EXCEPT !.m = PushAll(@, TopN(M, Current.outputs))])
                /\ UNCHANGED <<owner, vectors, committed, tx>>
           ELSE Revert

\* The end of the program.
End == Len(frames) = 1 /\ Finished /\ Commit

\* Seeded fault: the machine waits at an op code it does not know.
MalfunctionSpinning == ~ Idle /\ ~ Finished /\ UNCHANGED vars

\* No op code, or arguments beyond the end of the code.
Malfunction ==
    /\ ~ Idle
    /\ ~ Finished
    /\ \A mnemonic \in Mnemonics :
          Word(0) = Opcode[mnemonic] => Current.pc + Arity(mnemonic) > Len(Current.code)
    /\ Revert

-----------------------------------------------------------------------------
LoadsAndStores == LDL \/ LDV \/ STL \/ STV \/ LDD \/ LDR \/ LDM \/ STR \/ POPN \/ SWAP
Structures     == PKV \/ PKL \/ UNPK \/ T \/ VPUSH \/ VPOP \/ LPUSH \/ LPOP
JoinsOfLabels  == LUNION \/ JUPD \/ JADD \/ JFLT
Arithmetic     == ADD \/ SUB \/ SSB \/ MUL \/ DIV \/ SQRT \/ MIN \/ MAXOP
Aggregates     == VSUM \/ VMIN \/ VMAX
Immediates     == IMMS \/ IMML \/ ZEROS \/ ONES
ControlFlow    == B \/ FOLD \/ FoldNext \/ Return \/ End \/ Malfunction

Step == \/ LoadsAndStores \/ Structures \/ JoinsOfLabels \/ Arithmetic
        \/ Aggregates \/ Immediates \/ ControlFlow

Init ==
    /\ owner = ZeroAddress
    /\ vectors = << >> /\ committed = << >>
    /\ frames = << >>
    /\ tx = [sender |-> ZeroAddress, outcome |-> "done"]

Call ==
    \/ \E s \in Addresses, o \in Addresses \cup {ZeroAddress} : Setup(s, o)
    \/ \E s \in Addresses, id \in Ids, data \in Blobs : Submit(s, id, data)
    \/ \E s \in Addresses, p \in Programs : Execute(s, p)

Next == Call \/ Step

\* A transaction that began runs to its end: the host executes it at once.
Spec == Init /\ [][Next]_vars /\ WF_vars(Step)

-----------------------------------------------------------------------------
(***************************************************************************)
(* Properties.                                                             *)
(***************************************************************************)

\* The storage holds words or malformed bytes, a running transaction has at
\* most GAS_DEPTH calls, each at an instruction or at its end with a machine
\* of well-formed operands, and the storage differs from the committed one
\* only while a transaction runs.
Frames ==
    {f \in [code : Seq(Amounts), pc : Nat \ {0}, m : Machine, outputs : Nat, items : Seq(Operand)] :
        f.pc <= Len(f.code) + 1}
StorageOK(store) == \A id \in DOMAIN store : store[id] \in Bytes
TypeOK ==
    /\ owner \in Addresses \cup {ZeroAddress}
    /\ tx \in [sender : Addresses \cup {ZeroAddress}, outcome : {"done", "reverted", "running"}]
    /\ StorageOK(vectors) /\ StorageOK(committed)
    /\ frames \in Seq(Frames) /\ Len(frames) <= GAS_DEPTH
    /\ Idle <=> tx.outcome # "running"
    /\ Idle => vectors = committed

\* Only the owner of the moment hands over the machine or changes what it
\* stores; until somebody owns it, everybody may (lib.rs:32-38).  A program
\* is no way around it: its sender was checked when it started.
OnlyTheOwnerActs ==
    [][committed' # committed \/ owner' # owner => owner = ZeroAddress \/ tx'.sender = owner]_vars

\* The storage others see changes only when a transaction ends well, and
\* whatever a program stored before it failed, in itself or in a subroutine,
\* is gone when its transaction reverts.
AllOrNothing ==
    [][/\ committed' # committed => Idle' /\ tx'.outcome = "done"
       /\ tx'.outcome = "reverted" => vectors' = committed /\ committed' = committed]_vars

\* Data under an id is replaced only by a program: a submission never
\* overwrites (lib.rs:84-86), whoever sends it and however often.
SubmittedOnce ==
    [][\A id \in DOMAIN committed :
          committed[id] # << >> /\ Stored(committed', id) # committed[id] => ~ Idle]_vars

\* A transaction that started commits or reverts: programs have no jumps, a
\* fold ends with its items, and a subroutine that calls itself runs out of
\* gas.
TransactionsEnd == ~ Idle ~> Idle

\* What programs store on the machine "can be accessed when required by
\* calling Devil::get(vector_id) method" (daxos/src/lib.rs:51-52): who may
\* call gets the data that is stored under an id.
GetReturnsTheData ==
    \A s \in Addresses, id \in Ids :
        Idle /\ Allowed(s) /\ Stored(committed, id) # << >>
            => Get(s, id) = {Stored(committed, id)}

=============================================================================
