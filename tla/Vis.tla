-------------------------------- MODULE Vis --------------------------------
(***************************************************************************)
(* The vector instruction set of the DeVIL machine (libs/deli/src/vis.rs): *)
(* the word of each mnemonic, and how many argument words follow it.       *)
(***************************************************************************)
EXTENDS Naturals

Opcode ==
    [LDL |-> 10, LDV |-> 11, LDD |-> 13, LDR |-> 14, LDM |-> 15,
     STL |-> 20, STV |-> 21, STR |-> 23,
     PKV |-> 30, PKL |-> 31, UNPK |-> 32, VPUSH |-> 33, VPOP |-> 34, T |-> 35,
     LUNION |-> 40, LPUSH |-> 41, LPOP |-> 42, JUPD |-> 43, JADD |-> 44, JFLT |-> 45,
     ADD |-> 50, SUB |-> 51, SSB |-> 52, MUL |-> 53, DIV |-> 54, SQRT |-> 55,
     MIN |-> 60, MAX |-> 61,
     VSUM |-> 70, VMIN |-> 71, VMAX |-> 72,
     IMMS |-> 80, IMML |-> 81, ZEROS |-> 82, ONES |-> 83,
     POPN |-> 90, SWAP |-> 91, B |-> 92, FOLD |-> 93]

Mnemonics == DOMAIN Opcode

\* The number of words execute_with_stack reads after the op code.
Arity(mnemonic) ==
    CASE mnemonic \in {"UNPK", "VPOP", "LPOP", "SQRT", "VSUM", "VMIN", "VMAX"} -> 0
      [] mnemonic = "JFLT"           -> 2
      [] mnemonic \in {"JUPD", "JADD"} -> 3
      [] mnemonic \in {"B", "FOLD"}  -> 4
      [] OTHER                       -> 1

=============================================================================
