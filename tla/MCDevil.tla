------------------------------ MODULE MCDevil ------------------------------
(***************************************************************************)
(* Devil for TLC: two addresses that compete for a machine with two ids to *)
(* submit under and a third only programs write.  The programs store twice *)
(* and fail in between, call and fold whatever was submitted, overwrite    *)
(* it, or are broken; the data are a vector, a program that calls itself,  *)
(* one that passes an item through, and bytes that are no words.           *)
(***************************************************************************)
EXTENDS Devil, Vil

CONSTANTS alice, bob

MCAddresses == {alice, bob}
MCIds       == {1, 2}

Recursive == Assemble(<< <<"B", 1, 0, 0, 0>>, <<"IMMS", 1>> >>)
PassItem  == Assemble(<< <<"PKV", 1>>, <<"VSUM">> >>)
MCBlobs   == {<<5, 7>>, Recursive, PassItem, MALFORMED}

Program(source) == [code |-> Assemble(source), registers |-> USIZE + 1]
StoreTwice == Program(<< <<"LDV", 1>>, <<"LDD", 0>>, <<"STV", 3>>, <<"LDV", 2>>, <<"POPN", 1>>,
                         <<"STV", 1>>, <<"LDV", 2>>, <<"STR", "R">>, <<"LDM", "R">>,
                         <<"VSUM">>, <<"PKV", 1>>, <<"STV", 2>> >>)
CallOne    == Program(<< <<"IMMS", 2>>, <<"B", 1, 1, 1, 0>>, <<"PKV", 1>>, <<"STV", 3>> >>)
FoldTwo    == Program(<< <<"LDV", 2>>, <<"FOLD", 1, 0, 0, 0>> >>)
\* Positions are taken modulo USIZE.
Overwrite  == Program(<< <<"IMMS", 3>>, <<"LDD", USIZE>>, <<"PKV", 2>>, <<"STV", 1>> >>)
\* Store, then an instruction that is cut off, and one that is none.
CutOff     == [code |-> Assemble(<< <<"LDV", 1>>, <<"STV", 2>> >>) \o <<Opcode["LDV"]>>,
               registers |-> 0]
NoCode     == [code |-> Assemble(<< <<"LDV", 1>>, <<"STV", 3>> >>) \o <<12>>, registers |-> 0]
NoProgram  == [code |-> MALFORMED, registers |-> 0]
MCPrograms == {StoreTwice, CallOne, FoldTwo, Overwrite, CutOff, NoCode, NoProgram}

=============================================================================
