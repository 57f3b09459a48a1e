----------------------------- MODULE HexCompilers -----------------------------
(***************************************************************************)
(* The two HEX compilers, of which the tool chain may use either: the      *)
(* tests of src/tests/*.hex2bin.yaml are the same for both.  They read the *)
(* same file.  As they share nothing else, the one in assembly, which is   *)
(* also the seed of the tool chain, runs first.                            *)
(***************************************************************************)
EXTENDS Integers, SequencesExt

CONSTANTS Input,           \* the files
          MaxFailuresC,    \* how many reads of the program in C may fail
          MaxFailuresAsm   \* how many reads of the program in assembly

ASSUME InputAssumption == Input \subseteq Seq(0 .. 255)
ASSUME FailuresAssumption == MaxFailuresC \in Nat /\ MaxFailuresAsm \in Nat

VARIABLES input,
          position, asm_failures, asm_pc, temp, esi, asm_output, asm_exit,
          read, c_failures, c_pc, c1, c_output, c_exit

asmvars == <<position, asm_failures, asm_pc, temp, esi, asm_output, asm_exit>>
cvars == <<read, c_failures, c_pc, c1, c_output, c_exit>>
vars == <<input, asmvars, cvars>>

Asm == INSTANCE Hex2BinAsm WITH
    failures <- asm_failures, pc <- asm_pc, output <- asm_output, exit <- asm_exit,
    MaxFailures <- MaxFailuresAsm

C == INSTANCE Hex2BinC WITH
    failures <- c_failures, pc <- c_pc, output <- c_output, exit <- c_exit,
    MaxFailures <- MaxFailuresC

Init == Asm!Init /\ C!Start

hex2bin_nasm == Asm!Next /\ UNCHANGED cvars

hex2bin_c ==
    /\ asm_exit # "running"
    /\ C!Next
    /\ UNCHANGED asmvars

Next == hex2bin_nasm \/ hex2bin_c

(* Standard input is a file or a pipe whose writer ends: a read returns.   *)
Spec == Init /\ [][Next]_vars /\ WF_vars(Next)

-----------------------------------------------------------------------------
TypeOK == C!TypeOK

(* The program in C is a HEX compiler, also when a read fails ...          *)
ImplementsHex == C!ImplementsHex

(* ... and the program in assembly, as long as no read fails.              *)
ImplementsHexAsm == Asm!ImplementsHex

(* When a read of the program in assembly fails, it should at least write  *)
(* only what the file asks for.                                            *)
OutputSound == Asm!OutputSound

(* Either program may stand for the other, also on files that are not HEX  *)
(* files, unless the file has a character that is white space, or the end  *)
(* of a comment, for the program in assembly only.  Even then the program  *)
(* in assembly accepts what the one in C accepts, and more, except that a  *)
(* carriage return ends its comments.                                      *)
Interchangeable ==
    c_exit # "running" /\ c_failures = 0 /\ asm_failures = 0 =>
        /\ ToSet(input) \cap {11, 12, 13} = {}
             => asm_output = c_output /\ asm_exit = c_exit
        /\ c_exit = "exit(0)" /\ 13 \notin ToSet(input)
             => asm_output = c_output /\ asm_exit = "exit(0)"
=============================================================================
