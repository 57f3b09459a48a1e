------------------------------- MODULE Hex2BinC -------------------------------
(***************************************************************************)
(* The HEX compiler in C, src/src/hex2bin_c/hex2bin.c.  One action is one  *)
(* call of getchar and what the program does until the next one.  A read   *)
(* that fails makes getchar return EOF, as the end of the file does.       *)
(***************************************************************************)
EXTENDS Integers, SequencesExt

CONSTANTS Input,       \* the files on standard input
          MaxFailures  \* how many reads may fail

VARIABLES input, read,   \* the file, and how many characters were read
          failures,      \* reads that failed
          pc,            \* "item", "comment" or "second"
          c1,            \* the value of the first digit of a pair
          output, exit

vars == <<input, read, failures, pc, c1, output, exit>>

EOF == -1
Newline == 10
Hash == 35
Space == {32, 9, 10}

is_digit(c) == c \in 48 .. 57

(* Mutant: one letter too many.                                            *)
is_upper_to_g(c) == c \in 65 .. 71

is_upper(c) == c \in 65 .. 70
is_hex(c) == is_digit(c) \/ is_upper(c)

(* Mutant: letters count from 0.                                           *)
value_of_letter(c) == IF is_digit(c) THEN c - 48 ELSE c - 65

(* c -= '0' or c -= 'A' - 0x0A.                                            *)
value(c) == IF is_digit(c) THEN c - 48 ELSE c - (65 - 10)

-----------------------------------------------------------------------------
AtEnd == read = Len(input)

received ==
    (IF AtEnd THEN {EOF} ELSE {input[read + 1]})
      \cup (IF failures < MaxFailures THEN {EOF} ELSE {})

getchar(c) ==
    /\ exit = "running"
    /\ c \in received
    /\ read' = IF c = EOF THEN read ELSE read + 1
    /\ failures' = IF c = EOF /\ ~AtEnd THEN failures + 1 ELSE failures
    /\ UNCHANGED input

Goto(label) == pc' = label /\ UNCHANGED <<output, exit>>
Exit(code) == exit' = code /\ UNCHANGED <<pc, c1, output>>

Item ==
    /\ pc = "item"
    /\ \E c \in received :
          /\ getchar(c)
          /\ \/ c = EOF /\ Exit("exit(0)")
             \/ c = Hash /\ Goto("comment") /\ UNCHANGED c1
             \/ c \in Space /\ Goto("item") /\ UNCHANGED c1
             \/ is_hex(c) /\ Goto("second") /\ c1' = value(c)
             \/ c # EOF /\ c # Hash /\ c \notin Space /\ ~is_hex(c) /\ Exit("exit(1)")

Comment ==
    /\ pc = "comment"
    /\ \E c \in received :
          /\ getchar(c)
          /\ \/ c = EOF /\ Exit("exit(0)")
             \/ c = Newline /\ Goto("item") /\ UNCHANGED c1
             \/ c # EOF /\ c # Newline /\ Goto("comment") /\ UNCHANGED c1

(* Mutant: the missing second digit at the end of the file is not checked. *)
SecondAtEnd ==
    /\ pc = "second"
    /\ \E c \in received :
          /\ getchar(c)
          /\ \/ /\ is_hex(c) \/ c = EOF
                /\ output' = Append(output, c1 * 16 + (IF c = EOF THEN 0 ELSE value(c)))
                /\ pc' = "item"
                /\ UNCHANGED <<c1, exit>>
             \/ ~is_hex(c) /\ c # EOF /\ Exit("exit(1)")

Second ==
    /\ pc = "second"
    /\ \E c \in received :
          /\ getchar(c)
          /\ \/ /\ is_hex(c)
                /\ output' = Append(output, c1 * 16 + value(c))
                /\ pc' = "item"
                /\ UNCHANGED <<c1, exit>>
             \/ ~is_hex(c) /\ Exit("exit(1)")

-----------------------------------------------------------------------------
Start ==
    /\ read = 0
    /\ failures = 0
    /\ pc = "item"
    /\ c1 = 0
    /\ output = <<>>
    /\ exit = "running"

Init == input \in Input /\ Start

Next == Item \/ Comment \/ Second

(* Standard input is a file or a pipe whose writer ends: a read returns.   *)
Spec == Init /\ [][Next]_vars /\ WF_vars(Next)

-----------------------------------------------------------------------------
TypeOK ==
    /\ read \in 0 .. Len(input)
    /\ failures \in 0 .. MaxFailures
    /\ pc \in {"item", "comment", "second"}
    /\ c1 \in 0 .. 15
    /\ output \in Seq(0 .. 255)
    /\ exit \in {"running", "exit(0)", "exit(1)"}

(* The program writes exactly the bytes that the grammar gives to the      *)
(* file, and its exit status says whether the file is a HEX file.  A read  *)
(* that fails cuts the output short, wherever it happens, and never makes  *)
(* the program write a byte that the file does not ask for.                *)
Hex == INSTANCE HexFile WITH Blank <- {32, 9, 10}, CommentEnd <- {10},
                             failed <- failures > 0

ImplementsHex == Hex!Spec
=============================================================================
