------------------------------- MODULE HexFile -------------------------------
(***************************************************************************)
(* The promise of a HEX compiler: a program that writes the bytes that its *)
(* input stands for, one after the other, and exits.                       *)
(***************************************************************************)
EXTENDS HexText

CONSTANT Input  \* the files

VARIABLES input,   \* the file on standard input
          failed,  \* whether a read has failed
          output,  \* the bytes written so far
          exit     \* "running", "exit(0)" or "exit(1)"

vars == <<input, failed, output, exit>>

(* What every file stands for.                                             *)
Meaning ==
    [s \in Input |-> [bytes |-> Bytes(Readable(s)),
                      exit |-> IF Accepted(s) THEN "exit(0)" ELSE "exit(1)"]]

-----------------------------------------------------------------------------
Init ==
    /\ input \in Input
    /\ failed = FALSE
    /\ output = <<>>
    /\ exit = "running"

Write ==
    /\ exit = "running"
    /\ Len(output) < Len(Meaning[input].bytes)
    /\ output' = Append(output, Meaning[input].bytes[Len(output) + 1])
    /\ UNCHANGED <<input, failed, exit>>

Finish ==
    /\ exit = "running"
    /\ output = Meaning[input].bytes
    /\ exit' = Meaning[input].exit
    /\ UNCHANGED <<input, failed, output>>

(* A read fails: the rest of the file is lost, but nothing is made up.     *)
Cut ==
    /\ exit = "running"
    /\ failed' = TRUE
    /\ exit' \in {"exit(0)", "exit(1)"}
    /\ UNCHANGED <<input, output>>

Next == Write \/ Finish \/ Cut

(* It always comes to an end.                                              *)
Ends == <>(exit # "running")

Safety == Init /\ [][Next]_vars

Spec == Safety /\ Ends
=============================================================================
