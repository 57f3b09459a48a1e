------------------------------- MODULE Arabilis -------------------------------
(***************************************************************************)
(* main of src/src/arabilis_cpp/arabilis.cpp after the parser: the program *)
(* is checked by VariableUsage and, unless only its syntax was asked for,  *)
(* compiled by Compiler.  The compiler looks names up with map::at inside  *)
(* noexcept functions and writes whatever label it has; it relies on the   *)
(* check for every lookup to succeed and every label to be set.            *)
(***************************************************************************)
EXTENDS Ast, FiniteSets

VARIABLES program,
          only_parse,                                 \* mode::only_parse
          todo, visitors, verdict,                    \* VariableUsage
          work, compilers, next_unique_id, code, outcome  \* Compiler

checkvars == <<todo, visitors, verdict>>
genvars == <<work, compilers, next_unique_id, code, outcome>>
vars == <<program, only_parse, checkvars, genvars>>

Check == INSTANCE VariableUsage
Gen == INSTANCE Compiler

Init ==
    /\ Check!Init
    /\ Gen!Start
    /\ only_parse \in BOOLEAN

check_variable_usage ==
    /\ Check!Next
    /\ UNCHANGED <<only_parse, genvars>>

(* Mutant: the compiler is started although the check failed.              *)
compile_program_always ==
    /\ verdict # "checking"
    /\ ~only_parse
    /\ Gen!Next
    /\ UNCHANGED <<only_parse, checkvars>>

compile_program ==
    /\ verdict = "accepted"
    /\ ~only_parse
    /\ Gen!Next
    /\ UNCHANGED <<only_parse, checkvars>>

Next == check_variable_usage \/ compile_program

Spec == Init /\ [][Next]_vars

(* A single process without blocking calls: it runs until it exits.        *)
FairSpec == Spec /\ WF_vars(Next)

-----------------------------------------------------------------------------
(* VariableUsage and Compiler keep separate symbol tables, filled by       *)
(* separate rules and at different moments of the traversal.  Yet a name   *)
(* that passed the check is always found by the compiler: the process      *)
(* never ends in std::terminate.                                           *)
NeverTerminates == outcome # "terminate"

(* What the compiler writes for a checked program can be assembled: every  *)
(* label that is referred to is defined exactly once.  In particular       *)
(* "break", "continue" and "return" never jump to the empty label, and     *)
(* main has a label.                                                       *)
Defined(l) == {i \in DOMAIN code : code[i].op = "define" /\ code[i].label = l}

exit_number == Gen!with_imm("mov_eax_imm", 1)

Assembles ==
    outcome = "done" =>
        \A i \in DOMAIN code :
            \/ code[i].op \notin {"mov_eax_imm", "push_imm"}
            \/ code[i].op = "push_imm" /\ code[i].label = 0
            \/ code[i] = exit_number
            \/ Cardinality(Defined(code[i].label)) = 1

(* The process ends: with an error, after the check, or with the complete  *)
(* output.                                                                 *)
Ends ==
    <>(\/ verdict = "exit(1)"
       \/ verdict = "accepted" /\ only_parse
       \/ outcome = "done")
=============================================================================
