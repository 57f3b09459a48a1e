------------------------------- MODULE Execution -------------------------------
(***************************************************************************)
(* A program is compiled and the code is run.  The rest of the tool chain  *)
(* (macro2label, label2hex, hex2bin) translates the lines of code one by   *)
(* one and fills in addresses; here the processor executes the lines.      *)
(***************************************************************************)
EXTENDS Meaning

CONSTANTS StackTop, StackWords,   \* of the processor
          Fuel                    \* calls and rounds of loops in a run

ASSUME MachineAssumption ==
    /\ Width \in Nat /\ Width > 8
    /\ StackWords \in Nat
    /\ StackTop \in Nat /\ StackTop > 4 * StackWords

VARIABLES program, work, compilers, next_unique_id, code, outcome,  \* Compiler
          pc, registers, flags, memory, frames, status              \* Machine

genvars == <<program, work, compilers, next_unique_id, outcome>>
cpuvars == <<pc, registers, flags, memory, frames, status>>
vars == <<genvars, code, cpuvars>>

Gen == INSTANCE Compiler
Cpu == INSTANCE Machine

Init == Gen!Init /\ Cpu!Init

compile_program ==
    /\ Gen!Next
    /\ UNCHANGED cpuvars

execute ==
    /\ outcome = "done"
    /\ Cpu!Next
    /\ UNCHANGED genvars

Next == compile_program \/ execute

Spec == Init /\ [][Next]_vars

(* The processor does not stop before the program exits or faults.         *)
FairSpec == Spec /\ WF_vars(Next)

-----------------------------------------------------------------------------
(* The code computes what the program means: it exits with the value of    *)
(* main and leaves the right values in the global variables, and it only   *)
(* faults where a division of the program is undefined.                    *)
word_of(name) == Cpu!Load(Cpu!AddressOfLabel(compilers[1].globalvars[name]))

GlobalsAgree(globals) ==
    \A n \in DOMAIN globals : globals[n] < SomeAddress => word_of(n) = globals[n]

ComputesMeaning ==
    status # "running" =>
        LET end == Meaning(program, Fuel)
        IN \/ /\ status = "exited" /\ end.stop = "no"
              /\ registers.ebx = end.value
              /\ GlobalsAgree(end.globals)
           \/ status = "fault" /\ end.stop = "fault"

(* A call returns behind the call instruction, with the stack as high as   *)
(* before and ebp and ebx unchanged, although the blocks of the callee     *)
(* leave their variables on the stack and "return" may leave an expression *)
(* or a loop half way.                                                     *)
CallsRestore ==
    [][Len(frames') < Len(frames) =>
          frames[1] = [pc |-> pc', esp |-> registers'.esp,
                       ebp |-> registers'.ebp, ebx |-> registers'.ebx]]_vars

(* Variables are only accessed in the part of the stack that is allocated: *)
(* what lies below esp is overwritten by the next push.                    *)
AccessesAllocated ==
    status = "running" /\ pc \in DOMAIN code =>
        \A a \in Cpu!referenced : Cpu!OnStack(a) => a >= registers.esp

(* Programs that mean something run to their end.                          *)
Terminates == <>(status # "running")

(* "remove loop variable", says backend.cpp of the pop behind the end of a *)
(* for loop: the word it removes is the one of the loop variable.          *)
LoopVariables ==
    {s.name : s \in {x \in Stmt : x.kind = "For"}}

RemovesLoopVariable ==
    \A c \in DOMAIN compilers :
        \A n \in LoopVariables \cap DOMAIN compilers[c].localvars :
            status = "running" /\ pc - 1 \in DOMAIN code
              /\ code[pc - 1] = Gen!define(compilers[c].break_label)
              /\ code[pc].op = "pop_eax"
                => registers.esp = registers.ebp + compilers[c].localvars[n]
=============================================================================
