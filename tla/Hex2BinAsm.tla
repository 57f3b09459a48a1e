------------------------------ MODULE Hex2BinAsm ------------------------------
(***************************************************************************)
(* The HEX compiler in assembly, src/src/hex2bin_nasm/hex2bin.s, which is  *)
(* also, instruction by instruction, the seed of the tool chain            *)
(* (hex2bin_hex, hex2bin_bin).  One action is one system call and the      *)
(* instructions up to the next one.  The byte that is read and the byte    *)
(* that is written share the memory at temp; a read returns 1, 0 at the    *)
(* end of the file, or a negative number and leaves temp alone.            *)
(***************************************************************************)
EXTENDS Integers, SequencesExt

CONSTANTS Input,       \* the files on standard input
          MaxFailures  \* how many reads may fail

VARIABLES input, position,  \* the file, and how much of it was read
          failures,         \* reads that failed
          pc,               \* "item", "second", "write" or "discard_comment"
          temp,             \* the byte of memory that is the buffer
          esi,              \* the first digit, shifted
          output, exit

vars == <<input, position, failures, pc, temp, esi, output, exit>>

white_space == {32} \cup 9 .. 13
is_hexdigit(eax) == eax \in 48 .. 57 \cup 65 .. 70

(* c1_alpha falls through to c1_number.                                    *)
number(eax) == (IF eax >= 65 THEN eax - 7 ELSE eax) - 48

-----------------------------------------------------------------------------
(* What the system call may do: its result in eax and the byte in temp.    *)
results ==
    (IF position = Len(input) THEN {[eax |-> 0, temp |-> temp]}
     ELSE {[eax |-> 1, temp |-> input[position + 1]]})
      \cup (IF failures < MaxFailures THEN {[eax |-> -5, temp |-> temp]} ELSE {})

sys_read(result) ==
    /\ exit = "running"
    /\ result \in results
    /\ temp' = result.temp
    /\ position' = IF result.eax = 1 THEN position + 1 ELSE position
    /\ failures' = IF result.eax < 0 THEN failures + 1 ELSE failures
    /\ UNCHANGED <<input, output>>

Goto(label) == pc' = label /\ UNCHANGED exit
sys_exit(code) == exit' = code /\ UNCHANGED pc

(* Mutant: the last of the white space characters is not one.              *)
item_until_ff ==
    /\ pc = "item"
    /\ \E result \in results :
          /\ sys_read(result)
          /\ \/ result.eax = 0 /\ sys_exit("exit(0)") /\ UNCHANGED esi
             \/ /\ result.eax # 0
                /\ LET eax == result.temp
                   IN \/ eax \in {32} \cup 9 .. 12 /\ Goto("item") /\ UNCHANGED esi
                      \/ eax = 35 /\ Goto("discard_comment") /\ UNCHANGED esi
                      \/ is_hexdigit(eax) /\ Goto("second") /\ esi' = 16 * number(eax)
                      \/ /\ eax \notin {32, 35} \cup 9 .. 12 /\ ~is_hexdigit(eax)
                         /\ sys_exit("exit(1)") /\ UNCHANGED esi

item ==
    /\ pc = "item"
    /\ \E result \in results :
          /\ sys_read(result)
          /\ \/ result.eax = 0 /\ sys_exit("exit(0)") /\ UNCHANGED esi
             \/ /\ result.eax # 0
                /\ LET eax == result.temp
                   IN \/ eax \in white_space /\ Goto("item") /\ UNCHANGED esi
                      \/ eax = 35 /\ Goto("discard_comment") /\ UNCHANGED esi
                      \/ is_hexdigit(eax) /\ Goto("second") /\ esi' = 16 * number(eax)
                      \/ /\ eax \notin {35} \cup white_space /\ ~is_hexdigit(eax)
                         /\ sys_exit("exit(1)") /\ UNCHANGED esi

discard_comment ==
    /\ pc = "discard_comment"
    /\ \E result \in results :
          /\ sys_read(result)
          /\ \/ result.eax = 0 /\ sys_exit("exit(0)")
             \/ result.eax # 0 /\ result.temp \in {10, 13} /\ Goto("item")
             \/ result.eax # 0 /\ result.temp \notin {10, 13} /\ Goto("discard_comment")
    /\ UNCHANGED esi

(* Mutant: white space between the digits of a pair is skipped.            *)
second_after_space ==
    /\ pc = "second"
    /\ \E result \in results :
          /\ sys_read(result)
          /\ \/ result.eax # 0 /\ is_hexdigit(result.temp) /\ Goto("write")
             \/ result.eax # 0 /\ result.temp \in white_space /\ Goto("second")
             \/ /\ result.eax = 0 \/ result.temp \notin white_space
                /\ result.eax = 0 \/ ~is_hexdigit(result.temp)
                /\ sys_exit("exit(1)")
    /\ UNCHANGED esi

second ==
    /\ pc = "second"
    /\ \E result \in results :
          /\ sys_read(result)
          /\ \/ result.eax # 0 /\ is_hexdigit(result.temp) /\ Goto("write")
             \/ (result.eax = 0 \/ ~is_hexdigit(result.temp)) /\ sys_exit("exit(1)")
    /\ UNCHANGED esi

(* c2_valid: the byte goes to temp and from there to standard output.      *)
write ==
    /\ exit = "running"
    /\ pc = "write"
    /\ temp' = esi + number(temp)
    /\ output' = Append(output, temp')
    /\ pc' = "item"
    /\ UNCHANGED <<input, position, failures, esi, exit>>

-----------------------------------------------------------------------------
Start ==
    /\ position = 0
    /\ failures = 0
    /\ pc = "item"
    /\ temp = 255
    /\ esi = 0
    /\ output = <<>>
    /\ exit = "running"

Init == input \in Input /\ Start

Next == item \/ discard_comment \/ second \/ write

(* Standard input is a file or a pipe whose writer ends: a read returns.   *)
Spec == Init /\ [][Next]_vars /\ WF_vars(Next)

-----------------------------------------------------------------------------
(* As long as every read succeeds the program is a HEX compiler for files  *)
(* with the white space that its header names, in which a carriage return  *)
(* ends a comment.                                                         *)
Hex == INSTANCE HexFile WITH Blank <- white_space, CommentEnd <- {10, 13},
                             failed <- failures > 0

ImplementsHex == Hex!Spec

(* Whatever reads fail, the program only writes bytes that the file asks   *)
(* for.                                                                    *)
OutputSound == IsPrefix(output, Hex!Meaning[input].bytes)
=============================================================================
