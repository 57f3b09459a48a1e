---------------------------- MODULE LabelCompilers ----------------------------
(***************************************************************************)
(* The two LABEL compilers, of which the tool chain may use either: the    *)
(* tests of src/tests/*.label2hex.yaml are the same for both.  They read   *)
(* the same file.  As they share nothing else, the one in C runs first.    *)
(***************************************************************************)
EXTENDS LabelFile

CONSTANTS Input,               \* the files
          NameSize, HeapSize,  \* of the program in C
          MaxName, PastEnd     \* of the program in C++

ASSUME InputAssumption == Input \subseteq Seq(0 .. 255)
ASSUME LabelAssumption ==
    /\ NameSize \in Nat /\ NameSize > 4 /\ NameSize % 4 = 0
    /\ HeapSize \in Nat /\ MaxName \in Nat \ {0}
    /\ PastEnd # {} /\ PastEnd \subseteq 0 .. 255

VARIABLES input,
          c_read, c_pc, c_buffer, c_labels, c_location, c_it, c_output, c_exit,
          cpp_read, cpp_pc, cpp_buffer, cpp_labels, cpp_location, cpp_it,
          last_char_was_space, cpp_output, cpp_exit

cvars == <<c_read, c_pc, c_buffer, c_labels, c_location, c_it, c_output, c_exit>>
cppvars == <<cpp_read, cpp_pc, cpp_buffer, cpp_labels, cpp_location, cpp_it,
             last_char_was_space, cpp_output, cpp_exit>>
vars == <<input, cvars, cppvars>>

C == INSTANCE Label2HexC WITH
    read <- c_read, pc <- c_pc, buffer <- c_buffer, labels <- c_labels,
    location <- c_location, it <- c_it, output <- c_output, exit <- c_exit

Cpp == INSTANCE Label2HexCpp WITH
    read <- cpp_read, pc <- cpp_pc, buffer <- cpp_buffer, labels <- cpp_labels,
    location <- cpp_location, it <- cpp_it, output <- cpp_output, exit <- cpp_exit

Init == C!Init /\ Cpp!Start

label2hex_c == C!Next /\ UNCHANGED cppvars

label2hex_cpp ==
    /\ c_exit # "running"
    /\ Cpp!Next
    /\ UNCHANGED cvars

Next == label2hex_c \/ label2hex_cpp

(* Standard input is a file or a pipe whose writer ends: a read returns.   *)
Spec == Init /\ [][Next]_vars /\ WF_vars(Next)

-----------------------------------------------------------------------------
(* The program in C writes nothing behind HEAP, with as many labels as     *)
(* there is room for.                                                      *)
HeapBound == C!HeapBound

(* Nor does it read behind HEAP what it compares with the name of a label. *)
ComparesOnHeap == C!ComparesOnHeap

(* When both have ended: the lengths that read_labels counts and the       *)
(* characters that write_output writes agree, in C ...                     *)
CompilesLabels == cpp_exit # "running" => C!CompilesLabels

(* ... and in C++.                                                         *)
CompilesLabelsCpp == Cpp!CompilesLabels

(* The program in C++ finds every use of an undefined label, also of one   *)
(* that a defined label begins.                                            *)
RejectsUndefined == Cpp!RejectsUndefined

(* Names that the struct of the program in C holds, none of which begins   *)
(* with another one.                                                       *)
Telling(names) ==
    \A m \in names : Len(m) < NameSize /\ \A n \in names : IsPrefix(m, n) => m = n

(* There is room on the heap for the file and all its definitions.         *)
Roomy(s) ==
    LET definitions == {i \in DOMAIN s : s[i] = 46}
    IN Len(s) + 3 + C!label_size * (Cardinality(definitions) + 1) <= HeapSize

Unspaced(s) == SelectSeq(s, LAMBDA c : c # 32)

(* Either program may stand for the other: a file that the one in C++      *)
(* compiles, even one that is not a LABEL file, the one in C compiles to   *)
(* the same text, but for blanks and labels that are defined twice.        *)
Interchangeable ==
    cpp_exit = "exit(0)" /\ C!Ascii(input) /\ Roomy(input) /\ Telling(DOMAIN cpp_labels)
        => /\ c_exit = "exit(0)"
           /\ Len(c_labels) = Cardinality(DOMAIN cpp_labels)
                => Unspaced(c_output) = Unspaced(cpp_output)

(* Both programs end, whatever they read.                                  *)
Ends == <>(c_exit # "running") /\ <>(cpp_exit # "running")
=============================================================================
