------------------------------ MODULE Label2HexC ------------------------------
(***************************************************************************)
(* The LABEL compiler in C, src/src/label2hex_c/label2hex.c: it reads the  *)
(* whole file into HEAP, collects the labels behind it and blanks their    *)
(* definitions, then writes the file with the names replaced.  One action  *)
(* is one round of the main loop of a phase.                               *)
(*                                                                         *)
(* Addresses are counted from 1 at HEAP.  A label is a struct of four      *)
(* bytes of address and NameSize bytes of name; what the program finds     *)
(* when it reads behind its input is those structs (heap_byte).            *)
(***************************************************************************)
EXTENDS LabelFile

CONSTANTS Input,     \* the files on standard input
          NameSize,  \* bytes in the name of a label: 16
          HeapSize   \* bytes of HEAP: 10 MiB

VARIABLES input, read,  \* the file, and how much of it was read
          pc,           \* "read_input", "comment", "read_labels", "write_output"
          buffer,       \* from input_begin to input_end
          labels,       \* the labels found so far
          location,     \* bytes of output in front of it
          it,           \* the next character of the buffer
          output, exit

vars == <<input, read, pc, buffer, labels, location, it, output, exit>>

(* Mutant: no carriage return, as in the grammar.                          *)
is_space_without_cr(c) == c \in {32, 9, 10}

is_space(c) == c \in {32, 9, 13, 10}
is_hexdigit(c) == c \in 48 .. 57 \cup 65 .. 70
is_id_start(c) == c \in 97 .. 122
is_id_cont(c) == is_id_start(c) \/ c \in 48 .. 57 \/ c = 95

(* getchar of the program returns a char, which is signed: bytes from 0x80 *)
(* on are negative, like the -1 of a read that did not return a byte.      *)
getchar ==
    IF read = Len(input) THEN -1
    ELSE IF input[read + 1] < 128 THEN input[read + 1] ELSE input[read + 1] - 256

read_byte(i) == IF i \in DOMAIN buffer THEN buffer[i] ELSE -1

label_size == 4 + NameSize
aligned(n) == 4 * ((n + 3) \div 4)
labels_begin == aligned(Len(buffer))

(* Mutant: looks at the end of the last label, not of the next one.        *)
no_room_behind == labels_begin + label_size * Len(labels) > HeapSize

no_room == labels_begin + label_size * (Len(labels) + 1) > HeapSize

Exit(code) == exit' = code /\ UNCHANGED <<input, read, pc, buffer, labels, location, it, output>>

-----------------------------------------------------------------------------
(* Phase 1: read_input.  A comment becomes a blank.                        *)

Receive == read' = IF read = Len(input) THEN read ELSE read + 1

ReadInput ==
    /\ exit = "running"
    /\ pc = "read_input"
    /\ \/ Len(buffer) >= HeapSize /\ Exit("exit(1)")
       \/ /\ Len(buffer) < HeapSize
          /\ Receive
          /\ pc' = IF getchar < 0 THEN "read_labels"
                   ELSE IF getchar = 35 THEN "comment" ELSE pc
          /\ buffer' = IF getchar < 0 \/ getchar = 35 THEN buffer
                       ELSE Append(buffer, getchar)
          /\ UNCHANGED <<input, labels, location, it, output, exit>>

ReadComment ==
    /\ exit = "running"
    /\ pc = "comment"
    /\ Receive
    /\ IF getchar < 0 \/ getchar \in {13, 10}
       THEN pc' = "read_input" /\ buffer' = Append(buffer, 32)
       ELSE UNCHANGED <<pc, buffer>>
    /\ UNCHANGED <<input, labels, location, it, output, exit>>

-----------------------------------------------------------------------------
(* Phase 2: read_labels.                                                   *)

Labelling(it2, location2) ==
    /\ it' = it2
    /\ location' = location2
    /\ UNCHANGED <<input, read, pc, output, exit>>

ReadingLabels == exit = "running" /\ pc = "read_labels" /\ it <= Len(buffer)

(* Mutant: stays at the blank.                                             *)
LabelsSpaceStays ==
    /\ ReadingLabels
    /\ is_space(buffer[it])
    /\ Labelling(it, location)
    /\ UNCHANGED <<buffer, labels>>

LabelsSpace ==
    /\ ReadingLabels
    /\ is_space(buffer[it])
    /\ Labelling(it + 1, location)
    /\ UNCHANGED <<buffer, labels>>

(* The second digit is skipped, whatever it is.                            *)
LabelsHexdigit ==
    /\ ReadingLabels
    /\ is_hexdigit(buffer[it])
    /\ Labelling(it + 2, location + 1)
    /\ UNCHANGED <<buffer, labels>>

(* The first position from i on that does not continue an identifier.      *)
after_identifier(i) ==
    CHOOSE j \in i .. Len(buffer) + 1 :
        ~is_id_cont(read_byte(j)) /\ \A k \in i .. j - 1 : is_id_cont(buffer[k])

LabelsInsertion ==
    /\ ReadingLabels
    /\ is_id_start(buffer[it])
    /\ Labelling(after_identifier(it), location + 4)
    /\ UNCHANGED <<buffer, labels>>

(* The name of a struct: unused bytes are zero.                            *)
name_field(s) == [i \in 1 .. NameSize |-> IF i \in DOMAIN s THEN s[i] ELSE 0]

(* Mutant: the definition keeps its colon.                                 *)
LabelsDefinitionKeepsColon ==
    /\ ReadingLabels
    /\ buffer[it] = 46
    /\ LET colon == after_identifier(it + 1)
           name == SubSeq(buffer, it + 1, colon - 1)
       IN \/ /\ ~no_room
             /\ is_id_start(read_byte(it + 1))
             /\ Len(name) < NameSize
             /\ read_byte(colon) = 58
             /\ labels' = Append(labels, [address |-> HEAD + location,
                                          name |-> name_field(name)])
             /\ buffer' = [i \in DOMAIN buffer |->
                              IF i \in it .. colon - 1 THEN 32 ELSE buffer[i]]
             /\ Labelling(colon + 1, location)
          \/ /\ \/ no_room
                \/ ~is_id_start(read_byte(it + 1))
                \/ Len(name) >= NameSize
                \/ read_byte(colon) # 58
             /\ Exit("exit(1)")

(* The loop over the name ends behind its last byte, at a character of the *)
(* name, when the name fills the struct: that character is no ':'.         *)
LabelsDefinition ==
    /\ ReadingLabels
    /\ buffer[it] = 46
    /\ LET colon == after_identifier(it + 1)
           name == SubSeq(buffer, it + 1, colon - 1)
       IN \/ /\ ~no_room
             /\ is_id_start(read_byte(it + 1))
             /\ Len(name) < NameSize
             /\ read_byte(colon) = 58
             /\ labels' = Append(labels, [address |-> HEAD + location,
                                          name |-> name_field(name)])
             /\ buffer' = [i \in DOMAIN buffer |->
                              IF i \in it .. colon THEN 32 ELSE buffer[i]]
             /\ Labelling(colon + 1, location)
          \/ /\ \/ no_room
                \/ ~is_id_start(read_byte(it + 1))
                \/ Len(name) >= NameSize
                \/ read_byte(colon) # 58
             /\ Exit("exit(1)")

LabelsOther ==
    /\ ReadingLabels
    /\ LET c == buffer[it]
       IN ~is_space(c) /\ ~is_hexdigit(c) /\ ~is_id_start(c) /\ c # 46
    /\ Exit("exit(1)")

(* Mutant: "size" is added without a look at the room for it.              *)
LabelsEndUnchecked ==
    /\ exit = "running"
    /\ pc = "read_labels"
    /\ it > Len(buffer)
    /\ labels' = Append(labels, [address |-> location, name |-> name_field(Size)])
    /\ pc' = "write_output"
    /\ it' = 1
    /\ UNCHANGED <<input, read, buffer, location, output, exit>>

LabelsEnd ==
    /\ exit = "running"
    /\ pc = "read_labels"
    /\ it > Len(buffer)
    /\ \/ no_room /\ Exit("exit(1)")
       \/ /\ ~no_room
          /\ labels' = Append(labels, [address |-> location, name |-> name_field(Size)])
          /\ pc' = "write_output"
          /\ it' = 1
          /\ UNCHANGED <<input, read, buffer, location, output, exit>>

-----------------------------------------------------------------------------
(* Phase 3: write_output.                                                  *)

struct_bytes(label) == LittleEndian(label.address) \o label.name

(* A byte of HEAP, of which what was never written is zero.                *)
heap_byte(i) ==
    LET n == (i - labels_begin - 1) \div label_size + 1
        k == ((i - labels_begin - 1) % label_size) + 1
    IN IF i <= Len(buffer) THEN buffer[i]
       ELSE IF i <= labels_begin \/ n > Len(labels) THEN 0
       ELSE struct_bytes(labels[n])[k]

(* The number of characters at i that make up the label, or 0.             *)
name_length(name) ==
    IF \E i \in 1 .. NameSize : name[i] = 0
    THEN Min({i \in 1 .. NameSize : name[i] = 0}) - 1 ELSE NameSize

correct_label(label, i) ==
    LET n == name_length(label.name)
    IN IF \A k \in 1 .. n : label.name[k] = heap_byte(i + k - 1) THEN n ELSE 0

nybble(n) == IF n < 10 THEN 48 + n ELSE 65 + n - 10
putbyte(n) == <<nybble(n \div 16), nybble(n % 16)>>
putaddress(n) == FlattenSeq([i \in 1 .. 4 |-> putbyte(LittleEndian(n)[i])])

Writing == exit = "running" /\ pc = "write_output" /\ it <= Len(buffer)

Put(s, length) ==
    /\ output' = output \o s
    /\ it' = it + length
    /\ UNCHANGED <<input, read, pc, buffer, labels, location, exit>>

(* The first label that the text at it begins with.                        *)
WriteLabel ==
    /\ Writing
    /\ is_id_start(buffer[it])
    /\ LET found == {n \in DOMAIN labels : correct_label(labels[n], it) # 0}
       IN \/ found = {} /\ Exit("exit(1)")
          \/ /\ found # {}
             /\ LET label == labels[Min(found)]
                IN Put(putaddress(label.address), correct_label(label, it))

WriteChar ==
    /\ Writing
    /\ ~is_id_start(buffer[it])
    /\ Put(<<buffer[it]>>, 1)

WriteEnd ==
    /\ exit = "running"
    /\ pc = "write_output"
    /\ it > Len(buffer)
    /\ Exit("exit(0)")

-----------------------------------------------------------------------------
Init ==
    /\ input \in Input
    /\ read = 0
    /\ pc = "read_input"
    /\ buffer = <<>>
    /\ labels = <<>>
    /\ location = 0
    /\ it = 1
    /\ output = <<>>
    /\ exit = "running"

Next ==
    \/ ReadInput
    \/ ReadComment
    \/ LabelsSpace
    \/ LabelsHexdigit
    \/ LabelsInsertion
    \/ LabelsDefinition
    \/ LabelsOther
    \/ LabelsEnd
    \/ WriteLabel
    \/ WriteChar
    \/ WriteEnd

(* Standard input is a file or a pipe whose writer ends: a read returns.   *)
Spec == Init /\ [][Next]_vars /\ WF_vars(Next)
-----------------------------------------------------------------------------
(* Nothing is written behind HEAP.                                         *)
HeapBound ==
    /\ Len(buffer) <= HeapSize
    /\ labels # <<>> => labels_begin + label_size * Len(labels) <= HeapSize

(* A name is compared with as many bytes from it on, also where the file   *)
(* ends before: they are always on HEAP.                                   *)
ComparesOnHeap ==
    exit = "running" /\ pc = "write_output" /\ it <= Len(buffer)
        => it + NameSize - 1 <= HeapSize

(* What the program promises for a file: the HEX file that it writes holds *)
(* the bytes that the LABEL file stands for, by the first declarations.    *)
Hex == INSTANCE HexFile WITH Blank <- {32, 9, 13, 10}, CommentEnd <- {10},
                             failed <- FALSE

Compiled ==
    exit = "exit(0)" /\ Hex!Accepted(output) /\ Hex!Bytes(output) = Layout(Tokens(input), Min)

(* There is room for the file and its labels, wherever the alignment falls. *)
Fits(s) ==
    LET ts == Tokens(s)
        declarations == {i \in DOMAIN ts : ts[i].kind = "declaration"}
    IN Len(s) + 3 + label_size * (Cardinality(declarations) + 1) <= HeapSize

(* Carriage returns end comments, though not in the grammar.               *)
NoReturn(s) == 13 \notin ToSet(s)

Ascii(s) == \A i \in DOMAIN s : s[i] < 128

(* A file for which there is room, with names that leave a byte of their   *)
(* field free.                                                             *)
Small(s) == Fits(s) /\ NamesShorterThan(Tokens(s), NameSize)

(* A use of a label is not the beginning of another one's in the table.    *)
Translatable ==
    /\ Lexes(Tokens(input)) /\ Resolved(Tokens(input))
    /\ LongerFirst(Tokens(input)) /\ NoReturn(input)

(* The lengths counted in one pass and the characters written in another   *)
(* agree: a file is compiled to exactly the bytes that it stands for,      *)
(* every address included, also if a name begins another one or is         *)
(* declared twice; what is too big is rejected, and never compiled wrong.  *)
CompilesLabels ==
    exit # "running" /\ Translatable /\ Ascii(input)
        => Compiled \/ (exit = "exit(1)" /\ ~Small(input))

(* label2hex.c: "no need to check validity of second hex digit, this will  *)
(* be caught in `hex2bin`".                                                *)
CaughtLater ==
    exit = "exit(0)" /\ Hex!Accepted(output) /\ Ascii(input) /\ NoReturn(input)
        => Lexes(Tokens(input))

(* labels.label2hex.yaml: "comments should disappear".                     *)
CommentsDisappear ==
    exit # "running" /\ Translatable /\ Small(input) => Compiled
=============================================================================
