----------------------------- MODULE Label2HexCpp -----------------------------
(***************************************************************************)
(* The LABEL compiler in C++, src/src/label2hex_cpp/label2hex.cpp.  One    *)
(* action is one round of the main loop of a function.  Positions in the   *)
(* vector are counted from 1; labels is a map from names to addresses.     *)
(* write_output reads the byte behind the vector when the file ends in an  *)
(* identifier: that byte is any of PastEnd, and when it continues the      *)
(* identifier the program goes on behind the vector for good.              *)
(***************************************************************************)
EXTENDS LabelFile

CONSTANTS Input,    \* the files on standard input
          MaxName,  \* the longest name: 16
          PastEnd   \* what the memory behind the vector may hold

VARIABLES input, read,  \* the file, and how much of it was read
          pc,           \* "read_input", "comment", "read_labels", "write_output"
          buffer,       \* the vector input of the program
          labels, location,
          it,           \* the next character of the vector
          last_char_was_space,
          output, exit

vars == <<input, read, pc, buffer, labels, location, it, last_char_was_space,
          output, exit>>

is_space(c) == c \in {32, 9, 13, 10}
is_hexdigit(c) == c \in 48 .. 57 \cup 65 .. 70
is_id_start(c) == c \in 97 .. 122
is_id_cont(c) == is_id_start(c) \/ c \in 48 .. 57 \/ c = 95

getchar == IF read = Len(input) THEN -1 ELSE input[read + 1]
read_byte(i) == IF i \in DOMAIN buffer THEN buffer[i] ELSE -1

Exit(code) ==
    /\ exit' = code
    /\ UNCHANGED <<input, read, pc, buffer, labels, location, it,
                   last_char_was_space, output>>

-----------------------------------------------------------------------------
(* read_input: a comment becomes a blank.                                  *)
Receive == read' = IF read = Len(input) THEN read ELSE read + 1

ReadInput ==
    /\ exit = "running"
    /\ pc = "read_input"
    /\ Receive
    /\ pc' = IF getchar < 0 THEN "read_labels" ELSE IF getchar = 35 THEN "comment" ELSE pc
    /\ buffer' = IF getchar < 0 THEN buffer
                 ELSE Append(buffer, IF getchar = 35 THEN 32 ELSE getchar)
    /\ UNCHANGED <<input, labels, location, it, last_char_was_space, output, exit>>

ReadComment ==
    /\ exit = "running"
    /\ pc = "comment"
    /\ Receive
    /\ pc' = IF getchar < 0 \/ getchar \in {13, 10} THEN "read_input" ELSE pc
    /\ UNCHANGED <<input, buffer, labels, location, it, last_char_was_space, output, exit>>

-----------------------------------------------------------------------------
(* read_labels.                                                            *)
Labelling(it2, location2) ==
    /\ it' = it2
    /\ location' = location2
    /\ UNCHANGED <<input, read, pc, last_char_was_space, output, exit>>

ReadingLabels == exit = "running" /\ pc = "read_labels" /\ it <= Len(buffer)

LabelsSpace ==
    /\ ReadingLabels
    /\ is_space(buffer[it])
    /\ Labelling(it + 1, location)
    /\ UNCHANGED <<buffer, labels>>

(* The second digit is skipped, whatever it is.                            *)
LabelsHexdigit ==
    /\ ReadingLabels
    /\ is_hexdigit(buffer[it])
    /\ Labelling(it + 2, location + 1)
    /\ UNCHANGED <<buffer, labels>>

(* The first position from i on that does not continue an identifier.      *)
after_identifier(i) ==
    CHOOSE j \in i .. Len(buffer) + 1 :
        ~is_id_cont(read_byte(j)) /\ \A k \in i .. j - 1 : is_id_cont(buffer[k])

(* Mutant: a name takes one byte of the output.                            *)
LabelsInsertionOne ==
    /\ ReadingLabels
    /\ is_id_start(buffer[it])
    /\ Labelling(after_identifier(it), location + 1)
    /\ UNCHANGED <<buffer, labels>>

LabelsInsertion ==
    /\ ReadingLabels
    /\ is_id_start(buffer[it])
    /\ Labelling(after_identifier(it), location + 4)
    /\ UNCHANGED <<buffer, labels>>

Bind(map, name, value) ==
    [n \in DOMAIN map \cup {name} |-> IF n = name THEN value ELSE map[n]]

LabelsDefinition ==
    /\ ReadingLabels
    /\ buffer[it] = 46
    /\ LET colon == after_identifier(it + 1)
           name == SubSeq(buffer, it + 1, colon - 1)
           valid == /\ is_id_start(read_byte(it + 1))
                    /\ Len(name) <= MaxName
                    /\ read_byte(colon) = 58
       IN \/ /\ valid
             /\ labels' = Bind(labels, name, HEAD + location)
             /\ buffer' = [i \in DOMAIN buffer |->
                              IF i \in it .. colon THEN 32 ELSE buffer[i]]
             /\ Labelling(colon + 1, location)
          \/ ~valid /\ Exit("exit(1)")

LabelsOther ==
    /\ ReadingLabels
    /\ LET c == buffer[it]
       IN ~is_space(c) /\ ~is_hexdigit(c) /\ ~is_id_start(c) /\ c # 46
    /\ Exit("exit(1)")

LabelsEnd ==
    /\ exit = "running"
    /\ pc = "read_labels"
    /\ it > Len(buffer)
    /\ labels' = IF Size \in DOMAIN labels THEN labels ELSE Bind(labels, Size, location)
    /\ pc' = "write_output"
    /\ it' = 1
    /\ UNCHANGED <<input, read, buffer, location, last_char_was_space, output, exit>>

-----------------------------------------------------------------------------
(* write_output: of blanks that follow each other only the first is kept.  *)
write_hex(n) ==
    LET nybble(k) == IF k < 10 THEN 48 + k ELSE 65 + k - 10
    IN FlattenSeq([i \in 1 .. 4 |-> <<nybble(LittleEndian(n)[i] \div 16),
                                      nybble(LittleEndian(n)[i] % 16)>>])

Writing == exit = "running" /\ pc = "write_output" /\ it <= Len(buffer)

Put(s, it2, space) ==
    /\ output' = output \o s
    /\ it' = it2
    /\ last_char_was_space' = space
    /\ UNCHANGED <<input, read, pc, buffer, labels, location, exit>>

(* Mutant: labels[label] instead of labels.at(label) and no test before.   *)
WriteLabelUnknownIsZero ==
    /\ Writing
    /\ is_id_start(buffer[it])
    /\ LET end == after_identifier(it)
           name == SubSeq(buffer, it, end - 1)
       IN Put(write_hex(IF name \in DOMAIN labels THEN labels[name] ELSE 0), end, FALSE)

WriteLabel ==
    /\ Writing
    /\ is_id_start(buffer[it])
    /\ LET end == after_identifier(it)
           name == SubSeq(buffer, it, end - 1)
       IN \/ /\ end > Len(buffer)
             /\ \E c \in PastEnd : is_id_cont(c)
             /\ Exit("undefined")
          \/ /\ end > Len(buffer) => \E c \in PastEnd : ~is_id_cont(c)
             /\ \/ name \notin DOMAIN labels /\ Exit("exit(1)")
                \/ /\ name \in DOMAIN labels
                   /\ Put(write_hex(labels[name]), end, FALSE)

WriteChar ==
    /\ Writing
    /\ ~is_id_start(buffer[it])
    /\ LET c == buffer[it]
       IN Put(IF last_char_was_space /\ c = 32 THEN <<>> ELSE <<c>>, it + 1, is_space(c))

WriteEnd ==
    /\ exit = "running"
    /\ pc = "write_output"
    /\ it > Len(buffer)
    /\ Exit("exit(0)")

-----------------------------------------------------------------------------
Start ==
    /\ read = 0
    /\ pc = "read_input"
    /\ buffer = <<>>
    /\ labels = [n \in {} |-> 0]
    /\ location = 0
    /\ it = 1
    /\ last_char_was_space = TRUE
    /\ output = <<>>
    /\ exit = "running"

Init == input \in Input /\ Start

Next ==
    \/ ReadInput
    \/ ReadComment
    \/ LabelsSpace
    \/ LabelsHexdigit
    \/ LabelsInsertion
    \/ LabelsDefinition
    \/ LabelsOther
    \/ LabelsEnd
    \/ WriteLabel
    \/ WriteChar
    \/ WriteEnd

Spec == Init /\ [][Next]_vars

-----------------------------------------------------------------------------
Hex == INSTANCE HexFile WITH Blank <- {32, 9, 13, 10}, CommentEnd <- {10},
                             failed <- FALSE

Compiled ==
    exit = "exit(0)" /\ Hex!Accepted(output) /\ Hex!Bytes(output) = Layout(Tokens(input), Max)

(* Carriage returns end comments, though not in the grammar.               *)
NoReturn(s) == 13 \notin ToSet(s)

EndsInIdentifier(s) == s # <<>> /\ is_id_cont(Last(s))

(* The lengths counted in one pass and the characters written in another   *)
(* agree: a file is compiled to exactly the bytes that it stands for,      *)
(* every address included, with the last declaration of a name that has    *)
(* several, and rejected if a name is too long, unless its last character  *)
(* belongs to an identifier.                                               *)
CompilesLabels ==
    exit # "running" /\ Lexes(Tokens(input)) /\ Resolved(Tokens(input)) /\ NoReturn(input)
        => \/ Compiled
           \/ exit = "exit(1)" /\ ~NamesShorterThan(Tokens(input), MaxName + 1)
           \/ exit = "undefined" /\ EndsInIdentifier(input)

(* A use of a label that is not defined is an error, also where a defined  *)
(* label begins the name or the name begins a defined label.               *)
RejectsUndefined ==
    exit = "exit(0)" /\ Lexes(Tokens(input)) /\ NoReturn(input) => Resolved(Tokens(input))
=============================================================================
