------------------------- MODULE LabelCompilersProofs -------------------------
(***************************************************************************)
(* Proofs about LabelCompilers, for all files, heaps and lengths of names: *)
(* what the program in C keeps behind its input stays on the heap.         *)
(***************************************************************************)
EXTENDS LabelCompilers, TLAPS

Text == INSTANCE HexTextProofs WITH Blank <- {32, 9, 13, 10}, CommentEnd <- {10}

-----------------------------------------------------------------------------
(* The inductive invariant.  Only characters below 0x80 get into the       *)
(* buffer, and names consist of them.                                      *)
Character == 0 .. 127
Label == [address : Nat, name : [1 .. NameSize -> Character]]

Reading == c_pc \in {"read_input", "comment"}

CTypeOK ==
    /\ input \in Input
    /\ c_read \in 0 .. Len(input)
    /\ c_pc \in {"read_input", "comment", "read_labels", "write_output"}
    /\ c_buffer \in Seq(Character)
    /\ c_labels \in Seq(Label)
    /\ c_location \in Nat
    /\ c_it \in Nat \ {0}
    /\ c_pc # "write_output" => c_it <= Len(c_buffer) + 2

(* While the file is read there are no labels, and at the end of a comment *)
(* there is room for the blank; before the file is written there is "size".*)
OnHeap ==
    /\ Len(c_buffer) <= HeapSize
    /\ c_pc = "comment" => Len(c_buffer) < HeapSize
    /\ Reading => c_labels = <<>>
    /\ c_pc = "write_output" => c_labels # <<>>
    /\ c_labels # <<>> => C!labels_begin + C!label_size * Len(c_labels) <= HeapSize

Inv == CTypeOK /\ OnHeap

-----------------------------------------------------------------------------
LEMMA Lengths ==
    ASSUME NEW S, NEW s \in Seq(S)
    PROVE  /\ Len(s) \in Nat
           /\ \A i \in 1 .. Len(s) : s[i] \in S
           /\ \A x \in S : Append(s, x) \in Seq(S)
           /\ \A x : Len(Append(s, x)) = Len(s) + 1
  OBVIOUS

LEMMA LabelSize ==
    /\ C!label_size \in Nat
    /\ C!label_size > NameSize
  BY LabelAssumption DEF C!label_size

LEMMA Product ==
    ASSUME NEW m \in Nat, NEW n \in Nat
    PROVE  m * n \in Nat /\ (n > 0 => m * n >= m)
  OBVIOUS

LEMMA LabelsBegin ==
    ASSUME CTypeOK
    PROVE  C!labels_begin \in Nat /\ C!labels_begin >= Len(c_buffer)
  BY Lengths DEF CTypeOK, C!labels_begin, C!aligned

LEMMA AfterIdentifier ==
    ASSUME CTypeOK, NEW i \in 1 .. Len(c_buffer) + 1
    PROVE  /\ C!after_identifier(i) \in i .. Len(c_buffer) + 1
           /\ ~C!is_id_cont(C!read_byte(C!after_identifier(i)))
           /\ \A k \in i .. C!after_identifier(i) - 1 : C!is_id_cont(c_buffer[k])
  <1> DEFINE E == Len(c_buffer) + 1
             T == {j \in i .. E : ~C!is_id_cont(C!read_byte(j))}
             Terminator(j) == /\ ~C!is_id_cont(C!read_byte(j))
                              /\ \A k \in i .. j - 1 : C!is_id_cont(c_buffer[k])
  <1>1. Len(c_buffer) \in Nat /\ DOMAIN c_buffer = 1 .. Len(c_buffer)
    BY Lengths DEF CTypeOK
  <1>2. E \in T /\ T \in SUBSET Nat
    <2>1. C!read_byte(E) = -1
      BY <1>1 DEF C!read_byte
    <2>2. ~C!is_id_cont(-1)
      BY DEF C!is_id_cont, C!is_id_start
    <2> QED
      BY <1>1, <2>1, <2>2
  <1>3. PICK j \in T : \A k \in T : j <= k
    BY <1>2, Text!Least
  <1>4. j \in i .. E /\ Terminator(j)
    <2>1. ASSUME NEW k \in i .. j - 1
          PROVE  C!is_id_cont(c_buffer[k])
      <3>1. k \in i .. E /\ k \notin T /\ k \in DOMAIN c_buffer
        BY <1>1, <1>3
      <3> QED
        BY <3>1 DEF C!read_byte
    <2> QED
      BY <2>1
  <1>5. C!after_identifier(i) = CHOOSE n \in i .. E : Terminator(n)
    BY DEF C!after_identifier
  <1> HIDE DEF E, T, Terminator
  <1>6. C!after_identifier(i) \in i .. E /\ Terminator(C!after_identifier(i))
    BY <1>4, <1>5
  <1> QED
    BY <1>6 DEF Terminator, E

LEMMA NameField ==
    ASSUME NEW s, \A i \in DOMAIN s : s[i] \in Character
    PROVE  C!name_field(s) \in [1 .. NameSize -> Character]
  <1>1. 0 \in Character
    BY DEF Character
  <1> QED
    BY <1>1 DEF C!name_field

LEMMA Getchar ==
    ASSUME CTypeOK
    PROVE  C!getchar \in Int /\ (C!getchar >= 0 => C!getchar \in Character)
  <1> DEFINE c == input[c_read + 1]
  <1>1. CASE c_read = Len(input)
    BY <1>1 DEF C!getchar
  <1>2. CASE c_read # Len(input)
    <2>1. input \in Seq(0 .. 255) /\ Len(input) \in Nat /\ c_read \in 0 .. Len(input)
      BY Lengths, InputAssumption DEF CTypeOK
    <2>2. c_read + 1 \in 1 .. Len(input)
      BY <1>2, <2>1
    <2>3. c \in 0 .. 255
      BY <2>1, <2>2, Lengths
    <2>4. C!getchar = IF c < 128 THEN c ELSE c - 256
      BY <1>2 DEF C!getchar
    <2> HIDE DEF c
    <2> QED
      BY <2>3, <2>4 DEF Character
  <1> QED
    BY <1>1, <1>2

LEMMA Initial == Init => Inv
  BY InputAssumption, LabelAssumption DEF Init, C!Init, Inv, CTypeOK, OnHeap

LEMMA ReadInput ==
    ASSUME Inv, C!ReadInput
    PROVE  Inv'
  <1>1. c_exit = "running" /\ c_pc = "read_input" /\ c_labels = <<>>
    BY DEF C!ReadInput, Inv, OnHeap, Reading
  <1>2. /\ c_buffer \in Seq(Character) /\ Len(c_buffer) \in Nat
        /\ input \in Seq(0 .. 255) /\ Len(input) \in Nat /\ c_read \in 0 .. Len(input)
    BY Lengths, InputAssumption DEF Inv, CTypeOK
  <1>3. CASE C!Exit("exit(1)")
    BY <1>3 DEF C!Exit, Inv, CTypeOK, OnHeap, Reading, C!labels_begin, C!aligned
  <1>4. CASE /\ Len(c_buffer) < HeapSize
             /\ C!Receive
             /\ c_pc' = IF C!getchar < 0 THEN "read_labels"
                        ELSE IF C!getchar = 35 THEN "comment" ELSE c_pc
             /\ c_buffer' = IF C!getchar < 0 \/ C!getchar = 35 THEN c_buffer
                            ELSE Append(c_buffer, C!getchar)
             /\ UNCHANGED <<input, c_labels, c_location, c_it, c_output, c_exit>>
    <2>1. C!getchar \in Int /\ (C!getchar >= 0 => C!getchar \in Character)
      BY Getchar DEF Inv
    <2>2. /\ c_buffer' \in Seq(Character)
          /\ Len(c_buffer') \in {Len(c_buffer), Len(c_buffer) + 1}
          /\ c_pc' = "comment" => c_buffer' = c_buffer
      BY <1>1, <1>2, <1>4, <2>1, Lengths
    <2>3. c_read' \in 0 .. Len(input)
      BY <1>2, <1>4 DEF C!Receive
    <2>4. CTypeOK'
      <3>1. c_pc' \in {"read_input", "comment", "read_labels"}
        BY <1>1, <1>4
      <3>2. c_it' = c_it /\ c_it <= Len(c_buffer') + 2
        BY <1>1, <1>2, <1>4, <2>2 DEF Inv, CTypeOK
      <3> QED
        BY <1>4, <2>2, <2>3, <3>1, <3>2 DEF Inv, CTypeOK
    <2>5. OnHeap'
      <3>1. Len(c_buffer') <= HeapSize /\ (c_pc' = "comment" => Len(c_buffer') < HeapSize)
        BY <1>2, <1>4, <2>2, LabelAssumption
      <3> QED
        BY <1>1, <1>4, <3>1 DEF OnHeap, Reading
    <2> QED
      BY <2>4, <2>5 DEF Inv
  <1> QED
    BY <1>3, <1>4 DEF C!ReadInput

LEMMA ReadComment ==
    ASSUME Inv, C!ReadComment
    PROVE  Inv'
  <1>1. /\ c_pc = "comment" /\ c_labels = <<>> /\ Len(c_buffer) < HeapSize
        /\ \/ c_pc' = "read_input" /\ c_buffer' = Append(c_buffer, 32)
           \/ UNCHANGED <<c_pc, c_buffer>>
        /\ UNCHANGED <<input, c_labels, c_location, c_it>>
    BY DEF C!ReadComment, Inv, OnHeap, Reading
  <1>2. /\ c_buffer \in Seq(Character) /\ Len(c_buffer) \in Nat
        /\ Len(input) \in Nat /\ c_read \in 0 .. Len(input)
    BY Lengths, InputAssumption DEF Inv, CTypeOK
  <1>3. c_read' \in 0 .. Len(input)
    BY <1>2 DEF C!ReadComment, C!Receive
  <1>4. CASE c_pc' = "read_input" /\ c_buffer' = Append(c_buffer, 32)
    <2>1. c_buffer' \in Seq(Character) /\ Len(c_buffer') = Len(c_buffer) + 1
      <3>1. 32 \in Character
        BY DEF Character
      <3> QED
        BY <1>2, <1>4, <3>1, Lengths
    <2>2. c_it' = c_it /\ c_it <= Len(c_buffer') + 2
      BY <1>1, <1>2, <2>1 DEF Inv, CTypeOK
    <2>3. Len(c_buffer') <= HeapSize
      BY <1>1, <1>2, <2>1, LabelAssumption
    <2> QED
      BY <1>1, <1>3, <1>4, <2>1, <2>2, <2>3 DEF Inv, CTypeOK, OnHeap, Reading
  <1>5. CASE UNCHANGED <<c_pc, c_buffer>>
    BY <1>1, <1>3, <1>5 DEF Inv, CTypeOK, OnHeap, Reading
  <1> QED
    BY <1>1, <1>4, <1>5

(* What the rounds of read_labels that add no label leave alone.           *)
LEMMA Labels ==
    ASSUME Inv, C!ReadingLabels,
           UNCHANGED <<input, c_read, c_pc, c_buffer, c_labels>>,
           c_location' \in Nat, c_it' \in Nat \ {0}, c_it' <= Len(c_buffer) + 2
    PROVE  Inv'
  BY DEF Inv, CTypeOK, OnHeap, Reading, C!ReadingLabels, C!labels_begin, C!aligned

LEMMA LabelsRound ==
    ASSUME Inv, C!LabelsSpace \/ C!LabelsHexdigit \/ C!LabelsInsertion
    PROVE  Inv'
  <1>1. /\ C!ReadingLabels /\ c_it \in 1 .. Len(c_buffer) /\ Len(c_buffer) \in Nat
        /\ c_location \in Nat
    BY Lengths DEF C!LabelsSpace, C!LabelsHexdigit, C!LabelsInsertion, C!ReadingLabels, Inv, CTypeOK
  <1>2. C!after_identifier(c_it) \in c_it .. Len(c_buffer) + 1
    BY <1>1, AfterIdentifier DEF Inv
  <1>3. CASE C!LabelsSpace
    BY <1>1, <1>3, Labels DEF C!LabelsSpace, C!Labelling
  <1>4. CASE C!LabelsHexdigit
    BY <1>1, <1>4, Labels DEF C!LabelsHexdigit, C!Labelling
  <1>5. CASE C!LabelsInsertion
    BY <1>1, <1>2, <1>5, Labels DEF C!LabelsInsertion, C!Labelling
  <1> QED
    BY <1>3, <1>4, <1>5

(* One more label, for which there is room.                                *)
LEMMA LabelAdded ==
    ASSUME Inv, c_pc = "read_labels", ~C!no_room, NEW label \in Label,
           c_labels' = Append(c_labels, label),
           c_buffer' \in Seq(Character), Len(c_buffer') = Len(c_buffer),
           UNCHANGED <<input, c_read>>,
           c_pc' \in {"read_labels", "write_output"},
           c_location' \in Nat, c_it' \in Nat \ {0}, c_it' <= Len(c_buffer) + 2
    PROVE  Inv'
  <1>1. c_labels' \in Seq(Label) /\ Len(c_labels') = Len(c_labels) + 1 /\ Len(c_labels) \in Nat
    BY Lengths DEF Inv, CTypeOK
  <1>2. c_labels' # <<>>
    BY <1>1
  <1>3. C!labels_begin' = C!labels_begin
    BY DEF C!labels_begin, C!aligned
  <1>4. C!labels_begin + C!label_size * Len(c_labels') <= HeapSize
    <2>1. C!label_size * (Len(c_labels) + 1) \in Nat
      BY <1>1, LabelSize, Product
    <2>2. C!labels_begin \in Nat
      BY LabelsBegin DEF Inv
    <2>3. ~(C!labels_begin + C!label_size * (Len(c_labels) + 1) > HeapSize)
      BY DEF C!no_room
    <2> QED
      BY <1>1, <2>1, <2>2, <2>3, LabelAssumption
  <1>5. CTypeOK'
    BY <1>1 DEF Inv, CTypeOK
  <1>6. OnHeap'
    BY <1>2, <1>3, <1>4 DEF Inv, OnHeap, Reading, C!label_size
  <1> QED
    BY <1>5, <1>6 DEF Inv

LEMMA Stops ==
    ASSUME Inv, UNCHANGED <<input, c_read, c_pc, c_buffer, c_labels, c_location, c_it>>
    PROVE  Inv'
  BY DEF Inv, CTypeOK, OnHeap, Reading, C!labels_begin, C!aligned

LEMMA LabelsDefinition ==
    ASSUME Inv, C!LabelsDefinition
    PROVE  Inv'
  <1> DEFINE colon == C!after_identifier(c_it + 1)
             name == SubSeq(c_buffer, c_it + 1, colon - 1)
  <1>1. /\ C!ReadingLabels /\ c_it \in 1 .. Len(c_buffer) /\ Len(c_buffer) \in Nat
        /\ c_buffer \in Seq(Character) /\ c_location \in Nat
    BY Lengths DEF C!LabelsDefinition, C!ReadingLabels, Inv, CTypeOK
  <1>2. colon \in c_it + 1 .. Len(c_buffer) + 1
    BY <1>1, AfterIdentifier DEF Inv
  <1>3. CASE C!Exit("exit(1)")
    BY <1>3, Stops DEF C!Exit
  <1>4. CASE /\ ~C!no_room
             /\ c_labels' = Append(c_labels, [address |-> C!HEAD + c_location,
                                              name |-> C!name_field(name)])
             /\ c_buffer' = [i \in DOMAIN c_buffer |->
                                IF i \in c_it .. colon THEN 32 ELSE c_buffer[i]]
             /\ C!Labelling(colon + 1, c_location)
    <2>1. \A i \in DOMAIN name : name[i] \in Character
      <3>1. \A k \in c_it + 1 .. colon - 1 : c_buffer[k] \in Character
        BY <1>1, <1>2, Lengths
      <3>2. DOMAIN name = 1 .. (colon - 1 - c_it)
        BY <1>1, <1>2
      <3>3. \A i \in DOMAIN name : name[i] = c_buffer[i + c_it] /\ i + c_it \in c_it + 1 .. colon - 1
        BY <1>1, <1>2, <3>2
      <3> QED
        BY <3>1, <3>3
    <2>2. [address |-> C!HEAD + c_location, name |-> C!name_field(name)] \in Label
      <3>1. C!name_field(name) \in [1 .. NameSize -> Character]
        BY <2>1, NameField
      <3>2. C!HEAD + c_location \in Nat
        BY <1>1 DEF C!HEAD
      <3> QED
        BY <3>1, <3>2 DEF Label
    <2>3. c_buffer' \in Seq(Character) /\ Len(c_buffer') = Len(c_buffer)
      <3>1. 32 \in Character
        BY DEF Character
      <3>2. \A i \in 1 .. Len(c_buffer) : c_buffer[i] \in Character
        BY <1>1, Lengths
      <3>3. DOMAIN c_buffer = 1 .. Len(c_buffer)
        BY <1>1
      <3>4. c_buffer' \in [1 .. Len(c_buffer) -> Character]
        BY <1>4, <3>1, <3>2, <3>3
      <3> QED
        BY <1>1, <3>4
    <2>4. /\ UNCHANGED <<input, c_read, c_pc, c_location>> /\ c_pc = "read_labels"
          /\ c_it' \in Nat \ {0} /\ c_it' <= Len(c_buffer) + 2
      BY <1>1, <1>2, <1>4 DEF C!Labelling, C!ReadingLabels
    <2> QED
      BY <1>1, <1>4, <2>2, <2>3, <2>4, LabelAdded
  <1> QED
    BY <1>3, <1>4 DEF C!LabelsDefinition

LEMMA LabelsEnd ==
    ASSUME Inv, C!LabelsEnd
    PROVE  Inv'
  <1>1. CASE C!Exit("exit(1)")
    BY <1>1, Stops DEF C!Exit
  <1>2. CASE /\ ~C!no_room
             /\ c_labels' = Append(c_labels, [address |-> c_location,
                                              name |-> C!name_field(C!Size)])
             /\ c_pc' = "write_output"
             /\ c_it' = 1
             /\ UNCHANGED <<input, c_read, c_buffer, c_location, c_output, c_exit>>
    <2>1. \A i \in DOMAIN C!Size : C!Size[i] \in Character
      BY DEF C!Size, Character
    <2>2. [address |-> c_location, name |-> C!name_field(C!Size)] \in Label
      BY <2>1, NameField DEF Label, Inv, CTypeOK
    <2>3. /\ c_buffer' \in Seq(Character) /\ Len(c_buffer) \in Nat /\ c_pc = "read_labels"
          /\ c_location' \in Nat
      BY <1>2, Lengths DEF Inv, CTypeOK, C!LabelsEnd
    <2> QED
      BY <1>2, <2>2, <2>3, LabelAdded
  <1> QED
    BY <1>1, <1>2 DEF C!LabelsEnd

(* What is written does not matter, but that the program goes forward.     *)
LEMMA NameLength ==
    ASSUME NEW label \in Label, NEW i
    PROVE  C!correct_label(label, i) \in Nat
  <1> DEFINE T == {k \in 1 .. NameSize : label.name[k] = 0}
  <1>1. NameSize \in Nat
    BY LabelAssumption
  <1>2. C!name_length(label.name) \in Nat
    <2>1. CASE T = {}
      BY <1>1, <2>1 DEF C!name_length
    <2>2. CASE T # {}
      <3>1. PICK m \in T : \A k \in T : m <= k
        <4>1. T \in SUBSET Nat
          OBVIOUS
        <4> QED
          BY <2>2, <4>1, Text!Least
      <3>2. C!name_length(label.name) = C!Min(T) - 1
        BY <2>2 DEF C!name_length
      <3>3. C!Min(T) \in T
        BY <3>1 DEF C!Min
      <3> QED
        BY <3>2, <3>3
    <2> QED
      BY <2>1, <2>2
  <1> QED
    BY <1>2 DEF C!correct_label

LEMMA WriteOutput ==
    ASSUME Inv, C!WriteLabel \/ C!WriteChar \/ C!WriteEnd
    PROVE  Inv'
  <1>1. c_pc = "write_output" /\ c_it \in Nat \ {0} /\ c_labels \in Seq(Label)
    BY DEF C!WriteLabel, C!WriteChar, C!WriteEnd, C!Writing, Inv, CTypeOK
  <1>2. ASSUME NEW s, NEW length \in Nat, C!Put(s, length)
        PROVE  Inv'
    <2>1. c_it' \in Nat \ {0}
      BY <1>1, <1>2 DEF C!Put
    <2> QED
      BY <1>1, <1>2, <2>1 DEF C!Put, Inv, CTypeOK, OnHeap, Reading, C!labels_begin, C!aligned
  <1>3. ASSUME NEW code, C!Exit(code)
        PROVE  Inv'
    BY <1>3, Stops DEF C!Exit
  <1>4. CASE C!WriteLabel
    <2> DEFINE found == {n \in DOMAIN c_labels : C!correct_label(c_labels[n], c_it) # 0}
    <2>1. CASE found = {}
      BY <1>3, <1>4, <2>1 DEF C!WriteLabel
    <2>2. CASE found # {}
      <3> DEFINE label == c_labels[C!Min(found)]
      <3>1. C!Put(C!putaddress(label.address), C!correct_label(label, c_it))
        BY <1>4, <2>2 DEF C!WriteLabel
      <3>2. label \in Label
        <4>1. found \in SUBSET Nat /\ found \subseteq 1 .. Len(c_labels)
          BY <1>1, Lengths
        <4>2. PICK m \in found : \A k \in found : m <= k
          BY <2>2, <4>1, Text!Least
        <4> HIDE DEF found
        <4>3. C!Min(found) \in found
          BY <4>2 DEF C!Min
        <4> QED
          BY <1>1, <4>1, <4>3, Lengths
      <3> HIDE DEF label
      <3> QED
        BY <1>2, <3>1, <3>2, NameLength
    <2> QED
      BY <2>1, <2>2
  <1>5. CASE C!WriteChar
    BY <1>2, <1>5 DEF C!WriteChar
  <1>6. CASE C!WriteEnd
    BY <1>3, <1>6 DEF C!WriteEnd
  <1> QED
    BY <1>4, <1>5, <1>6

LEMMA Step == Inv /\ [Next]_vars => Inv'
  <1> SUFFICES ASSUME Inv, [Next]_vars
               PROVE  Inv'
    OBVIOUS
  <1>1. CASE label2hex_c
    <2>1. C!LabelsOther => Inv'
      BY Stops DEF C!LabelsOther, C!Exit
    <2> QED
      BY <1>1, <2>1, ReadInput, ReadComment, LabelsRound, LabelsDefinition, LabelsEnd, WriteOutput
      DEF label2hex_c, C!Next
  <1>2. CASE label2hex_cpp \/ UNCHANGED vars
    <2>1. Cpp!Next => input' = input
      BY DEF Cpp!Next, Cpp!ReadInput, Cpp!ReadComment, Cpp!LabelsSpace, Cpp!LabelsHexdigit,
             Cpp!LabelsInsertion, Cpp!LabelsDefinition, Cpp!LabelsOther, Cpp!LabelsEnd,
             Cpp!WriteLabel, Cpp!WriteChar, Cpp!WriteEnd, Cpp!Exit, Cpp!Labelling, Cpp!Put
    <2> QED
      BY <1>2, <2>1, Stops DEF label2hex_cpp, vars, cvars
  <1> QED
    BY <1>1, <1>2 DEF Next

(* The table of labels stays on the heap while it is filled and written.   *)
THEOREM Invariant == Spec => []Inv
  BY Initial, Step, PTL DEF Spec

(* The program in C writes nothing behind HEAP: neither characters of the  *)
(* file nor labels, of which there are as many as fit.                     *)
THEOREM StaysOnHeap == Spec => []HeapBound
  <1>1. Inv => HeapBound
    BY DEF Inv, OnHeap, HeapBound, C!HeapBound
  <1> QED
    BY <1>1, Invariant, PTL

(* Names are only compared with bytes of HEAP: behind the last character   *)
(* of the file there are at least the bytes of one label, "size".          *)
THEOREM ReadsOnHeap == Spec => []ComparesOnHeap
  <1>1. Inv => ComparesOnHeap
    <2> SUFFICES ASSUME Inv, c_pc = "write_output", c_it <= Len(c_buffer)
                 PROVE  c_it + NameSize - 1 <= HeapSize
      BY DEF ComparesOnHeap, C!ComparesOnHeap
    <2>1. Len(c_labels) \in Nat /\ Len(c_labels) > 0 /\ Len(c_buffer) \in Nat /\ c_it \in Nat
      <3>1. c_labels \in Seq(Label) /\ c_labels # <<>>
        BY DEF Inv, CTypeOK, OnHeap
      <3> QED
        BY <3>1, Lengths DEF Inv, CTypeOK
    <2>2. C!label_size * Len(c_labels) \in Nat /\ C!label_size * Len(c_labels) >= C!label_size
      BY <2>1, LabelSize, Product
    <2>3. C!labels_begin + C!label_size * Len(c_labels) <= HeapSize
      BY <2>1 DEF Inv, OnHeap
    <2>4. C!labels_begin \in Nat /\ C!labels_begin >= Len(c_buffer)
      BY LabelsBegin DEF Inv
    <2> QED
      BY <2>1, <2>2, <2>3, <2>4, LabelSize, LabelAssumption
  <1> QED
    BY <1>1, Invariant, PTL
=============================================================================
