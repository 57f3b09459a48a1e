-------------------------- MODULE HexCompilersProofs --------------------------
(***************************************************************************)
(* Proofs about HexCompilers, for every set of files and every number of   *)
(* reads that fail.                                                        *)
(***************************************************************************)
EXTENDS HexCompilers, TLAPS

CText == INSTANCE HexTextProofs WITH Blank <- {32, 9, 10}, CommentEnd <- {10}
AsmText == INSTANCE HexTextProofs WITH Blank <- Asm!white_space, CommentEnd <- {10, 13}

-----------------------------------------------------------------------------
(* The inductive invariants: what each program has done with the           *)
(* characters that it has read, and what it has done in the end.           *)
CScans ==
    c_exit = "running" =>
        /\ c_failures = 0
        /\ CText!Scanned(input, read, c_pc, c_output)
        /\ c_pc = "second" => c1 = CText!digit(input[read])

CDone ==
    c_exit # "running" /\ c_failures = 0 =>
        /\ c_output = CText!Bytes(CText!Readable(input))
        /\ c_exit = IF CText!Accepted(input) THEN "exit(0)" ELSE "exit(1)"

CInv == input \in Input /\ C!TypeOK /\ CScans /\ CDone

AsmTypeOK ==
    /\ position \in 0 .. Len(input)
    /\ asm_failures \in 0 .. MaxFailuresAsm
    /\ asm_pc \in {"item", "discard_comment", "second", "write"}
    /\ asm_exit \in {"running", "exit(0)", "exit(1)"}

(* What the program in assembly waits for, while the byte of a pair is     *)
(* written as well.                                                        *)
asm_mode ==
    CASE asm_pc = "item" -> "item"
      [] asm_pc = "discard_comment" -> "comment"
      [] OTHER -> "second"

AsmScans ==
    asm_exit = "running" /\ asm_failures = 0 =>
        LET n == IF asm_pc = "write" THEN position - 1 ELSE position
        IN /\ n \in 0 .. Len(input)
           /\ AsmText!Scanned(input, n, asm_mode, asm_output)
           /\ asm_mode = "second" => esi = 16 * AsmText!digit(input[n])
           /\ asm_pc = "write" => temp = input[position] /\ temp \in AsmText!HexDigit

AsmDone ==
    asm_exit # "running" /\ asm_failures = 0 =>
        /\ asm_output = AsmText!Bytes(AsmText!Readable(input))
        /\ asm_exit = IF AsmText!Accepted(input) THEN "exit(0)" ELSE "exit(1)"

AsmInv == input \in Input /\ AsmTypeOK /\ AsmScans /\ AsmDone

-----------------------------------------------------------------------------
LEMMA CSeparate == CText!Separate
  BY DEF CText!Separate, CText!Hash, CText!HexDigit

LEMMA AsmSeparate == AsmText!Separate
  BY DEF AsmText!Separate, AsmText!Hash, AsmText!HexDigit, Asm!white_space

LEMMA CTextSame ==
    ASSUME NEW s
    PROVE  /\ C!Hex!Accepted(s) <=> CText!Accepted(s)
           /\ C!Hex!Bytes(C!Hex!Readable(s)) = CText!Bytes(CText!Readable(s))
  <1>1. C!Hex!Hash = CText!Hash /\ C!Hex!HexDigit = CText!HexDigit
    BY DEF C!Hex!Hash, CText!Hash, C!Hex!HexDigit, CText!HexDigit
  <1>2. \A c : C!Hex!digit(c) = CText!digit(c)
    BY DEF C!Hex!digit, CText!digit
  <1>3. \A t, i : C!Hex!InComment(t, i) <=> CText!InComment(t, i)
    BY <1>1 DEF C!Hex!InComment, CText!InComment
  <1>4. \A t : C!Hex!Digits(t) = CText!Digits(t)
    BY <1>1, <1>3 DEF C!Hex!Digits, CText!Digits
  <1>5. \A t : C!Hex!Pairs(t) = CText!Pairs(t)
    BY <1>4 DEF C!Hex!Pairs, CText!Pairs
  <1>6. \A t : C!Hex!Accepted(t) <=> CText!Accepted(t)
    BY <1>1, <1>3, <1>4, <1>5 DEF C!Hex!Accepted, CText!Accepted
  <1>7. \A P : C!Hex!Cardinality(P) = CText!Cardinality(P)
    BY DEF C!Hex!Cardinality, CText!Cardinality, C!Hex!IsFiniteSet, CText!IsFiniteSet
  <1>8. \A P, n : C!Hex!pair(P, n) = CText!pair(P, n)
    BY <1>7 DEF C!Hex!pair, CText!pair, C!Hex!number, CText!number
  <1>9. \A t : C!Hex!Bytes(t) = CText!Bytes(t)
    BY <1>2, <1>5, <1>7, <1>8 DEF C!Hex!Bytes, CText!Bytes
  <1>10. \A t, n : C!Hex!Prefix(t, n) = CText!Prefix(t, n)
    BY DEF C!Hex!Prefix, CText!Prefix
  <1>11. \A t, n : C!Hex!ReadableLength(t, n) <=> CText!ReadableLength(t, n)
    BY <1>6, <1>10 DEF C!Hex!ReadableLength, CText!ReadableLength
  <1>12. \A t : C!Hex!Readable(t) = CText!Readable(t)
    BY <1>10, <1>11 DEF C!Hex!Readable, CText!Readable
  <1> QED
    BY <1>6, <1>9, <1>12

LEMMA AsmTextSame ==
    ASSUME NEW s
    PROVE  /\ Asm!Hex!Accepted(s) <=> AsmText!Accepted(s)
           /\ Asm!Hex!Bytes(Asm!Hex!Readable(s)) = AsmText!Bytes(AsmText!Readable(s))
  <1>1. Asm!Hex!Hash = AsmText!Hash /\ Asm!Hex!HexDigit = AsmText!HexDigit
    BY DEF Asm!Hex!Hash, AsmText!Hash, Asm!Hex!HexDigit, AsmText!HexDigit
  <1>2. \A c : Asm!Hex!digit(c) = AsmText!digit(c)
    BY DEF Asm!Hex!digit, AsmText!digit
  <1>3. \A t, i : Asm!Hex!InComment(t, i) <=> AsmText!InComment(t, i)
    BY <1>1 DEF Asm!Hex!InComment, AsmText!InComment
  <1>4. \A t : Asm!Hex!Digits(t) = AsmText!Digits(t)
    BY <1>1, <1>3 DEF Asm!Hex!Digits, AsmText!Digits
  <1>5. \A t : Asm!Hex!Pairs(t) = AsmText!Pairs(t)
    BY <1>4 DEF Asm!Hex!Pairs, AsmText!Pairs
  <1>6. \A t : Asm!Hex!Accepted(t) <=> AsmText!Accepted(t)
    BY <1>1, <1>3, <1>4, <1>5 DEF Asm!Hex!Accepted, AsmText!Accepted
  <1>7. \A P : Asm!Hex!Cardinality(P) = AsmText!Cardinality(P)
    BY DEF Asm!Hex!Cardinality, AsmText!Cardinality, Asm!Hex!IsFiniteSet, AsmText!IsFiniteSet
  <1>8. \A P, n : Asm!Hex!pair(P, n) = AsmText!pair(P, n)
    BY <1>7 DEF Asm!Hex!pair, AsmText!pair, Asm!Hex!number, AsmText!number
  <1>9. \A t : Asm!Hex!Bytes(t) = AsmText!Bytes(t)
    BY <1>2, <1>5, <1>7, <1>8 DEF Asm!Hex!Bytes, AsmText!Bytes
  <1>10. \A t, n : Asm!Hex!Prefix(t, n) = AsmText!Prefix(t, n)
    BY DEF Asm!Hex!Prefix, AsmText!Prefix
  <1>11. \A t, n : Asm!Hex!ReadableLength(t, n) <=> AsmText!ReadableLength(t, n)
    BY <1>6, <1>10 DEF Asm!Hex!ReadableLength, AsmText!ReadableLength
  <1>12. \A t : Asm!Hex!Readable(t) = AsmText!Readable(t)
    BY <1>10, <1>11 DEF Asm!Hex!Readable, AsmText!Readable
  <1> QED
    BY <1>6, <1>9, <1>12

-----------------------------------------------------------------------------
(* The program in C.                                                       *)
LEMMA SequenceElements ==
    ASSUME NEW S, NEW T, S \subseteq T, NEW s \in Seq(S)
    PROVE  s \in Seq(T) /\ Len(s) \in Nat /\ \A i \in 1 .. Len(s) : s[i] \in S
  OBVIOUS

LEMMA AppendElement ==
    ASSUME NEW S, NEW s \in Seq(S), NEW x \in S
    PROVE  Append(s, x) \in Seq(S)
  OBVIOUS

LEMMA FileType ==
    ASSUME NEW s \in Input
    PROVE  /\ s \in Seq(0 .. 255) /\ s \in Seq(Nat) /\ Len(s) \in Nat
           /\ \A i \in 1 .. Len(s) : s[i] \in 0 .. 255
  <1>1. s \in Seq(0 .. 255)
    BY InputAssumption
  <1>2. 0 .. 255 \subseteq Nat
    OBVIOUS
  <1> QED
    BY <1>1, <1>2, SequenceElements

LEMMA CInitial == Init => CInv
  <1> SUFFICES ASSUME Init
               PROVE  CInv
    OBVIOUS
  <1> USE DEF Init, C!Start, Asm!Init
  <1>1. C!TypeOK
    BY FileType, FailuresAssumption DEF C!TypeOK
  <1>2. CScans
    BY FileType, CSeparate, CText!ScanBegins DEF CScans
  <1> QED
    BY <1>1, <1>2 DEF CInv, CDone

(* What a read returns, and what it means that it returns EOF.             *)
LEMMA CReads ==
    ASSUME CInv, NEW c, C!getchar(c)
    PROVE  /\ c_exit = "running" /\ input' = input /\ input \in Seq(Nat) /\ read \in 0 .. Len(input)
           /\ c_failures' \in 0 .. MaxFailuresC
           /\ c = C!EOF => read' = read /\ (c_failures' = 0 => read = Len(input))
           /\ c # C!EOF => /\ read < Len(input) /\ c = input[read + 1] /\ c \in 0 .. 255
                           /\ read' = read + 1 /\ c_failures' = 0
  <1>1. /\ c_exit = "running" /\ c \in C!received /\ input' = input
        /\ read' = IF c = C!EOF THEN read ELSE read + 1
        /\ c_failures' = IF c = C!EOF /\ ~C!AtEnd THEN c_failures + 1 ELSE c_failures
    BY DEF C!getchar
  <1>2. /\ input \in Seq(Nat) /\ Len(input) \in Nat
        /\ \A i \in 1 .. Len(input) : input[i] \in 0 .. 255
    BY FileType DEF CInv
  <1>3. read \in 0 .. Len(input) /\ c_failures = 0
    BY <1>1 DEF CInv, CScans, C!TypeOK
  <1>4. CASE c = C!EOF
    <2>1. ~C!AtEnd => c_failures < MaxFailuresC
      <3>1. ASSUME ~C!AtEnd, c \notin (IF c_failures < MaxFailuresC THEN {C!EOF} ELSE {})
            PROVE  FALSE
        <4>1. c = input[read + 1] /\ read + 1 \in 1 .. Len(input)
          BY <1>1, <1>3, <1>2, <3>1 DEF C!received, C!AtEnd
        <4> QED
          BY <1>2, <1>4, <4>1 DEF C!EOF
      <3> QED
        BY <3>1
    <2> QED
      BY <1>1, <1>2, <1>3, <1>4, <2>1, FailuresAssumption DEF C!AtEnd
  <1>5. CASE c # C!EOF
    <2>1. ~C!AtEnd /\ c = input[read + 1]
      BY <1>1, <1>5 DEF C!received
    <2>2. read < Len(input)
      BY <1>2, <1>3, <2>1 DEF C!AtEnd
    <2>3. c \in 0 .. 255
      <3>1. read + 1 \in 1 .. Len(input)
        BY <1>2, <1>3, <2>2
      <3> QED
        BY <1>2, <2>1, <3>1
    <2> QED
      BY <1>1, <1>2, <1>3, <1>5, <2>1, <2>2, <2>3, FailuresAssumption
  <1> QED
    BY <1>4, <1>5

LEMMA CExits ==
    ASSUME CInv, NEW c, C!getchar(c), UNCHANGED <<c_pc, c1, c_output>>,
           c_exit' \in {"exit(0)", "exit(1)"},
           c = C!EOF => c_exit' = IF c_pc = "second" THEN "exit(1)" ELSE "exit(0)",
           c # C!EOF => c_exit' = "exit(1)" /\ ~CText!Fine(input, read + 1)
    PROVE  CInv'
  <1>1. CText!Scanned(input, read, c_pc, c_output) /\ c_pc \in CText!Mode
    BY CReads DEF CInv, CScans, C!TypeOK, CText!Mode
  <1>2. C!TypeOK'
    BY CReads DEF CInv, C!TypeOK
  <1>3. CScans'
    BY DEF CScans
  <1>4. CDone'
    <2> SUFFICES ASSUME c_failures' = 0
                 PROVE  /\ c_output = CText!Bytes(CText!Readable(input))
                        /\ c_exit' = IF CText!Accepted(input) THEN "exit(0)" ELSE "exit(1)"
      BY CReads DEF CDone
    <2>1. read = Len(input) \/ ~CText!Fine(input, read + 1)
      BY CReads
    <2>2. /\ c_output = CText!Bytes(CText!Readable(input))
          /\ CText!Accepted(input) <=> read = Len(input) /\ c_pc # "second"
      BY <1>1, <2>1, CReads, CSeparate, CText!ScanEnds
    <2> QED
      BY <2>2, CReads
  <1> QED
    BY <1>2, <1>3, <1>4, CReads DEF CInv

LEMMA CItem ==
    ASSUME CInv, C!Item
    PROVE  CInv'
  <1>1. PICK c \in C!received :
           /\ C!getchar(c)
           /\ \/ c = C!EOF /\ C!Exit("exit(0)")
              \/ c = C!Hash /\ C!Goto("comment") /\ UNCHANGED c1
              \/ c \in C!Space /\ C!Goto("item") /\ UNCHANGED c1
              \/ C!is_hex(c) /\ C!Goto("second") /\ c1' = C!value(c)
              \/ /\ c # C!EOF /\ c # C!Hash /\ c \notin C!Space /\ ~C!is_hex(c)
                 /\ C!Exit("exit(1)")
    BY DEF C!Item
  <1>2. c_pc = "item"
    BY DEF C!Item
  <1>3. CASE c = C!EOF /\ C!Exit("exit(0)")
    BY <1>1, <1>2, <1>3, CExits DEF C!Exit
  <1>4. CASE /\ c # C!EOF /\ c # C!Hash /\ c \notin C!Space /\ ~C!is_hex(c)
             /\ C!Exit("exit(1)")
    <2>1. c \notin {32, 9, 10} \cup CText!HexDigit \cup {CText!Hash}
      BY <1>4 DEF C!Hash, C!Space, C!is_hex, C!is_digit, C!is_upper, CText!HexDigit, CText!Hash
    <2>2. /\ input \in Seq(Nat) /\ read \in 0 .. Len(input) /\ read < Len(input)
          /\ c = input[read + 1] /\ CText!Scanned(input, read, "item", c_output)
      BY <1>1, <1>2, <1>4, CReads DEF CInv, CScans
    <2>3. ~CText!Fine(input, read + 1)
      BY <2>1, <2>2, CSeparate, CText!ScanItem
    <2> QED
      BY <1>1, <1>4, <2>3, CExits DEF C!Exit
  <1>5. CASE \/ c = C!Hash /\ C!Goto("comment") /\ UNCHANGED c1
             \/ c \in C!Space /\ C!Goto("item") /\ UNCHANGED c1
             \/ C!is_hex(c) /\ C!Goto("second") /\ c1' = C!value(c)
    <2>1. c # C!EOF
      BY <1>5 DEF C!EOF, C!Hash, C!Space, C!is_hex, C!is_digit, C!is_upper
    <2>2. /\ input \in Seq(Nat) /\ read \in 0 .. Len(input) /\ read < Len(input)
          /\ c = input[read + 1] /\ CText!Scanned(input, read, "item", c_output)
          /\ input' = input /\ read' = read + 1 /\ c_failures' = 0 /\ c_exit = "running"
          /\ c_failures' \in 0 .. MaxFailuresC
      BY <1>1, <1>2, <2>1, CReads DEF CInv, CScans
    <2>3. c_output' = c_output /\ c_exit' = c_exit
      BY <1>5 DEF C!Goto
    <2>4. CText!Scanned(input, read + 1, c_pc', c_output)
      <3>1. CASE c = C!Hash /\ C!Goto("comment")
        BY <2>2, <3>1, CSeparate, CText!ScanItem DEF C!Hash, CText!Hash, C!Goto
      <3>2. CASE c \in C!Space /\ C!Goto("item")
        BY <2>2, <3>2, CSeparate, CText!ScanItem DEF C!Space, C!Goto
      <3>3. CASE C!is_hex(c) /\ C!Goto("second")
        <4>1. c \in CText!HexDigit
          BY <3>3 DEF C!is_hex, C!is_digit, C!is_upper, CText!HexDigit
        <4> QED
          BY <2>2, <3>3, <4>1, CSeparate, CText!ScanItem DEF C!Goto
      <3> QED
        BY <1>5, <3>1, <3>2, <3>3
    <2>5. c_pc' = "second" => c1' = CText!digit(c) /\ c1' \in 0 .. 15
      <3>1. c_pc' = "second" => C!is_hex(c) /\ c1' = C!value(c)
        BY <1>5 DEF C!Goto
      <3> QED
        BY <3>1 DEF C!is_hex, C!is_digit, C!is_upper, C!value, CText!digit
    <2>6. c_pc' # "second" => c1' = c1
      BY <1>5 DEF C!Goto
    <2>7. c_pc' \in {"item", "comment", "second"}
      BY <1>5 DEF C!Goto
    <2>8. C!TypeOK'
      <3>1. c1' \in 0 .. 15
        BY <2>5, <2>6 DEF CInv, C!TypeOK
      <3>2. c_output' \in Seq(0 .. 255) /\ c_exit' \in {"running", "exit(0)", "exit(1)"}
        BY <2>3 DEF CInv, C!TypeOK
      <3>3. read' \in 0 .. Len(input')
        BY <2>2
      <3> QED
        BY <2>2, <2>7, <3>1, <3>2, <3>3 DEF C!TypeOK
    <2>9. CScans' /\ CDone'
      BY <2>2, <2>3, <2>4, <2>5 DEF CScans, CDone
    <2> QED
      BY <2>2, <2>8, <2>9 DEF CInv
  <1> QED
    BY <1>1, <1>3, <1>4, <1>5

LEMMA CComment ==
    ASSUME CInv, C!Comment
    PROVE  CInv'
  <1>1. PICK c \in C!received :
           /\ C!getchar(c)
           /\ \/ c = C!EOF /\ C!Exit("exit(0)")
              \/ c = C!Newline /\ C!Goto("item") /\ UNCHANGED c1
              \/ c # C!EOF /\ c # C!Newline /\ C!Goto("comment") /\ UNCHANGED c1
    BY DEF C!Comment
  <1>2. c_pc = "comment"
    BY DEF C!Comment
  <1>3. CASE c = C!EOF /\ C!Exit("exit(0)")
    BY <1>1, <1>2, <1>3, CExits DEF C!Exit
  <1>4. CASE \/ c = C!Newline /\ C!Goto("item") /\ UNCHANGED c1
             \/ c # C!EOF /\ c # C!Newline /\ C!Goto("comment") /\ UNCHANGED c1
    <2>1. c # C!EOF
      BY <1>4 DEF C!EOF, C!Newline
    <2>2. /\ input \in Seq(Nat) /\ read \in 0 .. Len(input) /\ read < Len(input)
          /\ c = input[read + 1] /\ CText!Scanned(input, read, "comment", c_output)
          /\ input' = input /\ read' = read + 1 /\ c_failures' = 0 /\ c_exit = "running"
          /\ c_failures' \in 0 .. MaxFailuresC
      BY <1>1, <1>2, <2>1, CReads DEF CInv, CScans
    <2>3. c_output' = c_output /\ c_exit' = c_exit /\ c1' = c1
      BY <1>4 DEF C!Goto
    <2>4. c_pc' \in {"item", "comment"} /\ CText!Scanned(input, read + 1, c_pc', c_output)
      <3>1. c = C!Newline <=> c \in {10}
        BY DEF C!Newline
      <3> QED
        BY <1>4, <2>2, <3>1, CSeparate, CText!ScanComment DEF C!Goto
    <2>5. C!TypeOK'
      <3>1. read' \in 0 .. Len(input')
        BY <2>2
      <3> QED
        BY <2>2, <2>3, <2>4, <3>1 DEF CInv, C!TypeOK
    <2>6. CScans' /\ CDone'
      BY <2>2, <2>3, <2>4 DEF CScans, CDone
    <2> QED
      BY <2>2, <2>5, <2>6 DEF CInv
  <1> QED
    BY <1>1, <1>3, <1>4

LEMMA CSecond ==
    ASSUME CInv, C!Second
    PROVE  CInv'
  <1>1. PICK c \in C!received :
           /\ C!getchar(c)
           /\ \/ /\ C!is_hex(c)
                 /\ c_output' = Append(c_output, c1 * 16 + C!value(c))
                 /\ c_pc' = "item"
                 /\ UNCHANGED <<c1, c_exit>>
              \/ ~C!is_hex(c) /\ C!Exit("exit(1)")
    BY DEF C!Second
  <1>2. c_pc = "second"
    BY DEF C!Second
  <1>3. c \in CText!HexDigit <=> C!is_hex(c)
    BY DEF C!is_hex, C!is_digit, C!is_upper, CText!HexDigit
  <1>4. CASE ~C!is_hex(c) /\ C!Exit("exit(1)")
    <2>1. CASE c = C!EOF
      BY <1>1, <1>2, <1>4, <2>1, CExits DEF C!Exit
    <2>2. CASE c # C!EOF
      <3>1. /\ input \in Seq(Nat) /\ read \in 0 .. Len(input) /\ read < Len(input)
            /\ c = input[read + 1] /\ CText!Scanned(input, read, "second", c_output)
        BY <1>1, <1>2, <2>2, CReads DEF CInv, CScans
      <3>2. ~CText!Fine(input, read + 1)
        BY <1>3, <1>4, <3>1, CSeparate, CText!ScanSecond
      <3> QED
        BY <1>1, <1>4, <2>2, <3>2, CExits DEF C!Exit
    <2> QED
      BY <2>1, <2>2
  <1>5. CASE /\ C!is_hex(c)
             /\ c_output' = Append(c_output, c1 * 16 + C!value(c))
             /\ c_pc' = "item"
             /\ UNCHANGED <<c1, c_exit>>
    <2>1. c # C!EOF
      BY <1>5 DEF C!EOF, C!is_hex, C!is_digit, C!is_upper
    <2>2. /\ input \in Seq(Nat) /\ read \in 0 .. Len(input) /\ read < Len(input)
          /\ c = input[read + 1] /\ CText!Scanned(input, read, "second", c_output)
          /\ input' = input /\ read' = read + 1 /\ c_failures' = 0 /\ c_exit = "running"
          /\ c_failures' \in 0 .. MaxFailuresC
          /\ c1 = CText!digit(input[read])
      BY <1>1, <1>2, <2>1, CReads DEF CInv, CScans
    <2>3. C!value(c) = CText!digit(c) /\ C!value(c) \in 0 .. 15
      BY <1>5 DEF C!is_hex, C!is_digit, C!is_upper, C!value, CText!digit
    <2>4. c1 \in 0 .. 15
      BY DEF CInv, C!TypeOK
    <2>5. /\ c1 * 16 + C!value(c) = CText!byte(input, read)
          /\ c1 * 16 + C!value(c) \in 0 .. 255
      <3>1. CText!byte(input, read) = 16 * c1 + C!value(c)
        BY <2>2, <2>3 DEF CText!byte
      <3> QED
        BY <2>3, <2>4, <3>1
    <2>6. CText!Scanned(input, read + 1, "item", c_output')
      BY <1>3, <1>5, <2>2, <2>5, CSeparate, CText!ScanSecond
    <2>7. c_output' \in Seq(0 .. 255)
      <3>1. c_output \in Seq(0 .. 255)
        BY DEF CInv, C!TypeOK
      <3> QED
        BY <1>5, <2>5, <3>1, AppendElement
    <2>8. C!TypeOK'
      <3>1. read' \in 0 .. Len(input')
        BY <2>2
      <3> QED
        BY <1>5, <2>2, <2>4, <2>7, <3>1 DEF CInv, C!TypeOK
    <2>9. CScans' /\ CDone'
      BY <1>5, <2>2, <2>6 DEF CScans, CDone
    <2> QED
      BY <2>2, <2>8, <2>9 DEF CInv
  <1> QED
    BY <1>1, <1>4, <1>5

LEMMA CStep == CInv /\ [Next]_vars => CInv'
  <1> SUFFICES ASSUME CInv, [Next]_vars
               PROVE  CInv'
    OBVIOUS
  <1>1. CASE hex2bin_c
    BY <1>1, CItem, CComment, CSecond DEF hex2bin_c, C!Next
  <1>2. CASE hex2bin_nasm \/ UNCHANGED vars
    <2>1. input' = input /\ UNCHANGED cvars
      BY <1>2 DEF hex2bin_nasm, Asm!Next, Asm!item, Asm!second, Asm!discard_comment, Asm!write,
                  Asm!sys_read, vars
    <2> QED
      BY <2>1 DEF cvars, CInv, C!TypeOK, CScans, CDone
  <1> QED
    BY <1>1, <1>2 DEF Next

(* The program in C has scanned what it has read, and has read enough when *)
(* it exits.                                                               *)
THEOREM CInvariant == Spec => []CInv
  BY CInitial, CStep, PTL DEF Spec

(* Variables of the program in C have their types: a byte is a byte, and   *)
(* no more is read than there is.                                          *)
THEOREM TypeCorrect == Spec => []TypeOK
  <1>1. CInv => TypeOK
    BY DEF CInv, TypeOK
  <1> QED
    BY <1>1, CInvariant, PTL

(* What a step shows of itself.                                            *)
LEMMA CMoves ==
    ASSUME CInv, C!Next
    PROVE  /\ c_exit = "running" /\ input' = input /\ c_failures = 0
           /\ \/ UNCHANGED <<c_output, c_exit, c_failures>>
              \/ c_output' = c_output /\ c_exit' \in {"exit(0)", "exit(1)"}
              \/ \E b : c_output' = Append(c_output, b) /\ UNCHANGED <<c_exit, c_failures>>
  <1>1. PICK c : /\ C!getchar(c)
                 /\ \/ c_output' = c_output /\ c_exit' \in {"exit(0)", "exit(1)"}
                    \/ c # C!EOF /\ c_exit' = c_exit /\ c_output' = c_output
                    \/ /\ c # C!EOF /\ c_exit' = c_exit
                       /\ \E b : c_output' = Append(c_output, b)
    <2>1. CASE C!Item
      BY <2>1 DEF C!Item, C!Exit, C!Goto, C!EOF, C!Hash, C!Space, C!is_hex, C!is_digit, C!is_upper
    <2>2. CASE C!Comment
      BY <2>2 DEF C!Comment, C!Exit, C!Goto, C!EOF, C!Newline
    <2>3. CASE C!Second
      BY <2>3 DEF C!Second, C!Exit, C!EOF, C!is_hex, C!is_digit, C!is_upper
    <2> QED
      BY <2>1, <2>2, <2>3 DEF C!Next
  <1>2. c_exit = "running" /\ input' = input /\ c_failures = 0
    BY <1>1, CReads DEF CInv, CScans
  <1>3. c # C!EOF => c_failures' = c_failures
    BY <1>1, <1>2, CReads
  <1> QED
    BY <1>1, <1>2, <1>3

LEMMA CMeaning ==
    ASSUME NEW s \in Input
    PROVE  /\ C!Hex!Meaning[s].bytes = CText!Bytes(CText!Readable(s))
           /\ C!Hex!Meaning[s].exit = IF CText!Accepted(s) THEN "exit(0)" ELSE "exit(1)"
  BY CTextSame DEF C!Hex!Meaning

LEMMA CImplements == CInv /\ CInv' /\ [Next]_vars => [C!Hex!Next]_(C!Hex!vars)
  <1> SUFFICES ASSUME CInv, CInv', [Next]_vars
               PROVE  C!Hex!Next \/ UNCHANGED <<input, c_failures > 0, c_output, c_exit>>
    BY DEF C!Hex!vars
  <1>1. CASE hex2bin_c
    <2>1. /\ c_exit = "running" /\ input' = input /\ c_failures = 0
          /\ \/ UNCHANGED <<c_output, c_exit, c_failures>>
             \/ c_output' = c_output /\ c_exit' \in {"exit(0)", "exit(1)"}
             \/ \E b : c_output' = Append(c_output, b) /\ UNCHANGED <<c_exit, c_failures>>
      BY <1>1, CMoves DEF hex2bin_c
    <2>2. /\ C!Hex!Meaning[input].bytes = CText!Bytes(CText!Readable(input))
          /\ C!Hex!Meaning[input].exit = IF CText!Accepted(input) THEN "exit(0)" ELSE "exit(1)"
          /\ input \in Seq(Nat)
      BY CMeaning, FileType DEF CInv
    <2>3. CASE UNCHANGED <<c_output, c_exit, c_failures>>
      BY <2>1, <2>3
    <2>4. CASE c_output' = c_output /\ c_exit' \in {"exit(0)", "exit(1)"}
      <3>1. CASE c_failures' = 0
        <4>1. /\ c_output = CText!Bytes(CText!Readable(input))
              /\ c_exit' = IF CText!Accepted(input) THEN "exit(0)" ELSE "exit(1)"
          BY <2>1, <2>4, <3>1 DEF CInv, CDone
        <4>2. C!Hex!Finish
          BY <2>1, <2>2, <2>4, <3>1, <4>1 DEF C!Hex!Finish
        <4> QED
          BY <4>2 DEF C!Hex!Next
      <3>2. CASE c_failures' # 0
        <4>1. (c_failures > 0)' = TRUE
          BY <3>2 DEF CInv, C!TypeOK
        <4>2. C!Hex!Cut
          BY <2>1, <2>4, <4>1 DEF C!Hex!Cut
        <4> QED
          BY <4>2 DEF C!Hex!Next
      <3> QED
        BY <3>1, <3>2
    <2>5. CASE \E b : c_output' = Append(c_output, b) /\ UNCHANGED <<c_exit, c_failures>>
      <3>1. PICK b : c_output' = Append(c_output, b)
        BY <2>5
      <3>2. /\ CText!Scanned(input, read', c_pc', c_output')
            /\ read' \in 0 .. Len(input) /\ c_pc' \in CText!Mode
        BY <2>1, <2>5 DEF CInv, CScans, C!TypeOK, CText!Mode
      <3> DEFINE bytes == CText!Bytes(CText!Readable(input))
      <3>3. /\ c_output' \in Seq(Int) /\ bytes \in Seq(Int)
            /\ Len(c_output') <= Len(bytes)
            /\ \A k \in 1 .. Len(c_output') : bytes[k] = c_output'[k]
        BY <2>2, <3>2, CSeparate, CText!ScanWrites
      <3>4. c_output \in Seq(0 .. 255)
        BY DEF CInv, C!TypeOK
      <3>5. c_output \in Seq(Int) /\ Len(c_output) \in Nat
        <4>1. 0 .. 255 \subseteq Int
          OBVIOUS
        <4> QED
          BY <3>4, <4>1, SequenceElements
      <3> HIDE DEF bytes
      <3>6. /\ Len(c_output') = Len(c_output) + 1
            /\ c_output'[Len(c_output) + 1] = b
        BY <3>1, <3>5
      <3>7. Len(c_output) < Len(bytes) /\ b = bytes[Len(c_output) + 1]
        BY <3>3, <3>5, <3>6
      <3>8. C!Hex!Write
        BY <2>1, <2>2, <2>5, <3>1, <3>7 DEF C!Hex!Write, bytes
      <3> QED
        BY <3>8 DEF C!Hex!Next
    <2> QED
      BY <2>1, <2>3, <2>4, <2>5
  <1>2. CASE hex2bin_nasm \/ UNCHANGED vars
    <2>1. input' = input /\ UNCHANGED cvars
      BY <1>2 DEF hex2bin_nasm, Asm!Next, Asm!item, Asm!second, Asm!discard_comment, Asm!write,
                  Asm!sys_read, vars
    <2> QED
      BY <2>1 DEF cvars
  <1> QED
    BY <1>1, <1>2 DEF Next

(* The program in C is a HEX compiler: every step writes the next byte of  *)
(* the file, or ends with the right exit status, or cuts the output short  *)
(* after a read that failed.  This is the safety part of ImplementsHex.    *)
THEOREM CCompilesHex == Spec => C!Hex!Safety
  <1>1. Init => C!Hex!Init
    BY DEF Init, Asm!Init, C!Start, C!Hex!Init
  <1>2. CInv /\ CInv' /\ [Next]_vars => [C!Hex!Next]_(C!Hex!vars)
    BY CImplements
  <1> QED
    BY <1>1, <1>2, CInvariant, PTL DEF Spec, C!Hex!Safety

-----------------------------------------------------------------------------
(* The program in assembly.                                                *)
LEMMA AsmInitial == Init => AsmInv
  <1> SUFFICES ASSUME Init
               PROVE  AsmInv
    OBVIOUS
  <1> USE DEF Init, Asm!Start, Asm!Init
  <1>1. AsmTypeOK
    BY FileType, FailuresAssumption DEF AsmTypeOK
  <1>2. asm_mode = "item" /\ asm_pc # "write"
    BY DEF asm_mode
  <1>3. AsmScans
    BY <1>2, FileType, AsmSeparate, AsmText!ScanBegins DEF AsmScans
  <1> QED
    BY <1>1, <1>3 DEF AsmInv, AsmDone

LEMMA AsmReads ==
    ASSUME AsmInv, NEW result, Asm!sys_read(result)
    PROVE  /\ asm_exit = "running" /\ input' = input /\ asm_output' = asm_output
           /\ input \in Seq(Nat) /\ position \in 0 .. Len(input)
           /\ asm_failures' \in 0 .. MaxFailuresAsm
           /\ position' \in 0 .. Len(input)
           /\ temp' = result.temp
           /\ asm_failures' = 0 =>
                 /\ asm_failures = 0
                 /\ \/ result.eax = 0 /\ position = Len(input) /\ position' = position
                    \/ /\ result.eax = 1 /\ position < Len(input) /\ position' = position + 1
                       /\ result.temp = input[position + 1] /\ result.temp \in 0 .. 255
  <1>1. /\ asm_exit = "running" /\ input' = input /\ asm_output' = asm_output
        /\ temp' = result.temp /\ result \in Asm!results
        /\ position' = IF result.eax = 1 THEN position + 1 ELSE position
        /\ asm_failures' = IF result.eax < 0 THEN asm_failures + 1 ELSE asm_failures
    BY DEF Asm!sys_read
  <1>2. /\ input \in Seq(Nat) /\ Len(input) \in Nat
        /\ \A i \in 1 .. Len(input) : input[i] \in 0 .. 255
    BY FileType DEF AsmInv
  <1>3. position \in 0 .. Len(input) /\ asm_failures \in 0 .. MaxFailuresAsm
    BY DEF AsmInv, AsmTypeOK
  <1>4. \/ position = Len(input) /\ result.eax = 0
        \/ position # Len(input) /\ result.eax = 1 /\ result.temp = input[position + 1]
        \/ asm_failures < MaxFailuresAsm /\ result.eax = -5
    BY <1>1 DEF Asm!results
  <1>5. CASE position = Len(input) /\ result.eax = 0
    BY <1>1, <1>2, <1>3, <1>5, FailuresAssumption
  <1>6. CASE position # Len(input) /\ result.eax = 1 /\ result.temp = input[position + 1]
    <2>1. position < Len(input) /\ position + 1 \in 1 .. Len(input)
      BY <1>2, <1>3, <1>6
    <2> QED
      BY <1>1, <1>2, <1>3, <1>6, <2>1, FailuresAssumption
  <1>7. CASE asm_failures < MaxFailuresAsm /\ result.eax = -5
    BY <1>1, <1>2, <1>3, <1>7, FailuresAssumption
  <1> QED
    BY <1>4, <1>5, <1>6, <1>7

LEMMA AsmExits ==
    ASSUME AsmInv, NEW result, Asm!sys_read(result), asm_pc # "write", asm_pc' = asm_pc,
           asm_exit' \in {"exit(0)", "exit(1)"},
           result.eax = 0 => asm_exit' = IF asm_pc = "second" THEN "exit(1)" ELSE "exit(0)",
           asm_failures' = 0 /\ result.eax # 0 =>
              asm_exit' = "exit(1)" /\ ~AsmText!Fine(input, position + 1)
    PROVE  AsmInv'
  <1>1. AsmTypeOK'
    BY AsmReads DEF AsmInv, AsmTypeOK
  <1>2. AsmScans'
    BY DEF AsmScans
  <1>3. AsmDone'
    <2> SUFFICES ASSUME asm_failures' = 0
                 PROVE  /\ asm_output = AsmText!Bytes(AsmText!Readable(input))
                        /\ asm_exit' = IF AsmText!Accepted(input) THEN "exit(0)" ELSE "exit(1)"
      BY AsmReads DEF AsmDone
    <2>1. asm_mode \in AsmText!Mode /\ (asm_mode = "second" <=> asm_pc = "second")
      BY DEF asm_mode, AsmText!Mode, AsmInv, AsmTypeOK
    <2>2. AsmText!Scanned(input, position, asm_mode, asm_output)
      BY AsmReads DEF AsmInv, AsmScans
    <2>3. /\ position \in 0 .. Len(input) /\ input \in Seq(Nat)
          /\ position = Len(input) \/ ~AsmText!Fine(input, position + 1)
      BY AsmReads
    <2>4. /\ asm_output = AsmText!Bytes(AsmText!Readable(input))
          /\ AsmText!Accepted(input) <=> position = Len(input) /\ asm_mode # "second"
      BY <2>1, <2>2, <2>3, AsmSeparate, AsmText!ScanEnds
    <2> QED
      BY <2>1, <2>4, AsmReads
  <1> QED
    BY <1>1, <1>2, <1>3, AsmReads DEF AsmInv

LEMMA AsmItem ==
    ASSUME AsmInv, Asm!item
    PROVE  AsmInv'
  <1>1. PICK result \in Asm!results :
          /\ Asm!sys_read(result)
          /\ \/ result.eax = 0 /\ Asm!sys_exit("exit(0)") /\ UNCHANGED esi
             \/ /\ result.eax # 0
                /\ \/ result.temp \in Asm!white_space /\ Asm!Goto("item") /\ UNCHANGED esi
                   \/ result.temp = 35 /\ Asm!Goto("discard_comment") /\ UNCHANGED esi
                   \/ /\ Asm!is_hexdigit(result.temp) /\ Asm!Goto("second")
                      /\ esi' = 16 * Asm!number(result.temp)
                   \/ /\ result.temp \notin {35} \cup Asm!white_space
                      /\ ~Asm!is_hexdigit(result.temp)
                      /\ Asm!sys_exit("exit(1)") /\ UNCHANGED esi
    BY DEF Asm!item
  <1>2. asm_pc = "item" /\ asm_mode = "item"
    BY DEF Asm!item, asm_mode
  <1> DEFINE c == result.temp
  <1>3. asm_failures' = 0 /\ result.eax # 0 =>
           /\ input \in Seq(Nat) /\ position \in 0 .. Len(input) /\ position < Len(input)
           /\ c = input[position + 1] /\ position' = position + 1 /\ input' = input
           /\ AsmText!Scanned(input, position, "item", asm_output)
    BY <1>1, <1>2, AsmReads DEF AsmInv, AsmScans
  <1>4. CASE result.eax = 0 /\ Asm!sys_exit("exit(0)")
    BY <1>1, <1>2, <1>4, AsmExits DEF Asm!sys_exit
  <1>5. CASE /\ result.eax # 0
             /\ c \notin {35} \cup Asm!white_space
             /\ ~Asm!is_hexdigit(c)
             /\ Asm!sys_exit("exit(1)")
    <2>1. c \notin Asm!white_space \cup AsmText!HexDigit \cup {AsmText!Hash}
      BY <1>5 DEF Asm!is_hexdigit, AsmText!HexDigit, AsmText!Hash
    <2>2. asm_failures' = 0 => ~AsmText!Fine(input, position + 1)
      BY <1>3, <1>5, <2>1, AsmSeparate, AsmText!ScanItem
    <2> QED
      BY <1>1, <1>2, <1>5, <2>2, AsmExits DEF Asm!sys_exit
  <1>6. CASE /\ result.eax # 0
             /\ \/ c \in Asm!white_space /\ Asm!Goto("item")
                \/ c = 35 /\ Asm!Goto("discard_comment")
                \/ Asm!is_hexdigit(c) /\ Asm!Goto("second") /\ esi' = 16 * Asm!number(c)
    <2>1. /\ asm_exit' = asm_exit /\ asm_exit = "running" /\ asm_output' = asm_output
          /\ asm_pc' \in {"item", "discard_comment", "second"}
          /\ input' = input /\ position' \in 0 .. Len(input)
      BY <1>1, <1>6, AsmReads DEF Asm!Goto
    <2>2. AsmTypeOK'
      BY <1>1, <2>1, AsmReads DEF AsmTypeOK
    <2>3. AsmDone'
      BY <2>1 DEF AsmDone
    <2>4. ASSUME asm_failures' = 0
          PROVE  /\ AsmText!Scanned(input, position + 1, asm_mode', asm_output)
                 /\ asm_mode' = "second" => esi' = 16 * AsmText!digit(c)
      <3>1. CASE c \in Asm!white_space /\ Asm!Goto("item")
        <4>1. asm_mode' = "item"
          BY <3>1 DEF asm_mode, Asm!Goto
        <4> QED
          BY <1>3, <1>6, <2>4, <3>1, <4>1, AsmSeparate, AsmText!ScanItem
      <3>2. CASE c = 35 /\ Asm!Goto("discard_comment")
        <4>1. asm_mode' = "comment"
          BY <3>2 DEF asm_mode, Asm!Goto
        <4> QED
          BY <1>3, <1>6, <2>4, <3>2, <4>1, AsmSeparate, AsmText!ScanItem DEF AsmText!Hash
      <3>3. CASE Asm!is_hexdigit(c) /\ Asm!Goto("second") /\ esi' = 16 * Asm!number(c)
        <4>1. asm_mode' = "second"
          BY <3>3 DEF asm_mode, Asm!Goto
        <4>2. c \in AsmText!HexDigit
          BY <3>3 DEF Asm!is_hexdigit, AsmText!HexDigit
        <4>3. Asm!number(c) = AsmText!digit(c)
          BY <4>2 DEF AsmText!HexDigit, Asm!number, AsmText!digit
        <4> QED
          BY <1>3, <1>6, <2>4, <3>3, <4>1, <4>2, <4>3, AsmSeparate, AsmText!ScanItem
      <3> QED
        BY <1>6, <3>1, <3>2, <3>3
    <2>5. AsmScans'
      BY <1>3, <1>6, <2>1, <2>4 DEF AsmScans
    <2> QED
      BY <2>1, <2>2, <2>3, <2>5 DEF AsmInv
  <1> QED
    BY <1>1, <1>4, <1>5, <1>6

LEMMA AsmComment ==
    ASSUME AsmInv, Asm!discard_comment
    PROVE  AsmInv'
  <1>1. PICK result \in Asm!results :
          /\ Asm!sys_read(result)
          /\ \/ result.eax = 0 /\ Asm!sys_exit("exit(0)")
             \/ result.eax # 0 /\ result.temp \in {10, 13} /\ Asm!Goto("item")
             \/ result.eax # 0 /\ result.temp \notin {10, 13} /\ Asm!Goto("discard_comment")
    BY DEF Asm!discard_comment
  <1>2. asm_pc = "discard_comment" /\ asm_mode = "comment"
    BY DEF Asm!discard_comment, asm_mode
  <1>3. asm_failures' = 0 /\ result.eax # 0 =>
           /\ input \in Seq(Nat) /\ position \in 0 .. Len(input) /\ position < Len(input)
           /\ result.temp = input[position + 1] /\ position' = position + 1
           /\ AsmText!Scanned(input, position, "comment", asm_output)
    BY <1>1, <1>2, AsmReads DEF AsmInv, AsmScans
  <1>4. CASE result.eax = 0 /\ Asm!sys_exit("exit(0)")
    BY <1>1, <1>2, <1>4, AsmExits DEF Asm!sys_exit
  <1>5. CASE /\ result.eax # 0
             /\ \/ result.temp \in {10, 13} /\ Asm!Goto("item")
                \/ result.temp \notin {10, 13} /\ Asm!Goto("discard_comment")
    <2>1. /\ asm_exit' = asm_exit /\ asm_exit = "running" /\ asm_output' = asm_output
          /\ asm_pc' \in {"item", "discard_comment"}
          /\ input' = input /\ position' \in 0 .. Len(input)
      BY <1>1, <1>5, AsmReads DEF Asm!Goto
    <2>2. AsmTypeOK'
      BY <1>1, <2>1, AsmReads DEF AsmTypeOK
    <2>3. AsmDone'
      BY <2>1 DEF AsmDone
    <2>4. ASSUME asm_failures' = 0
          PROVE  /\ AsmText!Scanned(input, position + 1, asm_mode', asm_output)
                 /\ asm_mode' # "second"
      <3>1. asm_mode' = IF asm_pc' = "item" THEN "item" ELSE "comment"
        BY <2>1 DEF asm_mode
      <3> QED
        BY <1>3, <1>5, <2>4, <3>1, AsmSeparate, AsmText!ScanComment DEF Asm!Goto
    <2>5. AsmScans'
      BY <1>3, <1>5, <2>1, <2>4 DEF AsmScans
    <2> QED
      BY <2>1, <2>2, <2>3, <2>5 DEF AsmInv
  <1> QED
    BY <1>1, <1>4, <1>5

LEMMA AsmSecond ==
    ASSUME AsmInv, Asm!second
    PROVE  AsmInv'
  <1>1. PICK result \in Asm!results :
          /\ Asm!sys_read(result)
          /\ \/ result.eax # 0 /\ Asm!is_hexdigit(result.temp) /\ Asm!Goto("write")
             \/ /\ result.eax = 0 \/ ~Asm!is_hexdigit(result.temp)
                /\ Asm!sys_exit("exit(1)")
    BY DEF Asm!second
  <1>2. asm_pc = "second" /\ asm_mode = "second" /\ UNCHANGED esi
    BY DEF Asm!second, asm_mode
  <1>3. asm_failures' = 0 =>
           /\ AsmText!Scanned(input, position, "second", asm_output)
           /\ esi = 16 * AsmText!digit(input[position])
           /\ input \in Seq(Nat) /\ position \in 0 .. Len(input)
    BY <1>1, <1>2, AsmReads DEF AsmInv, AsmScans
  <1>4. asm_failures' = 0 /\ result.eax # 0 =>
           /\ position < Len(input) /\ position' = position + 1
           /\ result.temp = input[position + 1]
    BY <1>1, AsmReads
  <1>5. result.temp \in AsmText!HexDigit <=> Asm!is_hexdigit(result.temp)
    BY DEF Asm!is_hexdigit, AsmText!HexDigit
  <1>6. CASE /\ result.eax = 0 \/ ~Asm!is_hexdigit(result.temp)
             /\ Asm!sys_exit("exit(1)")
    <2>1. asm_failures' = 0 /\ result.eax # 0 => ~AsmText!Fine(input, position + 1)
      BY <1>3, <1>4, <1>5, <1>6, AsmSeparate, AsmText!ScanSecond
    <2> QED
      BY <1>1, <1>2, <1>6, <2>1, AsmExits DEF Asm!sys_exit
  <1>7. CASE result.eax # 0 /\ Asm!is_hexdigit(result.temp) /\ Asm!Goto("write")
    <2>1. /\ asm_exit' = asm_exit /\ asm_exit = "running" /\ asm_output' = asm_output
          /\ asm_pc' = "write" /\ asm_mode' = "second" /\ temp' = result.temp
          /\ input' = input /\ position' \in 0 .. Len(input)
      BY <1>1, <1>7, AsmReads DEF Asm!Goto, asm_mode
    <2>2. AsmTypeOK'
      BY <1>1, <2>1, AsmReads DEF AsmTypeOK
    <2>3. AsmDone'
      BY <2>1 DEF AsmDone
    <2>4. AsmScans'
      <3> SUFFICES ASSUME asm_failures' = 0
                   PROVE  /\ position' - 1 \in 0 .. Len(input)
                          /\ AsmText!Scanned(input, position' - 1, "second", asm_output)
                          /\ esi = 16 * AsmText!digit(input[position' - 1])
                          /\ temp' = input[position'] /\ temp' \in AsmText!HexDigit
        BY <1>2, <2>1 DEF AsmScans
      <3>1. position' - 1 = position
        BY <1>3, <1>4, <1>7
      <3> QED
        BY <1>3, <1>4, <1>5, <1>7, <2>1, <3>1
    <2> QED
      BY <2>1, <2>2, <2>3, <2>4 DEF AsmInv
  <1> QED
    BY <1>1, <1>6, <1>7

LEMMA AsmWrite ==
    ASSUME AsmInv, Asm!write
    PROVE  /\ AsmInv'
           /\ asm_output' = Append(asm_output, temp')
  <1>1. /\ asm_exit = "running" /\ asm_pc = "write" /\ asm_mode = "second"
        /\ temp' = esi + Asm!number(temp) /\ asm_output' = Append(asm_output, temp')
        /\ asm_pc' = "item" /\ asm_mode' = "item"
        /\ UNCHANGED <<input, position, asm_failures, esi, asm_exit>>
    BY DEF Asm!write, asm_mode
  <1>2. AsmTypeOK' /\ AsmDone'
    BY <1>1 DEF AsmInv, AsmTypeOK, AsmDone
  <1>3. AsmScans'
    <2> SUFFICES ASSUME asm_failures = 0
                 PROVE  /\ position \in 0 .. Len(input)
                        /\ AsmText!Scanned(input, position, "item", asm_output')
      BY <1>1 DEF AsmScans
    <2> DEFINE n == position - 1
    <2>1. /\ n \in 0 .. Len(input) /\ position \in 0 .. Len(input) /\ input \in Seq(Nat)
          /\ AsmText!Scanned(input, n, "second", asm_output)
          /\ esi = 16 * AsmText!digit(input[n])
          /\ temp = input[position] /\ temp \in AsmText!HexDigit
      BY <1>1, FileType DEF AsmInv, AsmTypeOK, AsmScans
    <2>2. n + 1 = position /\ n < Len(input)
      BY <2>1
    <2>3. \A c \in AsmText!HexDigit : Asm!number(c) = AsmText!digit(c)
      BY DEF AsmText!HexDigit, Asm!number, AsmText!digit
    <2>4. temp' = AsmText!byte(input, n)
      BY <1>1, <2>1, <2>2, <2>3 DEF AsmText!byte
    <2> HIDE DEF n
    <2> QED
      BY <1>1, <2>1, <2>2, <2>4, AsmSeparate, AsmText!ScanSecond
  <1> QED
    BY <1>1, <1>2, <1>3 DEF AsmInv

LEMMA AsmStep == AsmInv /\ [Next]_vars => AsmInv'
  <1> SUFFICES ASSUME AsmInv, [Next]_vars
               PROVE  AsmInv'
    OBVIOUS
  <1>1. CASE hex2bin_nasm
    BY <1>1, AsmItem, AsmComment, AsmSecond, AsmWrite DEF hex2bin_nasm, Asm!Next
  <1>2. CASE hex2bin_c \/ UNCHANGED vars
    <2>1. input' = input /\ UNCHANGED asmvars
      BY <1>2 DEF hex2bin_c, C!Next, C!Item, C!Second, C!Comment, C!getchar, vars
    <2> QED
      BY <2>1 DEF asmvars, AsmInv, AsmTypeOK, AsmScans, AsmDone, asm_mode
  <1> QED
    BY <1>1, <1>2 DEF Next

(* So has the program in assembly, as long as no read fails.               *)
THEOREM AsmInvariant == Spec => []AsmInv
  BY AsmInitial, AsmStep, PTL DEF Spec

(* What a step shows of itself when no read can fail.                      *)
LEMMA AsmMoves ==
    ASSUME AsmInv, Asm!Next, MaxFailuresAsm = 0
    PROVE  /\ asm_exit = "running" /\ input' = input /\ asm_failures = 0 /\ asm_failures' = 0
           /\ \/ UNCHANGED <<asm_output, asm_exit>>
              \/ asm_output' = asm_output /\ asm_exit' \in {"exit(0)", "exit(1)"}
              \/ \E b : asm_output' = Append(asm_output, b) /\ UNCHANGED asm_exit
  <1>1. AsmInv'
    BY AsmItem, AsmComment, AsmSecond, AsmWrite DEF Asm!Next
  <1>2. asm_failures = 0 /\ asm_failures' = 0
    <2>1. \A n \in 0 .. MaxFailuresAsm : n = 0
      OBVIOUS
    <2>2. asm_failures \in 0 .. MaxFailuresAsm /\ asm_failures' \in 0 .. MaxFailuresAsm
      BY <1>1 DEF AsmInv, AsmTypeOK
    <2> QED
      BY <2>1, <2>2
  <1>3. CASE Asm!write
    BY <1>2, <1>3 DEF Asm!write
  <1>4. CASE Asm!item \/ Asm!discard_comment \/ Asm!second
    <2>1. /\ asm_exit = "running" /\ input' = input /\ asm_output' = asm_output
          /\ asm_exit' = asm_exit \/ asm_exit' \in {"exit(0)", "exit(1)"}
      <3>1. CASE Asm!item
        BY <3>1 DEF Asm!item, Asm!sys_read, Asm!Goto, Asm!sys_exit
      <3>2. CASE Asm!discard_comment
        BY <3>2 DEF Asm!discard_comment, Asm!sys_read, Asm!Goto, Asm!sys_exit
      <3>3. CASE Asm!second
        BY <3>3 DEF Asm!second, Asm!sys_read, Asm!Goto, Asm!sys_exit
      <3> QED
        BY <1>4, <3>1, <3>2, <3>3
    <2> QED
      BY <1>2, <2>1
  <1> QED
    BY <1>3, <1>4 DEF Asm!Next

LEMMA AsmMeaning ==
    ASSUME NEW s \in Input
    PROVE  /\ Asm!Hex!Meaning[s].bytes = AsmText!Bytes(AsmText!Readable(s))
           /\ Asm!Hex!Meaning[s].exit = IF AsmText!Accepted(s) THEN "exit(0)" ELSE "exit(1)"
  BY AsmTextSame DEF Asm!Hex!Meaning

LEMMA AsmImplements ==
    ASSUME MaxFailuresAsm = 0, AsmInv, AsmInv', [Next]_vars
    PROVE  [Asm!Hex!Next]_(Asm!Hex!vars)
  <1> SUFFICES Asm!Hex!Next \/ UNCHANGED <<input, asm_failures > 0, asm_output, asm_exit>>
    BY DEF Asm!Hex!vars
  <1>1. CASE hex2bin_nasm
    <2>1. /\ asm_exit = "running" /\ input' = input /\ asm_failures = 0 /\ asm_failures' = 0
          /\ \/ UNCHANGED <<asm_output, asm_exit>>
             \/ asm_output' = asm_output /\ asm_exit' \in {"exit(0)", "exit(1)"}
             \/ \E b : asm_output' = Append(asm_output, b) /\ UNCHANGED asm_exit
      BY <1>1, AsmMoves DEF hex2bin_nasm
    <2>2. /\ Asm!Hex!Meaning[input].bytes = AsmText!Bytes(AsmText!Readable(input))
          /\ Asm!Hex!Meaning[input].exit = IF AsmText!Accepted(input) THEN "exit(0)" ELSE "exit(1)"
          /\ input \in Seq(Nat)
      BY AsmMeaning, FileType DEF AsmInv
    <2>3. CASE UNCHANGED <<asm_output, asm_exit>>
      BY <2>1, <2>3
    <2>4. CASE asm_output' = asm_output /\ asm_exit' \in {"exit(0)", "exit(1)"}
      <3>1. /\ asm_output = AsmText!Bytes(AsmText!Readable(input))
            /\ asm_exit' = IF AsmText!Accepted(input) THEN "exit(0)" ELSE "exit(1)"
        BY <2>1, <2>4 DEF AsmInv, AsmDone
      <3>2. Asm!Hex!Finish
        BY <2>1, <2>2, <2>4, <3>1 DEF Asm!Hex!Finish
      <3> QED
        BY <3>2 DEF Asm!Hex!Next
    <2>5. CASE \E b : asm_output' = Append(asm_output, b) /\ UNCHANGED asm_exit
      <3>1. PICK b : asm_output' = Append(asm_output, b)
        BY <2>5
      <3> DEFINE bytes == AsmText!Bytes(AsmText!Readable(input))
                 m == IF asm_pc = "write" THEN position - 1 ELSE position
                 k == Len(asm_output)
      <3>2. /\ m \in 0 .. Len(input) /\ asm_mode \in AsmText!Mode
            /\ AsmText!Scanned(input, m, asm_mode, asm_output)
        BY <2>1, <2>2 DEF AsmInv, AsmScans, asm_mode, AsmText!Mode
      <3>3. /\ m' \in 0 .. Len(input) /\ asm_mode' \in AsmText!Mode
            /\ AsmText!Scanned(input, m', asm_mode', asm_output')
        BY <2>1, <2>2, <2>5 DEF AsmInv, AsmScans, asm_mode, AsmText!Mode
      <3> HIDE DEF m
      <3>4. asm_output \in Seq(Int)
        BY <2>2, <3>2, AsmSeparate, AsmText!ScanWrites
      <3>5. /\ asm_output' \in Seq(Int) /\ bytes \in Seq(Int)
            /\ Len(asm_output') <= Len(bytes)
            /\ \A i \in 1 .. Len(asm_output') : bytes[i] = asm_output'[i]
        BY <2>2, <3>3, AsmSeparate, AsmText!ScanWrites
      <3> HIDE DEF bytes
      <3>6. k \in Nat /\ Len(asm_output') = k + 1 /\ asm_output'[k + 1] = b
        <4>1. k \in Nat
          BY <3>4
        <4>2. \A o \in Seq(Int) : Len(Append(o, b)) = Len(o) + 1 /\ Append(o, b)[Len(o) + 1] = b
          OBVIOUS
        <4> QED
          BY <3>1, <3>4, <4>1, <4>2
      <3>7. k < Len(bytes) /\ b = bytes[k + 1]
        BY <3>5, <3>6
      <3>8. Asm!Hex!Write
        BY <2>1, <2>2, <2>5, <3>1, <3>7 DEF Asm!Hex!Write, bytes
      <3> QED
        BY <3>8 DEF Asm!Hex!Next
    <2> QED
      BY <2>1, <2>3, <2>4, <2>5
  <1>2. CASE hex2bin_c \/ UNCHANGED vars
    <2>1. input' = input /\ UNCHANGED asmvars
      BY <1>2 DEF hex2bin_c, C!Next, C!Item, C!Second, C!Comment, C!getchar, vars
    <2> QED
      BY <2>1 DEF asmvars
  <1> QED
    BY <1>1, <1>2 DEF Next

(* The program in assembly is a HEX compiler when no read fails, for the   *)
(* white space that its header names: the safety part of ImplementsHexAsm. *)
THEOREM AsmCompilesHex ==
    ASSUME MaxFailuresAsm = 0
    PROVE  Spec => Asm!Hex!Safety
  <1>1. Init => Asm!Hex!Init
    BY DEF Init, Asm!Init, Asm!Start, Asm!Hex!Init
  <1>2. AsmInv /\ AsmInv' /\ [Next]_vars => [Asm!Hex!Next]_(Asm!Hex!vars)
    BY AsmImplements
  <1> QED
    BY <1>1, <1>2, AsmInvariant, PTL DEF Spec, Asm!Hex!Safety

-----------------------------------------------------------------------------
(* The two programs.  Files without a carriage return have the same        *)
(* comments, hence the same pairs and bytes, for both of them.             *)
LEMMA SameBytes ==
    ASSUME NEW s \in Seq(Nat), \A i \in 1 .. Len(s) : s[i] # 13
    PROVE  /\ \A i \in 0 .. Len(s) : CText!InComment(s, i) <=> AsmText!InComment(s, i)
           /\ CText!Digits(s) = AsmText!Digits(s)
           /\ CText!Pairs(s) = AsmText!Pairs(s)
           /\ CText!Bytes(s) = AsmText!Bytes(s)
  <1>1. CText!Hash = AsmText!Hash /\ CText!HexDigit = AsmText!HexDigit
    BY DEF CText!Hash, AsmText!Hash, CText!HexDigit, AsmText!HexDigit
  <1>2. \A i \in 0 .. Len(s) : CText!InComment(s, i) <=> AsmText!InComment(s, i)
    <2>1. \A k \in 1 .. Len(s) : s[k] \notin {10} <=> s[k] \notin {10, 13}
      OBVIOUS
    <2>2. ASSUME NEW i \in 0 .. Len(s), NEW j \in 1 .. i
          PROVE  (\A k \in j .. i : s[k] \notin {10}) <=> (\A k \in j .. i : s[k] \notin {10, 13})
      BY <2>1, <2>2
    <2> QED
      BY <1>1, <2>2 DEF CText!InComment, AsmText!InComment
  <1>3. CText!Digits(s) = AsmText!Digits(s)
    <2>1. DOMAIN s \subseteq 0 .. Len(s)
      OBVIOUS
    <2> QED
      BY <1>1, <1>2, <2>1 DEF CText!Digits, AsmText!Digits
  <1>4. CText!Pairs(s) = AsmText!Pairs(s)
    BY <1>3 DEF CText!Pairs, AsmText!Pairs
  <1>5. CText!Bytes(s) = AsmText!Bytes(s)
    <2>1. \A c : CText!digit(c) = AsmText!digit(c)
      BY DEF CText!digit, AsmText!digit
    <2>2. \A P : CText!Cardinality(P) = AsmText!Cardinality(P)
      BY DEF CText!Cardinality, AsmText!Cardinality, CText!IsFiniteSet, AsmText!IsFiniteSet
    <2>3. \A P, n : CText!pair(P, n) = AsmText!pair(P, n)
      BY <2>2 DEF CText!pair, AsmText!pair, CText!number, AsmText!number
    <2> QED
      BY <1>4, <2>1, <2>2, <2>3 DEF CText!Bytes, AsmText!Bytes
  <1> QED
    BY <1>2, <1>3, <1>4, <1>5

(* The program in C accepts fewer of them, and no fewer without the other  *)
(* white space.                                                            *)
LEMMA SameAccepted ==
    ASSUME NEW s \in Seq(Nat), \A i \in 1 .. Len(s) : s[i] # 13
    PROVE  /\ CText!Accepted(s) => AsmText!Accepted(s)
           /\ (\A i \in 1 .. Len(s) : s[i] \notin {11, 12}) /\ AsmText!Accepted(s)
                => CText!Accepted(s)
  <1>1. /\ \A i \in 0 .. Len(s) : CText!InComment(s, i) <=> AsmText!InComment(s, i)
        /\ CText!Digits(s) = AsmText!Digits(s)
        /\ CText!Pairs(s) = AsmText!Pairs(s)
        /\ CText!HexDigit = AsmText!HexDigit
    BY SameBytes DEF CText!HexDigit, AsmText!HexDigit
  <1>2. \A c : c \in {32, 9, 10} <=> c \in Asm!white_space /\ c \notin {11, 12, 13}
    BY DEF Asm!white_space
  <1> DEFINE ends(i) == s[i] \in {10} /\ i > 1 /\ CText!InComment(s, i - 1)
             asm_ends(i) == s[i] \in {10, 13} /\ i > 1 /\ AsmText!InComment(s, i - 1)
  <1>3. \A i \in DOMAIN s : i \in 0 .. Len(s) /\ i \in 1 .. Len(s) /\ (ends(i) <=> asm_ends(i))
    BY <1>1
  <1>4. /\ CText!Accepted(s) <=>
             /\ \A i \in DOMAIN s : s[i] \in {32, 9, 10} \cup CText!HexDigit
                                      \/ CText!InComment(s, i) \/ ends(i)
             /\ \A i \in CText!Pairs(s) : i + 1 \in CText!Digits(s)
        /\ AsmText!Accepted(s) <=>
             /\ \A i \in DOMAIN s : s[i] \in Asm!white_space \cup AsmText!HexDigit
                                      \/ AsmText!InComment(s, i) \/ asm_ends(i)
             /\ \A i \in AsmText!Pairs(s) : i + 1 \in AsmText!Digits(s)
    BY DEF CText!Accepted, AsmText!Accepted
  <1> HIDE DEF ends, asm_ends
  <1> QED
    BY <1>1, <1>2, <1>3, <1>4

LEMMA SamePrefix ==
    ASSUME NEW s \in Seq(Nat), NEW n \in 0 .. Len(s)
    PROVE  /\ CText!Prefix(s, n) = AsmText!Prefix(s, n)
           /\ CText!Prefix(s, n) \in Seq(Nat)
           /\ Len(CText!Prefix(s, n)) = n
           /\ \A i \in 1 .. n : CText!Prefix(s, n)[i] = s[i]
  BY CText!PrefixCharacters DEF CText!Prefix, AsmText!Prefix

(* A file without the characters that only the program in assembly knows   *)
(* is the same to both.                                                    *)
LEMMA SameFile ==
    ASSUME NEW s \in Seq(Nat), \A i \in 1 .. Len(s) : s[i] \notin {11, 12, 13}
    PROVE  /\ CText!Accepted(s) <=> AsmText!Accepted(s)
           /\ CText!Bytes(CText!Readable(s)) = AsmText!Bytes(AsmText!Readable(s))
  <1>1. ASSUME NEW n \in 0 .. Len(s)
        PROVE  CText!Accepted(CText!Prefix(s, n)) <=> AsmText!Accepted(AsmText!Prefix(s, n))
    <2> DEFINE p == CText!Prefix(s, n)
    <2>1. p \in Seq(Nat) /\ Len(p) = n /\ AsmText!Prefix(s, n) = p /\ \A i \in 1 .. n : p[i] = s[i]
      BY SamePrefix
    <2> HIDE DEF p
    <2>2. ASSUME NEW i \in 1 .. Len(p)
          PROVE  p[i] # 13 /\ p[i] \notin {11, 12}
      <3>1. i \in 1 .. Len(s) /\ p[i] = s[i]
        BY <2>1
      <3> QED
        BY <3>1
    <2>3. CText!Accepted(p) <=> AsmText!Accepted(p)
      BY <2>1, <2>2, SameAccepted
    <2> QED
      BY <2>1, <2>3 DEF p
  <1>2. CText!Accepted(s) <=> AsmText!Accepted(s)
    BY SameAccepted
  <1>3. PICK n \in 0 .. Len(s) : CText!ReadableLength(s, n)
    BY CSeparate, CText!ReadableExists
  <1>4. \A m \in n + 1 .. Len(s) : m \in 0 .. Len(s)
    OBVIOUS
  <1>5. AsmText!ReadableLength(s, n)
    BY <1>1, <1>3, <1>4 DEF CText!ReadableLength, AsmText!ReadableLength
  <1>6. CText!Readable(s) = CText!Prefix(s, n) /\ AsmText!Readable(s) = CText!Prefix(s, n)
    BY <1>3, <1>5, CSeparate, AsmSeparate, SamePrefix, CText!ReadableUnique, AsmText!ReadableUnique
  <1>7. CText!Bytes(CText!Prefix(s, n)) = AsmText!Bytes(CText!Prefix(s, n))
    <2> DEFINE p == CText!Prefix(s, n)
    <2>1. p \in Seq(Nat) /\ Len(p) = n /\ \A i \in 1 .. n : p[i] = s[i]
      BY SamePrefix
    <2> HIDE DEF p
    <2>2. ASSUME NEW i \in 1 .. Len(p)
          PROVE  p[i] # 13
      <3>1. i \in 1 .. Len(s) /\ p[i] = s[i]
        BY <2>1
      <3> QED
        BY <3>1
    <2>3. CText!Bytes(p) = AsmText!Bytes(p)
      BY <2>1, <2>2, SameBytes
    <2> QED
      BY <2>3 DEF p
  <1> QED
    BY <1>2, <1>6, <1>7

(* What the program in C accepts means the same to both, unless a carriage *)
(* return ends a comment.                                                  *)
LEMMA SameAcceptedFile ==
    ASSUME NEW s \in Seq(Nat), \A i \in 1 .. Len(s) : s[i] # 13, CText!Accepted(s)
    PROVE  /\ AsmText!Accepted(s)
           /\ CText!Bytes(CText!Readable(s)) = AsmText!Bytes(AsmText!Readable(s))
  <1>1. AsmText!Accepted(s)
    BY SameAccepted
  <1>2. Len(s) \in 0 .. Len(s) /\ \A m \in Len(s) + 1 .. Len(s) : FALSE
    OBVIOUS
  <1>3. CText!Prefix(s, Len(s)) = s /\ AsmText!Prefix(s, Len(s)) = s
    BY CText!WholeFile, AsmText!WholeFile
  <1>4. CText!ReadableLength(s, Len(s)) /\ AsmText!ReadableLength(s, Len(s))
    BY <1>1, <1>2, <1>3 DEF CText!ReadableLength, AsmText!ReadableLength
  <1>5. CText!Readable(s) = s /\ AsmText!Readable(s) = s
    BY <1>2, <1>3, <1>4, CSeparate, AsmSeparate, CText!ReadableUnique, AsmText!ReadableUnique
  <1> QED
    BY <1>1, <1>5, SameBytes

(* The program in assembly ends before the one in C begins.                *)
Sequential == asm_exit = "running" => c_exit = "running"

LEMMA SequentialStep == Sequential /\ [Next]_vars => Sequential'
  <1>1. ASSUME Asm!Next
        PROVE  asm_exit = "running"
    BY <1>1 DEF Asm!Next, Asm!item, Asm!discard_comment, Asm!second, Asm!write, Asm!sys_read
  <1> QED
    BY <1>1 DEF Sequential, Next, hex2bin_nasm, hex2bin_c, vars, cvars, asmvars

LEMMA Interchange == CInv /\ AsmInv /\ Sequential => Interchangeable
  <1> SUFFICES ASSUME CInv, AsmInv, Sequential,
                      c_exit # "running", c_failures = 0, asm_failures = 0
               PROVE  /\ ToSet(input) \cap {11, 12, 13} = {}
                           => asm_output = c_output /\ asm_exit = c_exit
                      /\ c_exit = "exit(0)" /\ 13 \notin ToSet(input)
                           => asm_output = c_output /\ asm_exit = "exit(0)"
    BY DEF Interchangeable
  <1>1. input \in Seq(Nat) /\ \A i \in 1 .. Len(input) : input[i] \in ToSet(input)
    BY FileType DEF CInv, ToSet
  <1>2. /\ c_output = CText!Bytes(CText!Readable(input))
        /\ c_exit = IF CText!Accepted(input) THEN "exit(0)" ELSE "exit(1)"
    BY DEF CInv, CDone
  <1>3. /\ asm_output = AsmText!Bytes(AsmText!Readable(input))
        /\ asm_exit = IF AsmText!Accepted(input) THEN "exit(0)" ELSE "exit(1)"
    BY DEF AsmInv, AsmDone, Sequential
  <1>4. ASSUME ToSet(input) \cap {11, 12, 13} = {}
        PROVE  asm_output = c_output /\ asm_exit = c_exit
    <2>1. \A i \in 1 .. Len(input) : input[i] \notin {11, 12, 13}
      BY <1>1, <1>4
    <2> QED
      BY <1>1, <1>2, <1>3, <2>1, SameFile
  <1>5. ASSUME c_exit = "exit(0)", 13 \notin ToSet(input)
        PROVE  asm_output = c_output /\ asm_exit = "exit(0)"
    <2>1. \A i \in 1 .. Len(input) : input[i] # 13
      BY <1>1, <1>5
    <2>2. CText!Accepted(input)
      BY <1>2, <1>5
    <2> QED
      BY <1>1, <1>2, <1>3, <2>1, <2>2, SameAcceptedFile
  <1> QED
    BY <1>4, <1>5

(* Either program may stand for the other, as Interchangeable says: on     *)
(* every file, as long as no read fails.                                   *)
THEOREM EitherCompiler == Spec => []Interchangeable
  <1>1. Init => Sequential
    BY DEF Init, C!Start, Sequential
  <1> QED
    BY <1>1, SequentialStep, CInvariant, AsmInvariant, Interchange, PTL DEF Spec
=============================================================================
