---------------------------- MODULE PipelineProofs ----------------------------
(***************************************************************************)
(* Proofs about Pipeline, for every set of files, every size of the pipes  *)
(* and of the buffers, and every order in which the processes run.         *)
(***************************************************************************)
EXTENDS Pipeline, TLAPS

HText == INSTANCE HexTextProofs WITH Blank <- {32, 9, 10}, CommentEnd <- {10}

-----------------------------------------------------------------------------
(* The inductive invariant.  The stages in front of hex2bin write          *)
(* characters, and nothing is read that was not sent before.               *)
MacroTypeOK ==
    /\ file \in Seq(Nat) /\ m_read \in 0 .. Len(file)
    /\ name \in Seq(Nat) /\ value \in Seq(Nat)
    /\ \A n \in DOMAIN macro_definitions : macro_definitions[n] \in Seq(Nat)
    /\ m_output \in Seq(Nat) /\ m_sent \in 0 .. Len(m_output)

LabelTypeOK ==
    /\ l_read \in 0 .. m_sent
    /\ buffer \in Seq(Nat) /\ it \in Nat \ {0} /\ location \in Nat
    /\ \A n \in DOMAIN labels : labels[n] \in Nat
    /\ l_output \in Seq(Nat) /\ l_sent \in 0 .. Len(l_output)

HexTypeOK ==
    /\ h_read \in 0 .. l_sent /\ failures = 0 /\ h_pc \in HText!Mode
    /\ h_exit \in {"running", "exit(0)", "exit(1)"}

(* While it runs hex2bin has scanned what it has read of everything that   *)
(* label2hex will have written.                                            *)
Scanning ==
    h_exit = "running" =>
        /\ HText!Scanned(l_output, h_read, h_pc, h_output)
        /\ h_pc = "second" => c1 = HText!digit(l_output[h_read])

(* It has ended at the end of a file that will not grow, or in front of a  *)
(* character that no continuation of the file makes good.                  *)
Decided ==
    h_exit # "running" =>
        \E n \in 0 .. Len(l_output) :
            /\ HText!Scanned(l_output, n, h_pc, h_output)
            /\ \/ /\ Closed2 /\ n = Len(l_output)
                  /\ h_exit = IF h_pc = "second" THEN "exit(1)" ELSE "exit(0)"
               \/ /\ n < Len(l_output) /\ ~HText!Fine(l_output, n + 1)
                  /\ h_exit = "exit(1)"

PInv == MacroTypeOK /\ LabelTypeOK /\ HexTypeOK /\ Scanning /\ Decided

-----------------------------------------------------------------------------
(* Lemmas about the operators of the stages.                               *)
LEMMA NaturalMin ==
    ASSUME NEW a \in Nat, NEW b \in Nat
    PROVE  Min({a, b}) \in {a, b} /\ Min({a, b}) <= a /\ Min({a, b}) <= b
  <1>1. \E x \in {a, b} : \A y \in {a, b} : x =< y
    OBVIOUS
  <1> QED
    BY <1>1 DEF Min

LEMMA PassedOn ==
    ASSUME NEW length \in Nat, NEW sent \in 0 .. length, NEW read \in 0 .. sent
    PROVE  Min({length, read + Capacity}) \in read .. length
  <1>1. Capacity \in Nat /\ read + Capacity \in Nat
    BY PipelineAssumption
  <1> DEFINE m == Min({length, read + Capacity})
  <1>2. m \in {length, read + Capacity} /\ m <= length
    BY <1>1, NaturalMin
  <1> HIDE DEF m
  <1>3. m \in read .. length
    BY <1>1, <1>2
  <1> QED
    BY <1>3 DEF m

LEMMA RunEnds ==
    ASSUME NEW s \in Seq(Nat), NEW S
    PROVE  RunLength(s, S) \in 0 .. Len(s)
  <1> DEFINE T == {n \in 0 .. Len(s) : n < Len(s) => s[n + 1] \notin S}
  <1>1. T \in SUBSET Nat /\ Len(s) \in T
    OBVIOUS
  <1>2. PICK n \in T : \A k \in T : n <= k
    BY <1>1, HText!Least, Zenon
  <1>3. n \in 0 .. Len(s) /\ (n < Len(s) => s[n + 1] \notin S)
    OBVIOUS
  <1>4. ASSUME NEW i \in 1 .. n, s[i] \notin S
        PROVE  FALSE
    <2>1. i - 1 \in T
      BY <1>3, <1>4
    <2> QED
      BY <1>2, <1>3, <2>1
  <1>5. \E k \in 0 .. Len(s) : /\ \A i \in 1 .. k : s[i] \in S
                               /\ k < Len(s) => s[k + 1] \notin S
    BY <1>3, <1>4
  <1> QED
    BY <1>5 DEF RunLength

LEMMA WiderElements ==
    ASSUME NEW S, NEW T, S \subseteq T, NEW s \in Seq(S)
    PROVE  s \in Seq(T)
  OBVIOUS

LEMMA Beginning ==
    ASSUME NEW s \in Seq(Nat), NEW n \in 0 .. Len(s)
    PROVE  /\ SubSeq(s, 1, n) \in Seq(Nat)
           /\ Len(SubSeq(s, 1, n)) = n
           /\ \A i \in 1 .. n : SubSeq(s, 1, n)[i] = s[i]
  OBVIOUS

LEMMA SameElements ==
    ASSUME NEW s \in Seq(Nat), NEW t \in Seq(Nat), Len(s) = Len(t),
           \A i \in 1 .. Len(s) : s[i] = t[i]
    PROVE  s = t
  OBVIOUS

LEMMA CString ==
    ASSUME NEW s \in Seq(Nat)
    PROVE  Macro!c_str(s) \in Seq(Nat)
  <1>1. Macro!RunLength(s, Int \ {0}) = RunLength(s, Int \ {0})
    BY DEF Macro!RunLength, RunLength
  <1> QED
    BY <1>1, RunEnds, Beginning DEF Macro!c_str

LEMMA IdentifierEnds ==
    ASSUME buffer \in Seq(Nat), NEW i \in Nat \ {0}, i <= Len(buffer) + 1
    PROVE  Label!after_identifier(i) \in i .. Len(buffer) + 1
  <1> DEFINE part(j) == Label!is_id_cont(Label!read_byte(j))
             T == {j \in i .. Len(buffer) + 1 : ~part(j)}
  <1>1. ~part(Len(buffer) + 1)
    <2>1. Len(buffer) + 1 \notin DOMAIN buffer
      OBVIOUS
    <2> QED
      BY <2>1 DEF Label!read_byte, Label!is_id_cont, Label!is_id_start
  <1>2. \A j \in 1 .. Len(buffer) : part(j) <=> Label!is_id_cont(buffer[j])
    BY DEF Label!read_byte
  <1> HIDE DEF part
  <1>3. T \in SUBSET Nat /\ Len(buffer) + 1 \in T
    BY <1>1
  <1>4. PICK n \in T : \A k \in T : n <= k
    BY <1>3, HText!Least, Zenon
  <1>5. n \in i .. Len(buffer) + 1 /\ ~part(n)
    OBVIOUS
  <1>6. ASSUME NEW k \in i .. n - 1
        PROVE  Label!is_id_cont(buffer[k])
    <2>1. k \in 1 .. Len(buffer) /\ k \in i .. Len(buffer) + 1
      BY <1>5
    <2>2. part(k)
      BY <1>4, <1>5, <2>1
    <2> QED
      BY <1>2, <2>1, <2>2
  <1>7. \E j \in i .. Len(buffer) + 1 :
            ~Label!is_id_cont(Label!read_byte(j)) /\ \A k \in i .. j - 1 : Label!is_id_cont(buffer[k])
    BY <1>5, <1>6 DEF part
  <1> QED
    BY <1>7 DEF Label!after_identifier

LEMMA FourPieces ==
    ASSUME NEW s, DOMAIN s = 1 .. 4, Len(s) = 4, \A i \in 1 .. 4 : s[i] \in Seq(Nat)
    PROVE  FlattenSeq(s) \in Seq(Nat)
  <1> DEFINE next(f) == [i \in 1 .. Len(s) |-> IF i = 1 THEN s[i] ELSE f[i - 1] \o s[i]]
             flatten == CHOOSE f : f = next(f)
             g == [i \in 1 .. Len(s) |-> CASE i = 1 -> s[1]
                                           [] i = 2 -> s[1] \o s[2]
                                           [] i = 3 -> (s[1] \o s[2]) \o s[3]
                                           [] OTHER -> ((s[1] \o s[2]) \o s[3]) \o s[4]]
  <1>1. \A i \in 1 .. 4 : i \in {1, 2, 3, 4}
    OBVIOUS
  <1>2. g = next(g)
    BY <1>1
  <1>3. flatten = next(flatten)
    BY <1>2
  <1>4. FlattenSeq(s) = flatten[4]
    BY DEF FlattenSeq
  <1>5. \A f : \A i \in 1 .. 4 : next(f)[i] = IF i = 1 THEN s[i] ELSE f[i - 1] \o s[i]
    OBVIOUS
  <1> HIDE DEF flatten, g, next
  <1>6. ASSUME NEW i \in 1 .. 4
        PROVE  flatten[i] = IF i = 1 THEN s[i] ELSE flatten[i - 1] \o s[i]
    <2>1. flatten[i] = next(flatten)[i]
      BY <1>3
    <2> QED
      BY <1>5, <2>1, Zenon
  <1>7. \A a, b \in Seq(Nat) : a \o b \in Seq(Nat)
    OBVIOUS
  <1>8. /\ flatten[1] = s[1] /\ flatten[2] = flatten[1] \o s[2]
        /\ flatten[3] = flatten[2] \o s[3] /\ flatten[4] = flatten[3] \o s[4]
    <2>1. flatten[1] = s[1]
      BY <1>6
    <2>2. flatten[2] = flatten[2 - 1] \o s[2]
      BY <1>6
    <2>3. flatten[3] = flatten[3 - 1] \o s[3]
      BY <1>6
    <2>4. flatten[4] = flatten[4 - 1] \o s[4]
      BY <1>6
    <2>5. 2 - 1 = 1 /\ 3 - 1 = 2 /\ 4 - 1 = 3
      OBVIOUS
    <2> QED
      BY <2>1, <2>2, <2>3, <2>4, <2>5, Zenon
  <1>9. flatten[1] \in Seq(Nat) /\ flatten[2] \in Seq(Nat)
    BY <1>7, <1>8
  <1>10. flatten[3] \in Seq(Nat)
    BY <1>7, <1>8, <1>9
  <1> QED
    BY <1>4, <1>7, <1>8, <1>10

LEMMA HexOfAddress ==
    ASSUME NEW n \in Nat
    PROVE  Label!write_hex(n) \in Seq(Nat)
  <1> DEFINE byte(i) == LittleEndian(n)[i]
             nybble(k) == IF k < 10 THEN 48 + k ELSE 65 + k - 10
             s == [i \in 1 .. 4 |-> <<nybble(byte(i) \div 16), nybble(byte(i) % 16)>>]
  <1>1. \A i \in 1 .. 4 : byte(i) \in Nat
    <2>1. /\ n % 256 \in Nat /\ (n \div 256) % 256 \in Nat
          /\ (n \div 65536) % 256 \in Nat /\ n \div 16777216 \in Nat
      OBVIOUS
    <2> QED
      BY <2>1 DEF LittleEndian
  <1> HIDE DEF byte
  <1>2. ASSUME NEW i \in 1 .. 4
        PROVE  s[i] \in Seq(Nat)
    <2>1. byte(i) \div 16 \in Nat /\ byte(i) % 16 \in Nat
      BY <1>1
    <2>2. nybble(byte(i) \div 16) \in Nat /\ nybble(byte(i) % 16) \in Nat
      BY <2>1
    <2> QED
      BY <2>2
  <1>3. DOMAIN s = 1 .. 4 /\ Len(s) = 4
    OBVIOUS
  <1>4. Label!write_hex(n) = FlattenSeq(s)
    <2>1. Label!FlattenSeq(s) = FlattenSeq(s)
      BY DEF Label!FlattenSeq, FlattenSeq
    <2>2. Label!LittleEndian(n) = LittleEndian(n)
      BY DEF Label!LittleEndian, LittleEndian
    <2> QED
      BY <2>1, <2>2, Zenon DEF Label!write_hex, byte
  <1> HIDE DEF s
  <1> QED
    BY <1>2, <1>3, <1>4, FourPieces

-----------------------------------------------------------------------------
(* macro2label.                                                            *)
LEMMA JoinedSequence ==
    ASSUME NEW s \in Seq(Nat), NEW t \in Seq(Nat)
    PROVE  /\ s \o t \in Seq(Nat) /\ Len(s \o t) = Len(s) + Len(t)
           /\ \A i \in 1 .. Len(s) : (s \o t)[i] = s[i]
  OBVIOUS

LEMMA Appended ==
    ASSUME NEW s \in Seq(Nat), NEW c \in Nat
    PROVE  Append(s, c) \in Seq(Nat) /\ <<c>> \in Seq(Nat)
  OBVIOUS

LEMMA MacroReads ==
    ASSUME MacroTypeOK, NEW loop, Macro!In(loop)
    PROVE  /\ file' = file /\ m_read' \in 0 .. Len(file)
           /\ Macro!getchar \in Int /\ (Macro!getchar >= 0 => Macro!getchar \in Nat)
  <1>1. file \in Seq(Nat) /\ m_read \in 0 .. Len(file)
    BY DEF MacroTypeOK
  <1>2. m_read # Len(file) => file[m_read + 1] \in Nat
    BY <1>1
  <1> QED
    BY <1>1, <1>2 DEF Macro!In, Macro!getchar

LEMMA MacroBinds ==
    ASSUME MacroTypeOK, NEW v \in Seq(Nat), NEW n
    PROVE  LET map == Macro!Bind(macro_definitions, n, v)
           IN \A k \in DOMAIN map : map[k] \in Seq(Nat)
  BY DEF MacroTypeOK, Macro!Bind

LEMMA Replaced ==
    ASSUME MacroTypeOK
    PROVE  Macro!replacement \in Seq(Nat) /\ Macro!replacement \o <<32>> \in Seq(Nat)
  <1>1. (IF name \in DOMAIN macro_definitions THEN macro_definitions[name] ELSE name) \in Seq(Nat)
    BY DEF MacroTypeOK
  <1>2. Macro!replacement \in Seq(Nat)
    BY <1>1, CString DEF Macro!replacement
  <1> HIDE DEF Macro!replacement
  <1> QED
    BY <1>2, JoinedSequence, Appended

(* What a step of macro2label shows of itself.                             *)
LEMMA MacroMoves ==
    ASSUME MacroTypeOK, Macro!Next
    PROVE  /\ file' = file /\ m_read' \in 0 .. Len(file)
           /\ name' \in Seq(Nat) /\ value' \in Seq(Nat)
           /\ \A n \in DOMAIN macro_definitions' : macro_definitions'[n] \in Seq(Nat)
           /\ \E t \in Seq(Nat) : m_output' = m_output \o t
  <1> DEFINE c == Macro!getchar
             Goal == /\ file' = file /\ m_read' \in 0 .. Len(file)
                     /\ name' \in Seq(Nat) /\ value' \in Seq(Nat)
                     /\ \A n \in DOMAIN macro_definitions' : macro_definitions'[n] \in Seq(Nat)
                     /\ \E t \in Seq(Nat) : m_output' = m_output \o t
             Reads == file' = file /\ m_read' \in 0 .. Len(file) /\ c \in Int /\ (c >= 0 => c \in Nat)
  <1>1. /\ name \in Seq(Nat) /\ value \in Seq(Nat)
        /\ \A n \in DOMAIN macro_definitions : macro_definitions[n] \in Seq(Nat)
    BY DEF MacroTypeOK
  <1>2. m_output' = m_output => \E t \in Seq(Nat) : m_output' = m_output \o t
    <2>1. m_output = m_output \o <<>> /\ <<>> \in Seq(Nat)
      BY DEF MacroTypeOK
    <2> QED
      BY <2>1
  <1>3. \A t \in Seq(Nat) : Macro!Put(t) => \E u \in Seq(Nat) : m_output' = m_output \o u
    BY DEF Macro!Put
  <1>4. \A d : Macro!is_id_start(d) \/ Macro!is_id_cont(d) => d \in Nat
    BY DEF Macro!is_id_start, Macro!is_id_cont
  <1>5. <<>> \in Seq(Nat) /\ \A d \in Nat : <<d>> \in Seq(Nat) /\ Append(name, d) \in Seq(Nat)
                                            /\ Append(value, d) \in Seq(Nat)
    BY <1>1, Appended
  <1>6. CASE Macro!Main
    <2>1. Reads
      BY <1>6, MacroReads DEF Macro!Main
    <2> HIDE DEF c
    <2>2. \/ m_output' = m_output /\ Macro!Keep
          \/ (c = 35 \/ c = 46 \/ c >= 0) /\ Macro!Put(<<c>>) /\ Macro!Keep
          \/ /\ Macro!is_id_start(c) /\ name' = <<c>>
             /\ UNCHANGED <<m_output, value, macro_definitions>>
      BY <1>6 DEF Macro!Main, c
    <2>3. CASE m_output' = m_output /\ Macro!Keep
      BY <1>1, <1>2, <2>1, <2>3 DEF Macro!Keep
    <2>4. CASE (c = 35 \/ c = 46 \/ c >= 0) /\ Macro!Put(<<c>>) /\ Macro!Keep
      BY <1>1, <1>3, <1>5, <2>1, <2>4 DEF Macro!Keep
    <2>5. CASE /\ Macro!is_id_start(c) /\ name' = <<c>>
               /\ UNCHANGED <<m_output, value, macro_definitions>>
      BY <1>1, <1>2, <1>4, <1>5, <2>1, <2>5
    <2> QED
      BY <2>2, <2>3, <2>4, <2>5
  <1>7. ASSUME NEW loop, NEW T, Macro!Copy(loop, T)
        PROVE  Goal
    <2>1. Reads
      BY <1>7, MacroReads DEF Macro!Copy
    <2> HIDE DEF c
    <2>2. Macro!Put(IF c < 0 THEN <<>> ELSE <<c>>) /\ Macro!Keep
      BY <1>7 DEF Macro!Copy, c
    <2>3. (IF c < 0 THEN <<>> ELSE <<c>>) \in Seq(Nat)
      BY <1>5, <2>1
    <2> QED
      BY <1>1, <1>3, <2>1, <2>2, <2>3 DEF Macro!Keep
  <1>8. CASE Macro!MacroDefinition
    <2>1. Reads
      BY <1>8, MacroReads DEF Macro!MacroDefinition
    <2> HIDE DEF c
    <2>2. /\ (Macro!is_id_start(c) /\ name' = <<c>>) \/ name' = name
          /\ UNCHANGED <<value, macro_definitions, m_output>>
      BY <1>8 DEF Macro!MacroDefinition, c
    <2> QED
      BY <1>1, <1>2, <1>4, <1>5, <2>1, <2>2
  <1>9. CASE Macro!MacroName
    <2>1. Reads
      BY <1>9, MacroReads DEF Macro!MacroName
    <2> HIDE DEF c
    <2>2. /\ (Macro!is_id_cont(c) /\ name' = Append(name, c)) \/ name' = name
          /\ UNCHANGED <<value, macro_definitions, m_output>>
      BY <1>9 DEF Macro!MacroName, c
    <2> QED
      BY <1>1, <1>2, <1>4, <1>5, <2>1, <2>2
  <1>10. CASE Macro!MacroColon
    <2>1. Reads /\ m_output' = m_output /\ Macro!Keep
      BY <1>10, MacroReads DEF Macro!MacroColon
    <2> QED
      BY <1>1, <1>2, <2>1 DEF Macro!Keep
  <1>11. CASE Macro!MacroQuote
    <2>1. Reads /\ value' = <<>> /\ UNCHANGED <<name, macro_definitions, m_output>>
      BY <1>11, MacroReads DEF Macro!MacroQuote
    <2> QED
      BY <1>1, <1>2, <1>5, <2>1
  <1>12. CASE Macro!MacroValue
    <2>1. Reads
      BY <1>12, MacroReads DEF Macro!MacroValue
    <2> HIDE DEF c
    <2>2. /\ \/ UNCHANGED <<value, macro_definitions>>
             \/ macro_definitions' = Macro!Bind(macro_definitions, name, value) /\ value' = value
             \/ c >= 0 /\ value' = Append(value, c) /\ UNCHANGED macro_definitions
          /\ UNCHANGED <<name, m_output>>
      BY <1>12 DEF Macro!MacroValue, c
    <2>3. CASE macro_definitions' = Macro!Bind(macro_definitions, name, value) /\ value' = value
      BY <1>1, <1>2, <2>1, <2>2, <2>3, MacroBinds
    <2> QED
      BY <1>1, <1>2, <1>5, <2>1, <2>2, <2>3
  <1>13. CASE Macro!Identifier
    <2>1. Reads
      BY <1>13, MacroReads DEF Macro!Identifier
    <2> HIDE DEF c
    <2>2. /\ \/ Macro!is_id_cont(c) /\ name' = Append(name, c) /\ m_output' = m_output
             \/ Macro!Put(Macro!replacement) /\ name' = name
             \/ Macro!Put(Macro!replacement \o <<32>>) /\ name' = name
          /\ UNCHANGED <<value, macro_definitions>>
      BY <1>13 DEF Macro!Identifier, c
    <2>3. CASE Macro!is_id_cont(c) /\ name' = Append(name, c) /\ m_output' = m_output
      BY <1>1, <1>2, <1>4, <1>5, <2>1, <2>2, <2>3
    <2>4. CASE Macro!Put(Macro!replacement) /\ name' = name
      BY <1>1, <1>3, <2>1, <2>2, <2>4, Replaced
    <2>5. CASE Macro!Put(Macro!replacement \o <<32>>) /\ name' = name
      BY <1>1, <1>3, <2>1, <2>2, <2>5, Replaced
    <2> QED
      BY <2>2, <2>3, <2>4, <2>5
  <1> QED
    BY <1>6, <1>7, <1>8, <1>9, <1>10, <1>11, <1>12, <1>13
       DEF Macro!Next, Macro!Comment, Macro!LabelDefinition

-----------------------------------------------------------------------------
(* label2hex.                                                              *)
LEMMA LabelReads ==
    ASSUME MacroTypeOK, LabelTypeOK, Label!Receive
    PROVE  l_read' \in 0 .. m_sent /\ (Label!getchar < 0 \/ Label!getchar \in Nat)
  <1> DEFINE received == SubSeq(m_output, 1, m_sent)
  <1>1. m_output \in Seq(Nat) /\ m_sent \in 0 .. Len(m_output) /\ l_read \in 0 .. m_sent
    BY DEF MacroTypeOK, LabelTypeOK
  <1>2. received \in Seq(Nat) /\ Len(received) = m_sent
    BY <1>1, Beginning
  <1>3. l_read' = IF l_read = Len(received) THEN l_read ELSE l_read + 1
    BY DEF Label!Receive
  <1>4. Label!getchar = IF l_read = Len(received) THEN -1 ELSE received[l_read + 1]
    BY DEF Label!getchar
  <1> HIDE DEF received
  <1>5. l_read # m_sent => l_read + 1 \in 1 .. m_sent /\ received[l_read + 1] \in Nat
    BY <1>1, <1>2
  <1> QED
    BY <1>1, <1>2, <1>3, <1>4, <1>5

(* What a step of label2hex shows of itself.                               *)
LEMMA LabelMoves ==
    ASSUME MacroTypeOK, LabelTypeOK, Label!Next
    PROVE  /\ l_exit = "running" /\ l_read' \in 0 .. m_sent
           /\ buffer' \in Seq(Nat) /\ it' \in Nat \ {0} /\ location' \in Nat
           /\ \A n \in DOMAIN labels' : labels'[n] \in Nat
           /\ \E t \in Seq(Nat) : l_output' = l_output \o t
  <1> DEFINE Reads == l_read' \in 0 .. m_sent
             Fills == buffer' \in Seq(Nat)
             Counts == it' \in Nat \ {0} /\ location' \in Nat
             Binds == \A n \in DOMAIN labels' : labels'[n] \in Nat
             Writes == \E t \in Seq(Nat) : l_output' = l_output \o t
             Goal == l_exit = "running" /\ Reads /\ Fills /\ Counts /\ Binds /\ Writes
  <1>1. /\ l_read \in 0 .. m_sent
        /\ buffer \in Seq(Nat) /\ it \in Nat \ {0} /\ location \in Nat
        /\ \A n \in DOMAIN labels : labels[n] \in Nat
    BY DEF LabelTypeOK
  <1>2. /\ l_read' = l_read => Reads
        /\ buffer' = buffer => Fills
        /\ it' = it /\ location' = location => Counts
        /\ labels' = labels => Binds
    BY <1>1
  <1>3. l_output' = l_output => Writes
    <2>1. l_output = l_output \o <<>> /\ <<>> \in Seq(Nat)
      BY DEF LabelTypeOK
    <2> QED
      BY <2>1
  <1>4. \A n : \A a \in Nat : labels' = Label!Bind(labels, n, a) => Binds
    BY <1>1 DEF Label!Bind
  <1>5. 32 \in Nat /\ HEAD + location \in Nat /\ location + 1 \in Nat /\ location + 4 \in Nat
    BY <1>1 DEF HEAD
  <1>6. Len(buffer) \in Nat /\ \A i \in 1 .. Len(buffer) : buffer[i] \in Nat
    BY <1>1
  <1>7. \A i \in Nat \ {0} : i <= Len(buffer) + 1 =>
            Label!after_identifier(i) \in Nat \ {0} /\ Label!after_identifier(i) + 1 \in Nat \ {0}
    BY <1>1, <1>6, IdentifierEnds
  <1>8. \A code : Label!Exit(code) => Reads /\ Fills /\ Counts /\ Binds /\ Writes
    BY <1>2, <1>3 DEF Label!Exit
  <1>9. \A i \in Nat \ {0}, l \in Nat : Label!Labelling(i, l) => Reads /\ Counts /\ Writes
    BY <1>2, <1>3 DEF Label!Labelling
  <1>10. \A s \in Seq(Nat), i \in Nat \ {0} : \A space :
            Label!Put(s, i, space) => Reads /\ Fills /\ Counts /\ Binds /\ Writes
    BY <1>1, <1>2 DEF Label!Put
  <1> SUFFICES Goal
    OBVIOUS
  <1> HIDE DEF Reads, Fills, Counts, Binds, Writes
  <1>11. CASE Label!ReadInput
    <2>1. Label!getchar < 0 \/ Label!getchar \in Nat
      BY <1>11, LabelReads DEF Label!ReadInput
    <2>2. Reads
      BY <1>11, LabelReads DEF Label!ReadInput, Reads
    <2>3. Fills
      <3>1. buffer' = IF Label!getchar < 0 THEN buffer
                      ELSE Append(buffer, IF Label!getchar = 35 THEN 32 ELSE Label!getchar)
        BY <1>11 DEF Label!ReadInput
      <3> QED
        BY <1>1, <1>2, <2>1, <3>1, Appended DEF Fills
    <2> QED
      BY <1>2, <1>3, <1>11, <2>2, <2>3 DEF Label!ReadInput
  <1>12. CASE Label!ReadComment
    <2>1. Reads
      BY <1>12, LabelReads DEF Label!ReadComment, Reads
    <2> QED
      BY <1>2, <1>3, <1>12, <2>1 DEF Label!ReadComment
  <1>13. CASE Label!LabelsSpace
    BY <1>1, <1>2, <1>9, <1>13 DEF Label!LabelsSpace, Label!ReadingLabels
  <1>14. CASE Label!LabelsHexdigit
    BY <1>1, <1>2, <1>5, <1>9, <1>14 DEF Label!LabelsHexdigit, Label!ReadingLabels
  <1>15. CASE Label!LabelsInsertion
    <2>1. it <= Len(buffer) /\ l_exit = "running" /\ UNCHANGED <<buffer, labels>>
          /\ Label!Labelling(Label!after_identifier(it), location + 4)
      BY <1>15 DEF Label!LabelsInsertion, Label!ReadingLabels
    <2>2. Label!after_identifier(it) \in Nat \ {0}
      BY <1>1, <1>6, <1>7, <2>1
    <2> QED
      BY <1>2, <1>5, <1>9, <2>1, <2>2
  <1>16. CASE Label!LabelsDefinition
    <2>1. it <= Len(buffer) /\ l_exit = "running"
      BY <1>16 DEF Label!LabelsDefinition, Label!ReadingLabels
    <2> DEFINE colon == Label!after_identifier(it + 1)
               blanked == [i \in DOMAIN buffer |-> IF i \in it .. colon THEN 32 ELSE buffer[i]]
    <2>2. colon \in Nat \ {0} /\ colon + 1 \in Nat \ {0}
      BY <1>1, <1>6, <1>7, <2>1
    <2>3. \/ /\ \E n : labels' = Label!Bind(labels, n, HEAD + location)
             /\ buffer' = blanked
             /\ Label!Labelling(colon + 1, location)
          \/ Label!Exit("exit(1)")
      <3>1. Label!HEAD = HEAD
        BY DEF Label!HEAD, HEAD
      <3> QED
        BY <1>16, <3>1 DEF Label!LabelsDefinition
    <2>4. blanked \in Seq(Nat)
      <3>1. DOMAIN buffer = 1 .. Len(buffer)
        BY <1>1
      <3>2. blanked \in [1 .. Len(buffer) -> Nat]
        BY <1>6, <3>1
      <3> HIDE DEF blanked
      <3> QED
        BY <1>6, <3>2
    <2> HIDE DEF colon, blanked
    <2>5. CASE /\ \E n : labels' = Label!Bind(labels, n, HEAD + location)
               /\ buffer' = blanked
               /\ Label!Labelling(colon + 1, location)
      <3>1. Fills
        BY <2>4, <2>5 DEF Fills
      <3>2. Binds
        BY <1>4, <1>5, <2>5
      <3> QED
        BY <1>1, <1>9, <2>1, <2>2, <2>5, <3>1, <3>2
    <2> QED
      BY <1>8, <2>1, <2>3, <2>5
  <1>17. CASE Label!LabelsOther
    BY <1>8, <1>17 DEF Label!LabelsOther, Label!ReadingLabels
  <1>18. CASE Label!LabelsEnd
    <2>1. Binds
      <3>1. labels' = labels \/ \E n : labels' = Label!Bind(labels, n, location)
        BY <1>18 DEF Label!LabelsEnd
      <3> QED
        BY <1>1, <1>2, <1>4, <3>1
    <2>2. Counts
      BY <1>1, <1>18 DEF Label!LabelsEnd, Counts
    <2> QED
      BY <1>2, <1>3, <1>18, <2>1, <2>2 DEF Label!LabelsEnd
  <1>19. CASE Label!WriteLabel
    <2>1. it <= Len(buffer) /\ l_exit = "running"
      BY <1>19 DEF Label!WriteLabel, Label!Writing
    <2> DEFINE end == Label!after_identifier(it)
               n == SubSeq(buffer, it, end - 1)
    <2>2. end \in Nat \ {0}
      BY <1>1, <1>6, <1>7, <2>1
    <2>3. \/ Label!Exit("undefined") \/ Label!Exit("exit(1)")
          \/ n \in DOMAIN labels /\ Label!Put(Label!write_hex(labels[n]), end, FALSE)
      BY <1>19 DEF Label!WriteLabel
    <2> HIDE DEF end, n
    <2>4. CASE n \in DOMAIN labels /\ Label!Put(Label!write_hex(labels[n]), end, FALSE)
      <3>1. Label!write_hex(labels[n]) \in Seq(Nat)
        BY <1>1, <2>4, HexOfAddress
      <3> QED
        BY <1>10, <2>1, <2>2, <2>4, <3>1
    <2> QED
      BY <1>8, <2>1, <2>3, <2>4
  <1>20. CASE Label!WriteChar
    <2> DEFINE t == IF last_char_was_space /\ buffer[it] = 32 THEN <<>> ELSE <<buffer[it]>>
    <2>1. it <= Len(buffer) /\ l_exit = "running"
          /\ Label!Put(t, it + 1, Label!is_space(buffer[it]))
      BY <1>20 DEF Label!WriteChar, Label!Writing
    <2>2. t \in Seq(Nat)
      <3>1. buffer[it] \in Nat
        BY <1>1, <1>6, <2>1
      <3> QED
        BY <3>1
    <2> HIDE DEF t
    <2>3. it + 1 \in Nat \ {0}
      BY <1>1
    <2> QED
      BY <1>10, <2>1, <2>2, <2>3
  <1>21. CASE Label!WriteEnd
    BY <1>8, <1>21 DEF Label!WriteEnd
  <1> QED
    BY <1>11, <1>12, <1>13, <1>14, <1>15, <1>16, <1>17, <1>18, <1>19, <1>20, <1>21 DEF Label!Next

-----------------------------------------------------------------------------
(* hex2bin.                                                                *)
LEMMA HTextSeparate == HText!Separate
  BY DEF HText!Separate, HText!Hash, HText!HexDigit

LEMMA HTextSame ==
    ASSUME NEW s
    PROVE  /\ Hex!Hex!Accepted(s) <=> HText!Accepted(s)
           /\ Hex!Hex!Bytes(Hex!Hex!Readable(s)) = HText!Bytes(HText!Readable(s))
  <1>1. Hex!Hex!Hash = HText!Hash /\ Hex!Hex!HexDigit = HText!HexDigit
    BY DEF Hex!Hex!Hash, HText!Hash, Hex!Hex!HexDigit, HText!HexDigit
  <1>2. \A c : Hex!Hex!digit(c) = HText!digit(c)
    BY DEF Hex!Hex!digit, HText!digit
  <1>3. \A t, i : Hex!Hex!InComment(t, i) <=> HText!InComment(t, i)
    BY <1>1 DEF Hex!Hex!InComment, HText!InComment
  <1>4. \A t : Hex!Hex!Digits(t) = HText!Digits(t)
    BY <1>1, <1>3 DEF Hex!Hex!Digits, HText!Digits
  <1>5. \A t : Hex!Hex!Pairs(t) = HText!Pairs(t)
    BY <1>4 DEF Hex!Hex!Pairs, HText!Pairs
  <1>6. \A t : Hex!Hex!Accepted(t) <=> HText!Accepted(t)
    BY <1>1, <1>3, <1>4, <1>5 DEF Hex!Hex!Accepted, HText!Accepted
  <1>7. \A P : Hex!Hex!Cardinality(P) = HText!Cardinality(P)
    BY DEF Hex!Hex!Cardinality, HText!Cardinality, Hex!Hex!IsFiniteSet, HText!IsFiniteSet
  <1>8. \A P, n : Hex!Hex!pair(P, n) = HText!pair(P, n)
    BY <1>7 DEF Hex!Hex!pair, HText!pair, Hex!Hex!number, HText!number
  <1>9. \A t : Hex!Hex!Bytes(t) = HText!Bytes(t)
    BY <1>2, <1>5, <1>7, <1>8 DEF Hex!Hex!Bytes, HText!Bytes
  <1>10. \A t, n : Hex!Hex!Prefix(t, n) = HText!Prefix(t, n)
    BY DEF Hex!Hex!Prefix, HText!Prefix
  <1>11. \A t, n : Hex!Hex!ReadableLength(t, n) <=> HText!ReadableLength(t, n)
    BY <1>6, <1>10 DEF Hex!Hex!ReadableLength, HText!ReadableLength
  <1>12. \A t : Hex!Hex!Readable(t) = HText!Readable(t)
    BY <1>10, <1>11 DEF Hex!Hex!Readable, HText!Readable
  <1> QED
    BY <1>6, <1>9, <1>12

(* What a read returns.  It is the end of the file only when label2hex has *)
(* ended and everything has arrived.                                       *)
LEMMA HexReads ==
    ASSUME PInv, h_read < l_sent \/ Closed2, NEW c, Hex!getchar(c)
    PROVE  /\ h_exit = "running" /\ failures' = 0
           /\ l_output \in Seq(Nat) /\ h_read \in 0 .. Len(l_output) /\ h_pc \in HText!Mode
           /\ HText!Scanned(l_output, h_read, h_pc, h_output)
           /\ c = Hex!EOF => h_read' = h_read /\ Closed2 /\ h_read = Len(l_output)
           /\ c # Hex!EOF => /\ h_read < Len(l_output) /\ c = l_output[h_read + 1]
                             /\ h_read' = h_read + 1
           /\ h_read' \in 0 .. l_sent
  <1> DEFINE received == SubSeq(l_output, 1, l_sent)
  <1>1. /\ l_output \in Seq(Nat) /\ l_sent \in 0 .. Len(l_output) /\ h_read \in 0 .. l_sent
        /\ failures = 0 /\ h_pc \in HText!Mode /\ Len(l_output) \in Nat
    BY DEF PInv, LabelTypeOK, HexTypeOK
  <1>2. /\ Len(received) = l_sent
        /\ \A i \in 1 .. l_sent : received[i] = l_output[i] /\ received[i] \in Nat
    BY <1>1, Beginning
  <1>3. /\ h_exit = "running"
        /\ c \in (IF h_read = Len(received) THEN {-1} ELSE {received[h_read + 1]})
        /\ h_read' = IF c = -1 THEN h_read ELSE h_read + 1
        /\ failures' = IF c = -1 /\ h_read # Len(received) THEN failures + 1 ELSE failures
    BY <1>1 DEF Hex!getchar, Hex!received, Hex!AtEnd, Hex!EOF
  <1>4. HText!Scanned(l_output, h_read, h_pc, h_output)
    BY <1>3 DEF PInv, Scanning
  <1> HIDE DEF received
  <1>5. CASE h_read = l_sent
    <2>1. c = -1
      BY <1>2, <1>3, <1>5
    <2>2. Closed2 /\ l_sent = Len(l_output)
      BY <1>1, <1>5 DEF Closed2
    <2> QED
      BY <1>1, <1>2, <1>3, <1>4, <1>5, <2>1, <2>2 DEF Hex!EOF
  <1>6. CASE h_read # l_sent
    <2>1. h_read + 1 \in 1 .. l_sent
      BY <1>1, <1>6
    <2>2. c = l_output[h_read + 1] /\ c \in Nat
      BY <1>2, <1>3, <1>6, <2>1
    <2>3. c # -1
      BY <2>2
    <2> QED
      BY <1>1, <1>2, <1>3, <1>4, <1>6, <2>1, <2>2, <2>3 DEF Hex!EOF
  <1> QED
    BY <1>5, <1>6

(* The state of hex2bin behind a step, and with it the invariant.          *)
LEMMA HexKeeps ==
    ASSUME PInv, UNCHANGED <<mvars, file, m_sent, lvars, l_exit, l_sent>>,
           HexTypeOK', Scanning', Decided'
    PROVE  PInv'
  <1>1. MacroTypeOK'
    BY DEF PInv, MacroTypeOK, mvars
  <1>2. LabelTypeOK'
    BY DEF PInv, LabelTypeOK, lvars
  <1> QED
    BY <1>1, <1>2 DEF PInv
LEMMA HexExits ==
    ASSUME PInv, h_read < l_sent \/ Closed2, NEW c, Hex!getchar(c),
           UNCHANGED <<l_output, l_exit, l_sent, h_pc, h_output>>,
           h_exit' \in {"exit(0)", "exit(1)"},
           c = Hex!EOF => h_exit' = IF h_pc = "second" THEN "exit(1)" ELSE "exit(0)",
           c # Hex!EOF => h_exit' = "exit(1)" /\ ~HText!Fine(l_output, h_read + 1)
    PROVE  HexTypeOK' /\ Scanning' /\ Decided'
  <1>1. /\ HText!Scanned(l_output, h_read, h_pc, h_output) /\ h_read \in 0 .. Len(l_output)
        /\ failures' = 0 /\ h_read' \in 0 .. l_sent /\ h_pc \in HText!Mode
    BY HexReads
  <1>2. HexTypeOK'
    BY <1>1 DEF HexTypeOK
  <1>3. Scanning'
    BY DEF Scanning
  <1>4. \/ /\ Closed2' /\ h_read = Len(l_output)
           /\ h_exit' = IF h_pc = "second" THEN "exit(1)" ELSE "exit(0)"
        \/ /\ h_read < Len(l_output) /\ ~HText!Fine(l_output, h_read + 1)
           /\ h_exit' = "exit(1)"
    BY HexReads DEF Closed2
  <1>5. Decided'
    BY <1>1, <1>4 DEF Decided
  <1> QED
    BY <1>2, <1>3, <1>5

LEMMA HexItem ==
    ASSUME PInv, h_read < l_sent \/ Closed2, Hex!Item, UNCHANGED <<l_output, l_exit, l_sent>>
    PROVE  HexTypeOK' /\ Scanning' /\ Decided'
  <1>1. PICK c \in Hex!received :
           /\ Hex!getchar(c)
           /\ \/ c = Hex!EOF /\ Hex!Exit("exit(0)")
              \/ c = Hex!Hash /\ Hex!Goto("comment") /\ UNCHANGED c1
              \/ c \in Hex!Space /\ Hex!Goto("item") /\ UNCHANGED c1
              \/ Hex!is_hex(c) /\ Hex!Goto("second") /\ c1' = Hex!value(c)
              \/ /\ c # Hex!EOF /\ c # Hex!Hash /\ c \notin Hex!Space /\ ~Hex!is_hex(c)
                 /\ Hex!Exit("exit(1)")
    BY DEF Hex!Item
  <1>2. h_pc = "item"
    BY DEF Hex!Item
  <1>3. CASE c = Hex!EOF /\ Hex!Exit("exit(0)")
    BY <1>1, <1>2, <1>3, HexExits DEF Hex!Exit
  <1>4. CASE /\ c # Hex!EOF /\ c # Hex!Hash /\ c \notin Hex!Space /\ ~Hex!is_hex(c)
             /\ Hex!Exit("exit(1)")
    <2>1. c \notin {32, 9, 10} \cup HText!HexDigit \cup {HText!Hash}
      BY <1>4 DEF Hex!Hash, Hex!Space, Hex!is_hex, Hex!is_digit, Hex!is_upper,
                  HText!HexDigit, HText!Hash
    <2>2. /\ l_output \in Seq(Nat) /\ h_read \in 0 .. Len(l_output) /\ h_read < Len(l_output)
          /\ c = l_output[h_read + 1] /\ HText!Scanned(l_output, h_read, "item", h_output)
      BY <1>1, <1>2, <1>4, HexReads
    <2>3. ~HText!Fine(l_output, h_read + 1)
      BY <2>1, <2>2, HTextSeparate, HText!ScanItem
    <2> QED
      BY <1>1, <1>4, <2>3, HexExits DEF Hex!Exit
  <1>5. CASE \/ c = Hex!Hash /\ Hex!Goto("comment") /\ UNCHANGED c1
             \/ c \in Hex!Space /\ Hex!Goto("item") /\ UNCHANGED c1
             \/ Hex!is_hex(c) /\ Hex!Goto("second") /\ c1' = Hex!value(c)
    <2>1. c # Hex!EOF
      BY <1>5 DEF Hex!EOF, Hex!Hash, Hex!Space, Hex!is_hex, Hex!is_digit, Hex!is_upper
    <2>2. /\ l_output \in Seq(Nat) /\ h_read \in 0 .. Len(l_output) /\ h_read < Len(l_output)
          /\ c = l_output[h_read + 1] /\ HText!Scanned(l_output, h_read, "item", h_output)
          /\ h_read' = h_read + 1 /\ h_read' \in 0 .. l_sent
          /\ failures' = 0 /\ h_exit = "running"
      BY <1>1, <1>2, <2>1, HexReads
    <2>3. h_output' = h_output /\ h_exit' = h_exit
      BY <1>5 DEF Hex!Goto
    <2>4. HText!Scanned(l_output, h_read + 1, h_pc', h_output)
      <3>1. CASE c = Hex!Hash /\ Hex!Goto("comment")
        BY <2>2, <3>1, HTextSeparate, HText!ScanItem DEF Hex!Hash, HText!Hash, Hex!Goto
      <3>2. CASE c \in Hex!Space /\ Hex!Goto("item")
        BY <2>2, <3>2, HTextSeparate, HText!ScanItem DEF Hex!Space, Hex!Goto
      <3>3. CASE Hex!is_hex(c) /\ Hex!Goto("second")
        <4>1. c \in HText!HexDigit
          BY <3>3 DEF Hex!is_hex, Hex!is_digit, Hex!is_upper, HText!HexDigit
        <4> QED
          BY <2>2, <3>3, <4>1, HTextSeparate, HText!ScanItem DEF Hex!Goto
      <3> QED
        BY <1>5, <3>1, <3>2, <3>3
    <2>5. h_pc' = "second" => c1' = HText!digit(c)
      <3>1. h_pc' = "second" => Hex!is_hex(c) /\ c1' = Hex!value(c)
        BY <1>5 DEF Hex!Goto
      <3> QED
        BY <3>1 DEF Hex!is_hex, Hex!is_digit, Hex!is_upper, Hex!value, HText!digit
    <2>6. h_pc' \in HText!Mode
      BY <1>5 DEF Hex!Goto, HText!Mode
    <2>7. HexTypeOK'
      BY <2>2, <2>3, <2>6 DEF HexTypeOK
    <2> QED
      BY <2>2, <2>3, <2>4, <2>5, <2>7 DEF Scanning, Decided
  <1> QED
    BY <1>1, <1>3, <1>4, <1>5

LEMMA HexComment ==
    ASSUME PInv, h_read < l_sent \/ Closed2, Hex!Comment, UNCHANGED <<l_output, l_exit, l_sent>>
    PROVE  HexTypeOK' /\ Scanning' /\ Decided'
  <1>1. PICK c \in Hex!received :
           /\ Hex!getchar(c)
           /\ \/ c = Hex!EOF /\ Hex!Exit("exit(0)")
              \/ c = Hex!Newline /\ Hex!Goto("item") /\ UNCHANGED c1
              \/ c # Hex!EOF /\ c # Hex!Newline /\ Hex!Goto("comment") /\ UNCHANGED c1
    BY DEF Hex!Comment
  <1>2. h_pc = "comment"
    BY DEF Hex!Comment
  <1>3. CASE c = Hex!EOF /\ Hex!Exit("exit(0)")
    BY <1>1, <1>2, <1>3, HexExits DEF Hex!Exit
  <1>4. CASE \/ c = Hex!Newline /\ Hex!Goto("item") /\ UNCHANGED c1
             \/ c # Hex!EOF /\ c # Hex!Newline /\ Hex!Goto("comment") /\ UNCHANGED c1
    <2>1. c # Hex!EOF
      BY <1>4 DEF Hex!EOF, Hex!Newline
    <2>2. /\ l_output \in Seq(Nat) /\ h_read \in 0 .. Len(l_output) /\ h_read < Len(l_output)
          /\ c = l_output[h_read + 1] /\ HText!Scanned(l_output, h_read, "comment", h_output)
          /\ h_read' = h_read + 1 /\ h_read' \in 0 .. l_sent
          /\ failures' = 0 /\ h_exit = "running"
      BY <1>1, <1>2, <2>1, HexReads
    <2>3. h_output' = h_output /\ h_exit' = h_exit
      BY <1>4 DEF Hex!Goto
    <2>4. h_pc' \in {"item", "comment"} /\ HText!Scanned(l_output, h_read + 1, h_pc', h_output)
      <3>1. c = Hex!Newline <=> c \in {10}
        BY DEF Hex!Newline
      <3> QED
        BY <1>4, <2>2, <3>1, HTextSeparate, HText!ScanComment DEF Hex!Goto
    <2>5. HexTypeOK'
      BY <2>2, <2>3, <2>4 DEF HexTypeOK, HText!Mode
    <2> QED
      BY <2>2, <2>3, <2>4, <2>5 DEF Scanning, Decided
  <1> QED
    BY <1>1, <1>3, <1>4

LEMMA HexSecond ==
    ASSUME PInv, h_read < l_sent \/ Closed2, Hex!Second, UNCHANGED <<l_output, l_exit, l_sent>>
    PROVE  HexTypeOK' /\ Scanning' /\ Decided'
  <1>1. PICK c \in Hex!received :
           /\ Hex!getchar(c)
           /\ \/ /\ Hex!is_hex(c)
                 /\ h_output' = Append(h_output, c1 * 16 + Hex!value(c))
                 /\ h_pc' = "item"
                 /\ UNCHANGED <<c1, h_exit>>
              \/ ~Hex!is_hex(c) /\ Hex!Exit("exit(1)")
    BY DEF Hex!Second
  <1>2. h_pc = "second"
    BY DEF Hex!Second
  <1>3. c \in HText!HexDigit <=> Hex!is_hex(c)
    BY DEF Hex!is_hex, Hex!is_digit, Hex!is_upper, HText!HexDigit
  <1>4. CASE ~Hex!is_hex(c) /\ Hex!Exit("exit(1)")
    <2>1. CASE c = Hex!EOF
      BY <1>1, <1>2, <1>4, <2>1, HexExits DEF Hex!Exit
    <2>2. CASE c # Hex!EOF
      <3>1. /\ l_output \in Seq(Nat) /\ h_read \in 0 .. Len(l_output) /\ h_read < Len(l_output)
            /\ c = l_output[h_read + 1] /\ HText!Scanned(l_output, h_read, "second", h_output)
        BY <1>1, <1>2, <2>2, HexReads
      <3>2. ~HText!Fine(l_output, h_read + 1)
        BY <1>3, <1>4, <3>1, HTextSeparate, HText!ScanSecond
      <3> QED
        BY <1>1, <1>4, <2>2, <3>2, HexExits DEF Hex!Exit
    <2> QED
      BY <2>1, <2>2
  <1>5. CASE /\ Hex!is_hex(c)
             /\ h_output' = Append(h_output, c1 * 16 + Hex!value(c))
             /\ h_pc' = "item"
             /\ UNCHANGED <<c1, h_exit>>
    <2>1. c # Hex!EOF
      BY <1>5 DEF Hex!EOF, Hex!is_hex, Hex!is_digit, Hex!is_upper
    <2>2. /\ l_output \in Seq(Nat) /\ h_read \in 0 .. Len(l_output) /\ h_read < Len(l_output)
          /\ c = l_output[h_read + 1] /\ HText!Scanned(l_output, h_read, "second", h_output)
          /\ h_read' = h_read + 1 /\ h_read' \in 0 .. l_sent
          /\ failures' = 0 /\ h_exit = "running"
      BY <1>1, <1>2, <2>1, HexReads
    <2>3. c1 = HText!digit(l_output[h_read])
      BY <1>2, <2>2 DEF PInv, Scanning
    <2>4. HText!digit(l_output[h_read]) \in 0 .. 15
      <3>1. l_output[h_read] \in HText!HexDigit
        BY <2>2, HTextSeparate, HText!ScanSecond
      <3> QED
        BY <3>1 DEF HText!HexDigit, HText!digit
    <2>5. Hex!value(c) = HText!digit(c) /\ Hex!value(c) \in 0 .. 15
      BY <1>5 DEF Hex!is_hex, Hex!is_digit, Hex!is_upper, Hex!value, HText!digit
    <2>6. c1 * 16 + Hex!value(c) = HText!byte(l_output, h_read)
      <3>1. HText!byte(l_output, h_read) = 16 * c1 + Hex!value(c)
        BY <2>2, <2>3, <2>5 DEF HText!byte
      <3> QED
        BY <2>3, <2>4, <2>5, <3>1
    <2>7. HText!Scanned(l_output, h_read + 1, "item", h_output')
      BY <1>3, <1>5, <2>2, <2>6, HTextSeparate, HText!ScanSecond
    <2>8. HexTypeOK'
      BY <1>5, <2>2 DEF HexTypeOK, HText!Mode
    <2> QED
      BY <1>5, <2>2, <2>7, <2>8 DEF Scanning, Decided
  <1> QED
    BY <1>1, <1>4, <1>5

-----------------------------------------------------------------------------
(* What the other processes do while hex2bin waits.  What label2hex writes *)
(* goes on with what it has written before.                                *)
LEMMA HexUndisturbed ==
    ASSUME PInv, UNCHANGED hvars, NEW t \in Seq(Nat), l_output' = l_output \o t,
           l_sent' \in h_read .. Len(l_output'), l_sent' \in Nat,
           Closed2 => Closed2' /\ l_output' = l_output
    PROVE  HexTypeOK' /\ Scanning' /\ Decided'
  <1>1. /\ l_output \in Seq(Nat) /\ Len(l_output) \in Nat /\ h_read \in 0 .. l_sent
        /\ l_sent \in 0 .. Len(l_output)
    BY DEF PInv, LabelTypeOK, HexTypeOK
  <1>2. /\ l_output' \in Seq(Nat) /\ Len(l_output') = Len(l_output) + Len(t)
        /\ \A i \in 1 .. Len(l_output) : l_output'[i] = l_output[i]
    BY <1>1, JoinedSequence
  <1>3. Len(l_output) \in 0 .. Len(l_output') /\ HText!Prefix(l_output', Len(l_output)) = l_output
    <2>1. Len(t) \in Nat
      OBVIOUS
    <2> DEFINE s == l_output
               u == l_output'
    <2>2. Len(s) \in 0 .. Len(u)
      BY <1>1, <1>2, <2>1
    <2>3. s \in Seq(Nat) /\ u \in Seq(Nat) /\ \A i \in 1 .. Len(s) : u[i] = s[i]
      BY <1>1, <1>2
    <2> HIDE DEF s, u
    <2>4. SubSeq(u, 1, Len(s)) = s
      BY <2>2, <2>3, Beginning, SameElements
    <2> QED
      BY <2>2, <2>4 DEF HText!Prefix, s, u
  <1>4. \A n \in 0 .. Len(l_output) : \A mode, out :
            HText!Scanned(l_output, n, mode, out) => HText!Scanned(l_output', n, mode, out)
    BY <1>2, <1>3, HText!ScannedGrows
  <1>5. \A n \in 0 .. Len(l_output) : HText!Fine(l_output, n) <=> HText!Fine(l_output', n)
    BY <1>2, <1>3, HText!FineGrows
  <1>6. HexTypeOK'
    BY <1>1 DEF PInv, HexTypeOK, hvars
  <1>7. Scanning'
    <2> SUFFICES ASSUME h_exit' = "running"
                 PROVE  /\ HText!Scanned(l_output', h_read', h_pc', h_output')
                        /\ h_pc' = "second" => c1' = HText!digit(l_output'[h_read'])
      BY DEF Scanning
    <2>1. /\ HText!Scanned(l_output, h_read, h_pc, h_output)
          /\ h_pc = "second" => c1 = HText!digit(l_output[h_read])
      BY DEF PInv, Scanning, hvars
    <2>2. HText!Scanned(l_output', h_read, h_pc, h_output)
      BY <1>1, <1>4, <2>1
    <2>3. CASE h_pc = "second"
      <3>1. h_read \in HText!Pairs(l_output) /\ HText!Pairs(l_output) \subseteq 1 .. Len(l_output)
        BY <1>1, <2>1, <2>3, HText!DigitsInFile DEF HText!Scanned
      <3>2. l_output'[h_read] = l_output[h_read]
        BY <1>2, <3>1
      <3> QED
        BY <2>1, <2>2, <3>2 DEF hvars
    <2> QED
      BY <2>1, <2>2, <2>3 DEF hvars
  <1>8. Decided'
    <2> SUFFICES ASSUME h_exit # "running"
                 PROVE  \E n \in 0 .. Len(l_output') :
                           /\ HText!Scanned(l_output', n, h_pc, h_output)
                           /\ \/ /\ Closed2' /\ n = Len(l_output')
                                 /\ h_exit = IF h_pc = "second" THEN "exit(1)" ELSE "exit(0)"
                              \/ /\ n < Len(l_output') /\ ~HText!Fine(l_output', n + 1)
                                 /\ h_exit = "exit(1)"
      BY DEF Decided, hvars
    <2>1. PICK n \in 0 .. Len(l_output) :
             /\ HText!Scanned(l_output, n, h_pc, h_output)
             /\ \/ /\ Closed2 /\ n = Len(l_output)
                   /\ h_exit = IF h_pc = "second" THEN "exit(1)" ELSE "exit(0)"
                \/ /\ n < Len(l_output) /\ ~HText!Fine(l_output, n + 1)
                   /\ h_exit = "exit(1)"
      BY DEF PInv, Decided
    <2>2. n \in 0 .. Len(l_output') /\ HText!Scanned(l_output', n, h_pc, h_output)
      BY <1>1, <1>2, <1>3, <1>4, <2>1
    <2>3. CASE /\ Closed2 /\ n = Len(l_output)
               /\ h_exit = IF h_pc = "second" THEN "exit(1)" ELSE "exit(0)"
      BY <2>2, <2>3
    <2>4. CASE n < Len(l_output) /\ ~HText!Fine(l_output, n + 1) /\ h_exit = "exit(1)"
      <3>1. n + 1 \in 0 .. Len(l_output) /\ n < Len(l_output')
        BY <1>1, <1>2, <1>3, <2>4
      <3>2. ~HText!Fine(l_output', n + 1)
        BY <1>5, <2>4, <3>1
      <3> QED
        BY <2>2, <2>4, <3>1, <3>2
    <2> QED
      BY <2>1, <2>3, <2>4
  <1> QED
    BY <1>6, <1>7, <1>8
LEMMA Nothing ==
    PInv => /\ l_output = l_output \o <<>> /\ <<>> \in Seq(Nat)
            /\ l_sent \in h_read .. Len(l_output) /\ l_sent \in Nat
  <1> SUFFICES ASSUME PInv
               PROVE  /\ l_output = l_output \o <<>> /\ <<>> \in Seq(Nat)
                      /\ l_sent \in h_read .. Len(l_output) /\ l_sent \in Nat
    OBVIOUS
  <1>1. l_output \in Seq(Nat) /\ l_sent \in 0 .. Len(l_output) /\ h_read \in 0 .. l_sent
    BY DEF PInv, LabelTypeOK, HexTypeOK
  <1> QED
    BY <1>1

-----------------------------------------------------------------------------
(* The steps.                                                              *)
LEMMA PInitial == Init => PInv
  <1> SUFFICES ASSUME Init
               PROVE  PInv
    OBVIOUS
  <1> USE DEF Init
  <1>1. file \in Seq(Nat)
    <2>1. file \in Seq(0 .. 255)
      BY PipelineAssumption
    <2>2. 0 .. 255 \subseteq Nat
      OBVIOUS
    <2> QED
      BY <2>1, <2>2, WiderElements
  <1>2. <<>> \in Seq(Nat) /\ Len(<<>>) = 0
    OBVIOUS
  <1>3. MacroTypeOK
    BY <1>1, <1>2 DEF MacroTypeOK, Macro!Start
  <1>4. LabelTypeOK
    BY <1>2 DEF LabelTypeOK, Label!Start
  <1>5. HexTypeOK
    BY DEF HexTypeOK, Hex!Start, HText!Mode
  <1>6. Scanning
    <2>1. HText!Scanned(<<>>, 0, "item", <<>>)
      BY <1>2, HTextSeparate, HText!ScanBegins
    <2> QED
      BY <2>1 DEF Scanning, Hex!Start, Label!Start
  <1>7. Decided
    BY DEF Decided, Hex!Start
  <1> QED
    BY <1>3, <1>4, <1>5, <1>6, <1>7 DEF PInv

LEMMA MacroStep ==
    ASSUME PInv, macro2label
    PROVE  PInv'
  <1>1. /\ Macro!Next /\ m_sent' = m_sent /\ UNCHANGED <<lvars, l_exit, l_sent, hvars>>
        /\ MacroTypeOK /\ LabelTypeOK
    BY DEF macro2label, PInv
  <1>2. /\ file' = file /\ m_read' \in 0 .. Len(file)
        /\ name' \in Seq(Nat) /\ value' \in Seq(Nat)
        /\ \A n \in DOMAIN macro_definitions' : macro_definitions'[n] \in Seq(Nat)
        /\ \E t \in Seq(Nat) : m_output' = m_output \o t
    BY <1>1, MacroMoves
  <1>3. m_output' \in Seq(Nat) /\ m_sent' \in 0 .. Len(m_output')
    <2>1. PICK t \in Seq(Nat) : m_output' = m_output \o t
      BY <1>2
    <2>2. m_output \in Seq(Nat) /\ m_sent \in 0 .. Len(m_output) /\ Len(t) \in Nat
      BY <1>1 DEF MacroTypeOK
    <2>3. m_output' \in Seq(Nat) /\ Len(m_output') = Len(m_output) + Len(t)
      BY <2>1, <2>2, JoinedSequence
    <2> QED
      BY <1>1, <2>2, <2>3
  <1>4. MacroTypeOK'
    BY <1>1, <1>2, <1>3 DEF MacroTypeOK
  <1>5. LabelTypeOK'
    BY <1>1 DEF LabelTypeOK, lvars
  <1>6. HexTypeOK' /\ Scanning' /\ Decided'
    BY <1>1 DEF PInv, HexTypeOK, Scanning, Decided, Closed2, lvars, hvars
  <1> QED
    BY <1>4, <1>5, <1>6 DEF PInv

LEMMA LabelStep ==
    ASSUME PInv, label2hex
    PROVE  PInv'
  <1>1. /\ Label!Next /\ UNCHANGED <<file, mvars, m_sent, l_sent, hvars>>
        /\ MacroTypeOK /\ LabelTypeOK
    BY DEF label2hex, PInv
  <1>2. /\ l_exit = "running" /\ l_read' \in 0 .. m_sent
        /\ buffer' \in Seq(Nat) /\ it' \in Nat \ {0} /\ location' \in Nat
        /\ \A n \in DOMAIN labels' : labels'[n] \in Nat
        /\ \E t \in Seq(Nat) : l_output' = l_output \o t
    BY <1>1, LabelMoves
  <1>3. PICK t \in Seq(Nat) : l_output' = l_output \o t
    BY <1>2
  <1>4. /\ l_output \in Seq(Nat) /\ l_sent \in 0 .. Len(l_output) /\ Len(t) \in Nat
        /\ h_read \in 0 .. l_sent
    BY <1>1 DEF PInv, LabelTypeOK, HexTypeOK
  <1>5. l_output' \in Seq(Nat) /\ Len(l_output') = Len(l_output) + Len(t)
    BY <1>3, <1>4, JoinedSequence
  <1>6. l_sent' \in 0 .. Len(l_output') /\ l_sent' \in h_read .. Len(l_output')
    BY <1>1, <1>4, <1>5
  <1>7. MacroTypeOK'
    BY <1>1 DEF MacroTypeOK, mvars
  <1>8. LabelTypeOK'
    BY <1>1, <1>2, <1>5, <1>6 DEF LabelTypeOK
  <1>9. ~Closed2
    BY <1>2 DEF Closed2
  <1>10. HexTypeOK' /\ Scanning' /\ Decided'
    BY <1>1, <1>3, <1>6, <1>9, HexUndisturbed
  <1> QED
    BY <1>7, <1>8, <1>10 DEF PInv

LEMMA HexStep ==
    ASSUME PInv, hex2bin
    PROVE  PInv'
  <1>1. /\ h_read < l_sent \/ Closed2
        /\ UNCHANGED <<file, mvars, m_exit, m_sent, lvars, l_exit, l_sent>>
        /\ Hex!Next
    BY DEF hex2bin
  <1>2. UNCHANGED <<l_output, l_exit, l_sent>>
    BY <1>1 DEF lvars
  <1>3. HexTypeOK' /\ Scanning' /\ Decided'
    BY <1>1, <1>2, HexItem, HexComment, HexSecond DEF Hex!Next
  <1> QED
    BY <1>1, <1>3, HexKeeps

LEMMA FlushStep ==
    ASSUME PInv, Flush1 \/ Flush2 \/ UNCHANGED vars
    PROVE  PInv'
  <1>1. /\ m_output \in Seq(Nat) /\ m_sent \in 0 .. Len(m_output) /\ l_read \in 0 .. m_sent
        /\ l_output \in Seq(Nat) /\ l_sent \in 0 .. Len(l_output) /\ h_read \in 0 .. l_sent
        /\ Len(m_output) \in Nat /\ Len(l_output) \in Nat
    BY DEF PInv, MacroTypeOK, LabelTypeOK, HexTypeOK
  <1>2. UNCHANGED <<file, mvars, lvars, hvars>>
    BY DEF Flush1, Flush2, vars
  <1>3. m_sent' = m_sent \/ m_sent' = Min({Len(m_output), l_read + Capacity})
    BY DEF Flush1, Flush2, vars
  <1>4. m_sent' \in 0 .. Len(m_output) /\ l_read \in 0 .. m_sent'
    <2>1. Min({Len(m_output), l_read + Capacity}) \in l_read .. Len(m_output)
      BY <1>1, PassedOn
    <2> QED
      BY <1>1, <1>3, <2>1
  <1>5. \/ l_sent' = l_sent /\ l_exit' = l_exit
        \/ l_sent < Len(l_output) /\ l_sent' = Min({Len(l_output), h_read + Capacity})
        \/ l_sent < Len(l_output) /\ l_sent' = l_sent
    BY DEF Flush1, Flush2, Flushing, vars
  <1>6. l_sent' \in h_read .. Len(l_output) /\ l_sent' \in Nat
    <2>1. Min({Len(l_output), h_read + Capacity}) \in h_read .. Len(l_output)
      BY <1>1, PassedOn
    <2> QED
      BY <1>1, <1>5, <2>1
  <1>7. Closed2 => Closed2'
    <2>1. Closed2 => l_sent = Len(l_output) /\ l_exit # "running"
      BY DEF Closed2
    <2> QED
      BY <1>1, <1>2, <1>5, <2>1 DEF Closed2, lvars
  <1>8. MacroTypeOK'
    BY <1>2, <1>4 DEF PInv, MacroTypeOK, mvars
  <1>9. LabelTypeOK'
    BY <1>1, <1>2, <1>4, <1>6 DEF PInv, LabelTypeOK, lvars
  <1>10. HexTypeOK' /\ Scanning' /\ Decided'
    <2>1. l_output' = l_output
      BY <1>2 DEF lvars
    <2>2. l_output' = l_output \o <<>> /\ <<>> \in Seq(Nat)
      BY <2>1, Nothing
    <2>3. l_sent' \in h_read .. Len(l_output')
      BY <1>6, <2>1
    <2>4. UNCHANGED hvars
      BY <1>2
    <2> QED
      BY <1>6, <1>7, <2>1, <2>2, <2>3, <2>4, HexUndisturbed
  <1> QED
    BY <1>8, <1>9, <1>10 DEF PInv

(* hex2bin has scanned what it has read of everything that label2hex will  *)
(* have written, however the processes and the kernel take turns.          *)
THEOREM PInvariant == Spec => []PInv
  <1>1. PInv /\ [Next]_vars => PInv'
    BY MacroStep, LabelStep, HexStep, FlushStep DEF Next
  <1> QED
    BY <1>1, PInitial, PTL DEF Spec

(* The bytes and the exit status of the pipeline depend on what label2hex  *)
(* wrote alone: not on the sizes of buffers and pipes, not on the order of *)
(* the processes, and not on which stage failed.                           *)
THEOREM OnlyTheFileDecides == Spec => []LastStageDecides
  <1>1. PInv => LastStageDecides
    <2> SUFFICES ASSUME PInv, h_exit # "running"
                 PROVE  /\ h_output = Hex!Hex!Bytes(Hex!Hex!Readable(l_output))
                        /\ h_exit = "exit(0)" <=> Closed2 /\ Hex!Hex!Accepted(l_output)
      BY DEF LastStageDecides
    <2>1. PICK n \in 0 .. Len(l_output) :
             /\ HText!Scanned(l_output, n, h_pc, h_output)
             /\ \/ /\ Closed2 /\ n = Len(l_output)
                   /\ h_exit = IF h_pc = "second" THEN "exit(1)" ELSE "exit(0)"
                \/ /\ n < Len(l_output) /\ ~HText!Fine(l_output, n + 1)
                   /\ h_exit = "exit(1)"
      BY DEF PInv, Decided
    <2>2. l_output \in Seq(Nat) /\ h_pc \in HText!Mode /\ Len(l_output) \in Nat
      BY DEF PInv, LabelTypeOK, HexTypeOK
    <2>3. n = Len(l_output) \/ ~HText!Fine(l_output, n + 1)
      BY <2>1
    <2>4. /\ h_output = HText!Bytes(HText!Readable(l_output))
          /\ HText!Accepted(l_output) <=> n = Len(l_output) /\ h_pc # "second"
      BY <2>1, <2>2, <2>3, HTextSeparate, HText!ScanEnds
    <2>5. h_exit = "exit(0)" <=> Closed2 /\ HText!Accepted(l_output)
      BY <2>1, <2>2, <2>4
    <2> QED
      BY <2>4, <2>5, HTextSame
  <1> QED
    BY <1>1, PInvariant, PTL
=============================================================================
