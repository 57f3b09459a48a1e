--------------------------------- MODULE Lexer ---------------------------------
(***************************************************************************)
(* The lexer of arabilis and the reader below it (class Lexer of           *)
(* src/src/arabilis_cpp/frontend.cpp, class Reader of io.cpp).  A call of  *)
(* Lexer::read begins with pc = "skip" and ends with pc = "returned" and   *)
(* the result in token; its actions are the loops of the function, a loop  *)
(* over one kind of character in one step.  Characters are their codes.    *)
(* The reader is what remains of the file: the character that the lexer    *)
(* looks at, m_char, is always the last one that was read.                 *)
(***************************************************************************)
EXTENDS Integers, Sequences, TLC

VARIABLES input, read,          \* the file, and how many characters were read
          pc,                   \* the loop of Lexer::read
          m_position, m_data,
          token,                \* what Lexer::read has returned
          exit                  \* "running", "exit(0)" or "exit(1)"

lexvars == <<read, pc, m_position, m_data, token>>

is_whitespace(c) == c \in {32, 9, 13, 10}
is_alpha(c) == c \in 97 .. 122 \cup 65 .. 90
is_numeral(c) == c \in 48 .. 57
is_id_begin(c) == is_alpha(c) \/ c = 95
is_id_trail(c) == is_id_begin(c) \/ is_numeral(c)
is_hex(c) == is_numeral(c) \/ c \in 97 .. 102 \cup 65 .. 70

valueof_hex(c) ==
    IF is_numeral(c) THEN c - 48 ELSE IF c >= 97 THEN c - 97 + 10 ELSE c - 65 + 10

-----------------------------------------------------------------------------
(* The i-th character that the reader returns, and its position before it. *)
char(i) == IF i \in DOMAIN input THEN input[i] ELSE -1

(* Mutant: a tab at a tab stop does not move on.                           *)
advance_late(position, c) ==
    CASE c = 9 -> [position EXCEPT !.column = 8 * ((@ + 7) \div 8)]
      [] c = 10 -> [line |-> position.line + 1, column |-> 0]
      [] OTHER -> [position EXCEPT !.column = @ + 1]

(* A tab moves on by one column, then to the next tab stop.                *)
advance(position, c) ==
    CASE c = 9 -> [position EXCEPT !.column = 8 * ((@ + 1 + 7) \div 8)]
      [] c = 10 -> [line |-> position.line + 1, column |-> 0]
      [] OTHER -> [position EXCEPT !.column = @ + 1]

position_after[n \in Nat] ==
    IF n = 0 THEN [line |-> 1, column |-> 0]
    ELSE advance(position_after[n - 1], char(n))

m_char == char(read)

(* The first character from the i-th on that is not one of Skipped.        *)
behind(i, Skipped(_)) ==
    CHOOSE j \in i .. Len(input) + 1 :
        ~Skipped(char(j)) /\ \A k \in i .. j - 1 : Skipped(char(k))

-----------------------------------------------------------------------------
keyword ==
    (<<98, 114, 101, 97, 107>> :> "break") @@
    (<<99, 111, 110, 116, 105, 110, 117, 101>> :> "continue") @@
    (<<101, 108, 115, 101>> :> "else") @@
    (<<102, 97, 108, 115, 101>> :> "false") @@
    (<<102, 111, 114>> :> "for") @@
    (<<102, 117, 110, 99, 116, 105, 111, 110>> :> "function") @@
    (<<105, 102>> :> "if") @@
    (<<108, 101, 116>> :> "let") @@
    (<<114, 101, 116, 117, 114, 110>> :> "return") @@
    (<<116, 114, 117, 101>> :> "true") @@
    (<<118, 97, 114>> :> "var") @@
    (<<119, 104, 105, 108, 101>> :> "while")

operator ==
    (123 :> "{") @@ (125 :> "}") @@ (40 :> "(") @@ (41 :> ")") @@
    (44 :> "comma") @@ (59 :> "semicolon") @@ (43 :> "plus") @@ (45 :> "minus") @@
    (42 :> "multiply") @@ (47 :> "divide") @@ (37 :> "modulo") @@
    (126 :> "bit_not") @@ (94 :> "bit_xor") @@ (38 :> "bit_and") @@
    (124 :> "bit_or") @@ (61 :> "assign") @@ (33 :> "log_not") @@
    (60 :> "less") @@ (62 :> "greater")

operator2 ==
    (<<38, 38>> :> "log_and") @@ (<<124, 124>> :> "log_or") @@
    (<<61, 61>> :> "equal") @@ (<<33, 61>> :> "notequal") @@
    (<<60, 61>> :> "lessequal") @@ (<<62, 61>> :> "greaterequal")

escape ==
    (92 :> 92) @@ (34 :> 34) @@ (110 :> 10) @@ (114 :> 13) @@ (116 :> 9)

-----------------------------------------------------------------------------
Lexing(loop) == exit = "running" /\ pc = loop /\ UNCHANGED input

Goto(loop) == pc' = loop /\ UNCHANGED <<token, exit>>
Return(t) == token' = t /\ pc' = "returned" /\ UNCHANGED <<m_position, exit>>
Fail == exit' = "exit(1)" /\ UNCHANGED lexvars

(* The loop over white space or a comment, which ends before next: the     *)
(* position is that of the reader before it reads the character next.      *)
Discard(next) ==
    /\ m_position' = position_after[next - 1]
    /\ read' = next
    /\ Goto("skip")
    /\ UNCHANGED m_data

DiscardWhitespace ==
    /\ Lexing("skip")
    /\ is_whitespace(m_char)
    /\ Discard(behind(read, is_whitespace))

(* Mutant: the position is set at the beginning of a comment only.         *)
DiscardCommentStale ==
    /\ Lexing("skip")
    /\ m_char = 35
    /\ LET is_comment(c) == c # -1 /\ c # 10
       IN /\ m_position' = position_after[read]
          /\ read' = behind(read, is_comment) + 1
    /\ Goto("skip")
    /\ UNCHANGED m_data

DiscardComment ==
    /\ Lexing("skip")
    /\ m_char = 35
    /\ LET is_comment(c) == c # -1 /\ c # 10 IN Discard(behind(read, is_comment))

EndOfFile ==
    /\ Lexing("skip")
    /\ m_char = -1
    /\ Return("eof")
    /\ UNCHANGED <<read, m_data>>

Identifier ==
    /\ Lexing("skip")
    /\ is_id_begin(m_char)
    /\ LET next == behind(read, is_id_trail)
       IN m_data' = SubSeq(input, read, next - 1) /\ read' = next
    /\ Return(IF m_data' \in DOMAIN keyword THEN keyword[m_data'] ELSE "identifier")

Numeral ==
    /\ Lexing("skip")
    /\ is_numeral(m_char)
    /\ LET next == behind(read, is_numeral)
       IN m_data' = SubSeq(input, read, next - 1) /\ read' = next
    /\ Return("numeral")

-----------------------------------------------------------------------------
(* A string literal; one round of its loop reads a character or an escape  *)
(* sequence.                                                               *)
BeginLiteral ==
    /\ Lexing("skip")
    /\ m_char = 34
    /\ m_data' = <<>>
    /\ read' = read + 1
    /\ Goto("literal")
    /\ UNCHANGED m_position

Take(c, n) ==
    /\ m_data' = Append(m_data, c)
    /\ read' = read + n
    /\ Goto("literal")
    /\ UNCHANGED m_position

LiteralChar ==
    /\ Lexing("literal")
    /\ m_char \notin {34, 92}
    /\ \/ m_char = -1 /\ Fail
       \/ m_char # -1 /\ Take(m_char, 1)

LiteralEscape ==
    /\ Lexing("literal")
    /\ m_char = 92
    /\ LET c == char(read + 1)
           char1 == char(read + 2)
           char2 == char(read + 3)
       IN \/ c \in DOMAIN escape /\ Take(escape[c], 2)
          \/ /\ c = 120 /\ is_hex(char1) /\ is_hex(char2)
             /\ Take(16 * valueof_hex(char1) + valueof_hex(char2), 4)
          \/ c = 120 /\ ~(is_hex(char1) /\ is_hex(char2)) /\ Fail
          \/ c \notin DOMAIN escape \cup {120} /\ Fail

EndLiteral ==
    /\ Lexing("literal")
    /\ m_char = 34
    /\ read' = read + 1
    /\ Return("literal")
    /\ UNCHANGED m_data

-----------------------------------------------------------------------------
(* Mutant: the second character of an operator is not looked for behind <. *)
OperatorOne ==
    /\ Lexing("skip")
    /\ m_char \in DOMAIN operator
    /\ LET both == <<m_char, char(read + 1)>>
       IN IF both \in DOMAIN operator2 /\ m_char # 60
          THEN Return(operator2[both]) /\ read' = read + 2
          ELSE Return(operator[m_char]) /\ read' = read + 1
    /\ UNCHANGED m_data

Operator ==
    /\ Lexing("skip")
    /\ m_char \in DOMAIN operator
    /\ LET both == <<m_char, char(read + 1)>>
       IN IF both \in DOMAIN operator2
          THEN Return(operator2[both]) /\ read' = read + 2
          ELSE Return(operator[m_char]) /\ read' = read + 1
    /\ UNCHANGED m_data

UnexpectedCharacter ==
    /\ Lexing("skip")
    /\ m_char \notin DOMAIN operator \cup {-1, 34, 35}
    /\ ~is_whitespace(m_char) /\ ~is_id_trail(m_char)
    /\ Fail

-----------------------------------------------------------------------------
(* The constructor of the lexer reads the first character.                 *)
StartLexer ==
    /\ read = 1
    /\ m_position = [line |-> 1, column |-> 0]
    /\ m_data = <<>>
    /\ token = "eof"
    /\ exit = "running"

ReadToken ==
    \/ DiscardWhitespace
    \/ DiscardComment
    \/ EndOfFile
    \/ Identifier
    \/ Numeral
    \/ BeginLiteral
    \/ LiteralChar
    \/ LiteralEscape
    \/ EndLiteral
    \/ Operator
    \/ UnexpectedCharacter
=============================================================================
