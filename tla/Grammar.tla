-------------------------------- MODULE Grammar --------------------------------
(***************************************************************************)
(* The language of arabilis as doc/grammar/arabilis.g defines it: which    *)
(* tokens a file consists of, and which trees derive a sequence of tokens. *)
(* A file is a sequence of character codes, a token is a record of its     *)
(* kind and the data that goes with it.  This is a definition by sets, it  *)
(* is not how the lexer or the parser work.                                *)
(***************************************************************************)
EXTENDS MCSyntax, SequencesExt

Letters == 97 .. 122 \cup 65 .. 90 \cup {95}
Digits == 48 .. 57
Blanks == {32, 9, 13, 10}
HexDigits == Digits \cup 97 .. 102 \cup 65 .. 70

Keywords ==
    {[kind |-> "break", data |-> <<98, 114, 101, 97, 107>>],
     [kind |-> "continue", data |-> <<99, 111, 110, 116, 105, 110, 117, 101>>],
     [kind |-> "else", data |-> <<101, 108, 115, 101>>],
     [kind |-> "false", data |-> <<102, 97, 108, 115, 101>>],
     [kind |-> "for", data |-> <<102, 111, 114>>],
     [kind |-> "function", data |-> <<102, 117, 110, 99, 116, 105, 111, 110>>],
     [kind |-> "if", data |-> <<105, 102>>],
     [kind |-> "let", data |-> <<108, 101, 116>>],
     [kind |-> "return", data |-> <<114, 101, 116, 117, 114, 110>>],
     [kind |-> "true", data |-> <<116, 114, 117, 101>>],
     [kind |-> "var", data |-> <<118, 97, 114>>],
     [kind |-> "while", data |-> <<119, 104, 105, 108, 101>>]}

Signs ==
    {[kind |-> "{", data |-> <<123>>], [kind |-> "}", data |-> <<125>>],
     [kind |-> "(", data |-> <<40>>], [kind |-> ")", data |-> <<41>>],
     [kind |-> "comma", data |-> <<44>>], [kind |-> "semicolon", data |-> <<59>>],
     [kind |-> "assign", data |-> <<61>>], [kind |-> "log_not", data |-> <<33>>],
     [kind |-> "bit_not", data |-> <<126>>], [kind |-> "plus", data |-> <<43>>],
     [kind |-> "minus", data |-> <<45>>], [kind |-> "multiply", data |-> <<42>>],
     [kind |-> "divide", data |-> <<47>>], [kind |-> "modulo", data |-> <<37>>],
     [kind |-> "bit_and", data |-> <<38>>], [kind |-> "bit_or", data |-> <<124>>],
     [kind |-> "bit_xor", data |-> <<94>>], [kind |-> "less", data |-> <<60>>],
     [kind |-> "greater", data |-> <<62>>],
     [kind |-> "log_and", data |-> <<38, 38>>], [kind |-> "log_or", data |-> <<124, 124>>],
     [kind |-> "equal", data |-> <<61, 61>>], [kind |-> "notequal", data |-> <<33, 61>>],
     [kind |-> "lessequal", data |-> <<60, 61>>],
     [kind |-> "greaterequal", data |-> <<62, 61>>]}

BinaryOperators ==
    {"plus", "minus", "multiply", "divide", "modulo", "log_and", "log_or", "bit_and",
     "bit_or", "bit_xor", "equal", "notequal", "less", "lessequal", "greater",
     "greaterequal"}

UnaryOperators == {"plus", "minus", "log_not", "bit_not"}

Words == Keywords \cup Signs

-----------------------------------------------------------------------------
(* The characters that the inside of a string stands for, or {} if it is   *)
(* not the inside of a string.                                             *)
Escapes == {<<92, 92>>, <<34, 34>>, <<110, 10>>, <<114, 13>>, <<116, 9>>}

HexValue(c) == IF c \in Digits THEN c - 48 ELSE (c % 32) + 9

RECURSIVE Unescaped(_)
Unescaped(s) ==
    LET Prepend(c, n) == {<<c>> \o t : t \in Unescaped(SubSeq(s, n + 1, Len(s)))}
    IN CASE s = <<>> -> {<<>>}
         [] s # <<>> /\ s[1] \notin {34, 92} -> Prepend(s[1], 1)
         [] Len(s) > 1 /\ s[1] = 92 /\ \E e \in Escapes : e[1] = s[2] ->
                Prepend((CHOOSE e \in Escapes : e[1] = s[2])[2], 2)
         [] Len(s) > 3 /\ s[1] = 92 /\ s[2] = 120 /\ {s[3], s[4]} \subseteq HexDigits ->
                Prepend(16 * HexValue(s[3]) + HexValue(s[4]), 4)
         [] OTHER -> {}

(* What a sequence of characters can be, with no data where it is hidden.  *)
Lexemes(s) ==
    LET inside == SubSeq(s, 2, Len(s) - 1)
        Token(kind, data) == {[kind |-> kind, data |-> data]}
        Word == {w \in Words : w.data = s}
    IN CASE Word # {} -> {[w EXCEPT !.data = <<>>] : w \in Word}
         [] Word = {} /\ s[1] \in Letters /\ ToSet(s) \subseteq Letters \cup Digits ->
                Token("identifier", s)
         [] ToSet(s) \subseteq Digits -> Token("numeral", s)
         [] Len(s) > 1 /\ s[1] = 34 /\ Last(s) = 34 ->
                UNION {Token("literal", t) : t \in Unescaped(inside)}
         [] /\ Len(s) > 1 /\ s[1] = 35 /\ Last(s) = 10
            /\ \A i \in DOMAIN inside :
                  inside[i] # 10 /\ (inside[i] = 13 => i = Len(inside)) -> Token("hidden", <<>>)
         [] Len(s) = 1 /\ s[1] \in Blanks -> Token("hidden", <<>>)
         [] OTHER -> {}

(* The longest lexeme at each place, where it begins and where the next    *)
(* one does; "none" where no lexeme begins.                                *)
RECURSIVE Split(_, _)
Split(s, i) ==
    LET ends == {j \in i .. Len(s) : Lexemes(SubSeq(s, i, j)) # {}}
        j == CHOOSE k \in ends : \A l \in ends : l <= k
        lexeme == CHOOSE t \in Lexemes(SubSeq(s, i, j)) : TRUE
    IN IF i > Len(s) THEN <<>>
       ELSE IF ends = {} THEN <<[kind |-> "none", data |-> <<>>, begin |-> i, next |-> i]>>
       ELSE <<[kind |-> lexeme.kind, data |-> lexeme.data, begin |-> i, next |-> j + 1]>>
              \o Split(s, j + 1)

(* The tokens of a file, whose last line may lack its line feed.           *)
Tokens(file) == SelectSeq(Split(Append(file, 10), 1), LAMBDA t : t.kind # "hidden")

(* Lines count from 1 and columns from 0, with tab stops every 8 columns.  *)
RECURSIVE Column(_)
Column(line) ==
    IF line = <<>> THEN 0
    ELSE IF Last(line) = 9 THEN (Column(Front(line)) \div 8 + 1) * 8
    ELSE Column(Front(line)) + 1

PlaceOf(file, i) ==
    LET feeds == {k \in 1 .. i - 1 : file[k] = 10}
        start == IF feeds = {} THEN 0 ELSE CHOOSE k \in feeds : \A l \in feeds : l <= k
    IN [line |-> 1 + Cardinality(feeds), column |-> Column(SubSeq(file, start + 1, i - 1))]

-----------------------------------------------------------------------------
(* The value of the digits of a numeral.                                   *)
RECURSIVE ValueOf(_)
ValueOf(s) == IF s = <<>> THEN 0 ELSE 10 * ValueOf(Front(s)) + Last(s) - 48

(* The trees of the nonterminals of the grammar for a sequence of tokens,  *)
(* if value has the number that stands for the numeral that begins there.  *)
Sub(s, i, j) == SubSeq(s, i, j)
From(s, i) == SubSeq(s, i, Len(s))
Kinds(s) == [i \in DOMAIN s |-> s[i].kind]
Begins(s, kinds) == Len(s) >= Len(kinds) /\ Kinds(SubSeq(s, 1, Len(kinds))) = kinds
Places(s, kind) == {i \in DOMAIN s : s[i].kind = kind}

Names(s) ==
    LET n == (Len(s) + 1) \div 2
    IN IF Kinds(s) = [i \in DOMAIN s |-> IF i % 2 = 1 THEN "identifier" ELSE "comma"]
          /\ Len(s) = 2 * n - 1
       THEN {[i \in 1 .. n |-> s[2 * i - 1].data]} ELSE {}

RECURSIVE Expressions(_, _), Terms(_, _), Factors(_, _), Arguments(_, _)
Expressions(s, value) ==
    Terms(s, value) \cup
    UNION {{Bin(s[i].kind, l, r) : l \in Terms(Sub(s, 1, i - 1), value),
                                   r \in Terms(From(s, i + 1), value)} :
           i \in {k \in 2 .. Len(s) - 1 : s[k].kind \in BinaryOperators}}

Terms(s, value) ==
    Factors(s, value) \cup
    (IF s # <<>> /\ s[1].kind \in UnaryOperators
     THEN {Un(s[1].kind, f) : f \in Factors(From(s, 2), value)} ELSE {})

Factors(s, value) ==
    LET kinds == Kinds(s)
        Inner(i) == Sub(s, i, Len(s) - 1)
    IN CASE kinds = <<"identifier">> -> {Use(s[1].data)}
         [] kinds = <<"literal">> -> {Str(s[1].data)}
         [] kinds = <<"true">> -> {Num(1)}
         [] kinds = <<"false">> -> {Num(0)}
         [] kinds = <<"numeral">> -> {Num(value[s[1].begin])}
         [] kinds = <<"bit_and", "identifier">> -> {Ref(s[2].data)}
         [] Len(s) > 2 /\ kinds[1] = "(" /\ Last(kinds) = ")" -> Expressions(Inner(2), value)
         [] Len(s) > 2 /\ Begins(s, <<"identifier", "(">>) /\ Last(kinds) = ")" ->
                {Call(s[1].data, a) :
                    a \in IF Inner(3) = <<>> THEN {<<>>} ELSE Arguments(Inner(3), value)}
         [] OTHER -> {}

Arguments(s, value) ==
    {<<e>> : e \in Expressions(s, value)} \cup
    UNION {{<<e>> \o rest : e \in Expressions(Sub(s, 1, i - 1), value),
                            rest \in Arguments(From(s, i + 1), value)} :
           i \in Places(s, "comma")}

RECURSIVE Statements(_, _), StatementTrees(_, _)
Statements(s, value) ==
    IF s = <<>> THEN {<<>>}
    ELSE UNION {{<<t>> \o rest : t \in StatementTrees(Sub(s, 1, i), value),
                                 rest \in Statements(From(s, i + 1), value)} :
                i \in Places(s, "semicolon") \cup Places(s, "}")}

(* The name in the update of a for loop has to be that of its variable,    *)
(* which is a rule of the compiler and not of the grammar.                 *)
StatementTrees(s, value) ==
    LET n == Len(s)
        last == s[n].kind
        Simple(kinds) == Begins(s, kinds) /\ last = "semicolon"
        Value(i) == Expressions(Sub(s, i, n - 1), value)
        Blocks(i, j) == IF i <= j /\ s[i].kind = "{" /\ s[j].kind = "}"
                        THEN Statements(Sub(s, i + 1, j - 1), value) ELSE {}
        Between(i, j) == Expressions(Sub(s, i + 1, j - 1), value)
        closing == Places(s, ")")
    IN (IF Kinds(s) = <<"break", "semicolon">> THEN {Break} ELSE {})
         \cup (IF Kinds(s) = <<"continue", "semicolon">> THEN {Continuing} ELSE {})
         \cup (IF last = "semicolon" THEN {Do(e) : e \in Value(1)} ELSE {})
         \cup (IF Simple(<<"let", "identifier", "assign">>)
               THEN {Let(s[2].data, e) : e \in Value(4)} ELSE {})
         \cup (IF Simple(<<"return">>)
               THEN {Return(e) : e \in IF n = 2 THEN {Num(0)} ELSE Value(2)} ELSE {})
         \cup (IF Simple(<<"var", "identifier", "assign">>)
               THEN {Var(s[2].data, e) : e \in Value(4)} ELSE {})
         \cup (IF Kinds(s) = <<"var", "identifier", "semicolon">>
               THEN {Var(s[2].data, Num(0))} ELSE {})
         \cup (IF Begins(s, <<"while", "(">>)
               THEN UNION {{While(e, b) : e \in Between(2, i), b \in Blocks(i + 1, n)} :
                           i \in closing} ELSE {})
         \cup (IF Begins(s, <<"if", "(">>)
               THEN UNION {{If(e, b, <<>>) : e \in Between(2, i), b \in Blocks(i + 1, n)}
                           \cup UNION {{If(e, b, c) : e \in Between(2, i),
                                                      b \in Blocks(i + 1, j - 1),
                                                      c \in Blocks(j + 1, n)} :
                                       j \in Places(s, "else")} :
                           i \in closing} ELSE {})
         \cup (IF Begins(s, <<"for", "(", "var", "identifier", "assign">>)
               THEN UNION {{For(s[4].data, e, c, u, b) :
                               e \in Between(5, i), c \in Between(i, j),
                               u \in Between(j + 3, k), b \in Blocks(k + 1, n)} :
                           <<i, j, k>> \in
                               {p \in Places(s, "semicolon") \X Places(s, "semicolon") \X closing :
                                   /\ p[1] < p[2] /\ p[2] + 3 < p[3]
                                   /\ Begins(From(s, p[2] + 1), <<"let", "identifier", "assign">>)
                                   /\ s[p[2] + 2].data = s[4].data}} ELSE {})

Constants(s, value) ==
    IF Len(s) = 1 /\ s[1].kind \in {"numeral", "literal", "true", "false"} THEN Factors(s, value)
    ELSE IF Kinds(s) = <<"minus", "numeral">> THEN {Num(-value[s[2].begin])} ELSE {}

Globals(s, value) ==
    IF Begins(s, <<"var", "identifier", "assign">>) /\ Last(s).kind = "semicolon"
    THEN {Global(s[2].data, e) : e \in Constants(Sub(s, 4, Len(s) - 1), value)} ELSE {}

FunctionTrees(s, value) ==
    IF Begins(s, <<"function", "identifier", "(">>) /\ Last(s).kind = "}"
    THEN UNION {{Fun(s[2].data, a, b) :
                    a \in IF i = 4 THEN {<<>>} ELSE Names(Sub(s, 4, i - 1)),
                    b \in Statements(Sub(s, i + 2, Len(s) - 1), value)} :
                i \in {k \in Places(s, ")") : k < Len(s) - 1 /\ s[k + 1].kind = "{"}}
    ELSE {}

(* The programs of a file; an empty file is one, too, unlike the grammar.  *)
RECURSIVE Programs(_, _)
Programs(s, value) ==
    IF s = <<>> THEN {Prog(<<>>, <<>>)}
    ELSE UNION {{Prog(<<g>> \o p.globalvars, p.functions) :
                    g \in Globals(Sub(s, 1, i), value), p \in Programs(From(s, i + 1), value)}
                \cup {Prog(p.globalvars, <<f>> \o p.functions) :
                    f \in FunctionTrees(Sub(s, 1, i), value),
                    p \in Programs(From(s, i + 1), value)} :
                i \in Places(s, "semicolon") \cup Places(s, "}")}
=============================================================================
