------------------------------- MODULE LabelFile -------------------------------
(***************************************************************************)
(* The promise of a LABEL compiler: which files are LABEL files and which  *)
(* bytes they stand for (src/doc/grammar/label.g).  A file is split into   *)
(* tokens first and laid out afterwards; the programs do neither, they     *)
(* count characters in one pass and replace names in another.              *)
(*                                                                         *)
(* Files are sequences of character codes.  The grammar also allows blanks *)
(* inside ". name :", which both programs reject; a declaration is one     *)
(* token here.                                                             *)
(***************************************************************************)
EXTENDS Integers, SequencesExt, FiniteSetsExt

Lower == 97 .. 122
IsHexDigit(c) == c \in 48 .. 57 \cup 65 .. 70
IdentifierPart == Lower \cup 48 .. 57 \cup {95}

HEAD == 134512640               \* 0x08048000, where the program is loaded
Size == <<115, 105, 122, 101>>  \* "size"

hexdigit(c) == IF c <= 57 THEN c - 48 ELSE c - 55

(* Up to the first character that is not in S.                             *)
RunLength(s, S) ==
    CHOOSE n \in 0 .. Len(s) : /\ \A i \in 1 .. n : s[i] \in S
                               /\ n < Len(s) => s[n + 1] \notin S

IsIdentifier(s) ==
    s # <<>> /\ s[1] \in Lower /\ \A i \in DOMAIN s : s[i] \in IdentifierPart

-----------------------------------------------------------------------------
(* The first token of a file and its length in characters.                 *)
Token(kind, value, length) == [kind |-> kind, value |-> value, length |-> length]

Declaration(s) ==
    LET name == SubSeq(s, 2, 1 + RunLength(Tail(s), IdentifierPart))
        n == Len(name)
    IN IF IsIdentifier(name) /\ Len(s) >= n + 2 /\ s[n + 2] = 58
       THEN Token("declaration", name, n + 2)
       ELSE Token("error", <<>>, Len(s))

FirstToken(s) ==
    CASE s[1] \in {32, 9, 10} -> Token("hidden", <<>>, 1)
      [] s[1] = 35 ->
            LET n == RunLength(s, Int \ {10})
            IN Token("hidden", <<>>, IF n < Len(s) THEN n + 1 ELSE n)
      [] IsHexDigit(s[1]) /\ Len(s) > 1 /\ IsHexDigit(s[2]) ->
            Token("byte", <<16 * hexdigit(s[1]) + hexdigit(s[2])>>, 2)
      [] s[1] \in Lower ->
            LET n == RunLength(s, IdentifierPart) IN Token("use", SubSeq(s, 1, n), n)
      [] s[1] = 46 -> Declaration(s)
      [] OTHER -> Token("error", <<>>, Len(s))

Tokens(s) ==
    LET from[i \in 1 .. Len(s) + 1] ==
            IF i > Len(s) THEN <<>>
            ELSE LET t == FirstToken(SubSeq(s, i, Len(s)))
                 IN <<t>> \o from[i + t.length]
    IN from[1]

-----------------------------------------------------------------------------
(* What a sequence of tokens declares and uses, and when it is well-formed.*)
Occurrences(ts, kind) == {t \in ToSet(ts) : t.kind = kind}
Declared(ts) == {t.value : t \in Occurrences(ts, "declaration")}
Used(ts) == {t.value : t \in Occurrences(ts, "use")}

Lexes(ts) == Occurrences(ts, "error") = {}

DeclaredOnce(ts) ==
    \A i, j \in DOMAIN ts :
        ts[i].kind = "declaration" /\ ts[j].kind = "declaration" /\ i # j
            => ts[i].value # ts[j].value

Resolved(ts) == Used(ts) \subseteq Declared(ts) \cup {Size}

WellFormed(ts) == Lexes(ts) /\ DeclaredOnce(ts) /\ Resolved(ts)

(* Where a name is declared: that of the size, unless the file does so, is *)
(* behind the end.                                                         *)
Places(ts, name) ==
    IF name \in Declared(ts)
    THEN {i \in DOMAIN ts : ts[i].kind = "declaration" /\ ts[i].value = name}
    ELSE {Len(ts) + 1}

(* Of two names that a use could mean, one of which begins the other, the  *)
(* longer is declared first.                                               *)
LongerFirst(ts) ==
    LET names == Declared(ts) \cup {Size}
    IN \A m \in names : \A n \in names :
          IsPrefix(m, n) /\ m # n => Min(Places(ts, n)) < Min(Places(ts, m))

NamesShorterThan(ts, n) == \A name \in Declared(ts) \cup Used(ts) : Len(name) < n

-----------------------------------------------------------------------------
bytes_of(t) == CASE t.kind = "byte" -> 1 [] t.kind = "use" -> 4 [] OTHER -> 0

LocationOf(ts, k) == MapThenSumSet(LAMBDA i : bytes_of(ts[i]), 1 .. k - 1)

(* Among is Min or Max: the first or the last declaration of the name.     *)
AddressOf(ts, name, Among(_)) ==
    LET k == Among(Places(ts, name))
    IN IF k > Len(ts) THEN LocationOf(ts, k) ELSE HEAD + LocationOf(ts, k)

LittleEndian(n) == <<n % 256, (n \div 256) % 256, (n \div 65536) % 256, n \div 16777216>>

(* The bytes that tokens stand for.  Well-formed ones declare names once.  *)
Layout(ts, Among(_)) ==
    FlattenSeq([i \in DOMAIN ts |->
        CASE ts[i].kind = "byte" -> ts[i].value
          [] ts[i].kind = "use" -> LittleEndian(AddressOf(ts, ts[i].value, Among))
          [] OTHER -> <<>>])
=============================================================================
