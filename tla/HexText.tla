------------------------------- MODULE HexText -------------------------------
(***************************************************************************)
(* Which files are HEX files and which bytes they stand for                *)
(* (src/doc/grammar/hex.g).  Files are sequences of character codes.       *)
(* Nothing is scanned here: a comment, a pair and the number of a byte are *)
(* described by where they lie in the file.                                *)
(***************************************************************************)
EXTENDS Integers, Sequences, FiniteSets

CONSTANTS Blank,      \* the characters between pairs
          CommentEnd  \* the characters that end a comment

Hash == 35
HexDigit == 48 .. 57 \cup 65 .. 70

digit(c) == IF c <= 57 THEN c - 48 ELSE c - 55

-----------------------------------------------------------------------------
InComment(s, i) ==
    \E j \in 1 .. i : s[j] = Hash /\ \A k \in j .. i : s[k] \notin CommentEnd

Digits(s) == {i \in DOMAIN s : s[i] \in HexDigit /\ ~InComment(s, i)}

(* The first digits of the pairs: digits are paired off from the left      *)
(* where they follow each other without a blank.                           *)
Pairs(s) ==
    LET digits == Digits(s)
    IN {i \in digits :
           \E j \in 1 .. i : /\ j .. i \subseteq digits
                             /\ j - 1 \notin digits
                             /\ (i - j) % 2 = 0}

Accepted(s) ==
    /\ \A i \in DOMAIN s : s[i] \in Blank \cup HexDigit \/ InComment(s, i)
                             \/ (s[i] \in CommentEnd /\ i > 1 /\ InComment(s, i - 1))
    /\ \A i \in Pairs(s) : i + 1 \in Digits(s)

(* The number of a pair, and the pair with a number.                       *)
number(pairs, i) == Cardinality({j \in pairs : j <= i})
pair(pairs, n) == CHOOSE i \in pairs : number(pairs, i) = n

Bytes(s) ==
    LET pairs == Pairs(s)
        first(n) == pair(pairs, n)
    IN [n \in 1 .. Cardinality(pairs) |-> 16 * digit(s[first(n)]) + digit(s[first(n) + 1])]

(* The part of a file before the first error.                              *)
Prefix(s, n) == SubSeq(s, 1, n)
ReadableLength(s, n) ==
    /\ Accepted(Prefix(s, n))
    /\ \A m \in n + 1 .. Len(s) : ~Accepted(Prefix(s, m))

Readable(s) == Prefix(s, CHOOSE n \in 0 .. Len(s) : ReadableLength(s, n))
=============================================================================
