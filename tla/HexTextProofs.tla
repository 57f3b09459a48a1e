---------------------------- MODULE HexTextProofs ----------------------------
(***************************************************************************)
(* Lemmas about HexText: what a program that reads a file from left to     *)
(* right may conclude from the characters that it has read so far.  The    *)
(* definitions of HexText look at a whole file; Scanned relates them to    *)
(* the three states in which a HEX compiler waits for a character.         *)
(***************************************************************************)
EXTENDS HexText, FiniteSetTheorems, WellFoundedInduction, TLAPS

(* The kinds of characters do not overlap, and what ends a comment may     *)
(* also stand between pairs.                                               *)
Separate ==
    /\ Hash \notin Blank
    /\ Blank \cap HexDigit = {}
    /\ CommentEnd \subseteq Blank

(* A nonempty set of numbers has a least element.                          *)
LEMMA Least ==
    ASSUME NEW T \in SUBSET Nat, T # {}
    PROVE  \E m \in T : \A k \in T : m <= k
  <1> DEFINE R == OpToRel(<, Nat)
  <1>1. IsWellFoundedOn(R, Nat)
    BY NatLessThanWellFounded
  <1> HIDE DEF R
  <1>2. PICK m \in T : \A k \in T : <<k, m>> \notin R
    BY <1>1, WFMin, Zenon
  <1>3. \A k \in T : ~(k < m)
    BY <1>2 DEF R, OpToRel
  <1> QED
    BY <1>3

-----------------------------------------------------------------------------
(* The three definitions by position, one character at a time.             *)
LEMMA CommentStep ==
    ASSUME Separate, NEW s \in Seq(Nat), NEW i \in 1 .. Len(s)
    PROVE  InComment(s, i) <=> /\ s[i] \notin CommentEnd
                               /\ s[i] = Hash \/ InComment(s, i - 1)
  <1>1. ASSUME InComment(s, i)
        PROVE  s[i] \notin CommentEnd /\ (s[i] = Hash \/ InComment(s, i - 1))
    <2>1. PICK j \in 1 .. i : s[j] = Hash /\ \A k \in j .. i : s[k] \notin CommentEnd
      BY <1>1 DEF InComment
    <2>2. CASE j = i
      BY <2>1, <2>2
    <2>3. CASE j # i
      BY <2>1, <2>3 DEF InComment
    <2> QED
      BY <2>2, <2>3
  <1>2. ASSUME s[i] \notin CommentEnd, s[i] = Hash
        PROVE  InComment(s, i)
    BY <1>2 DEF InComment
  <1>3. ASSUME s[i] \notin CommentEnd, InComment(s, i - 1)
        PROVE  InComment(s, i)
    <2>1. PICK j \in 1 .. i - 1 : s[j] = Hash /\ \A k \in j .. i - 1 : s[k] \notin CommentEnd
      BY <1>3 DEF InComment
    <2> QED
      BY <1>3, <2>1 DEF InComment
  <1> QED
    BY <1>1, <1>2, <1>3

(* Digits that follow each other without a gap begin somewhere.            *)
LEMMA RunBegins ==
    ASSUME NEW D \in SUBSET (Nat \ {0}), NEW i \in D
    PROVE  \E j \in 1 .. i : j .. i \subseteq D /\ j - 1 \notin D
  <1> DEFINE T == {j \in 1 .. i : j .. i \subseteq D}
  <1>1. i \in T /\ T \in SUBSET Nat
    OBVIOUS
  <1> HIDE DEF T
  <1>2. PICK j \in T : \A k \in T : j <= k
    BY <1>1, Least
  <1>3. j \in 1 .. i /\ j .. i \subseteq D
    BY DEF T
  <1>4. ASSUME j - 1 \in D
        PROVE  FALSE
    <2>1. j - 1 \in 1 .. i /\ (j - 1) .. i \subseteq D
      BY <1>3, <1>4
    <2>2. j - 1 \in T
      BY <2>1 DEF T
    <2> QED
      BY <1>2, <1>3, <2>2
  <1> QED
    BY <1>3, <1>4

LEMMA DigitsInFile ==
    ASSUME NEW s \in Seq(Nat)
    PROVE  /\ Digits(s) \subseteq 1 .. Len(s)
           /\ Pairs(s) \subseteq Digits(s)
  BY DEF Digits, Pairs

LEMMA PairStep ==
    ASSUME NEW s \in Seq(Nat), NEW i \in Digits(s)
    PROVE  i \in Pairs(s) <=> i - 1 \notin Pairs(s)
  <1> DEFINE D == Digits(s)
             From(j, k) == j .. k \subseteq D /\ j - 1 \notin D
  <1>1. D \in SUBSET (Nat \ {0}) /\ i \in D
    BY DigitsInFile
  <1>2. \A k : k \in Pairs(s) <=> k \in D /\ \E j \in 1 .. k : From(j, k) /\ (k - j) % 2 = 0
    BY DEF Pairs
  <1> HIDE DEF D
  <1>3. PICK j \in 1 .. i : From(j, i)
    BY <1>1, RunBegins
  <1>4. \A k \in 1 .. i : From(k, i) => k = j
    <2> SUFFICES ASSUME NEW k \in 1 .. i, From(k, i), k # j
                 PROVE  FALSE
      OBVIOUS
    <2>1. CASE k < j
      <3>1. j - 1 \in k .. i
        BY <1>1, <2>1
      <3> QED
        BY <1>3, <3>1
    <2>2. CASE j < k
      <3>1. k - 1 \in j .. i
        BY <1>1, <2>2
      <3> QED
        BY <1>3, <3>1
    <2> QED
      BY <2>1, <2>2
  <1>5. i \in Pairs(s) <=> (i - j) % 2 = 0
    BY <1>1, <1>2, <1>3, <1>4
  <1>6. CASE j = i
    <2>1. i - 1 \notin Pairs(s)
      BY <1>2, <1>3, <1>6
    <2> QED
      BY <1>1, <1>5, <1>6, <2>1
  <1>7. CASE j # i
    <2>1. j \in 1 .. i - 1 /\ From(j, i - 1) /\ i - 1 \in D
      BY <1>1, <1>3, <1>7
    <2>2. \A k \in 1 .. i - 1 : From(k, i - 1) => k = j
      <3> SUFFICES ASSUME NEW k \in 1 .. i - 1, From(k, i - 1)
                   PROVE  From(k, i)
        BY <1>1, <1>4
      <3>1. \A l \in k .. i : l \in k .. i - 1 \/ l = i
        BY <1>1
      <3> QED
        BY <1>1, <3>1
    <2>3. i - 1 \in Pairs(s) <=> (i - 1 - j) % 2 = 0
      BY <1>2, <2>1, <2>2
    <2>4. (i - j) % 2 = 0 <=> (i - 1 - j) % 2 # 0
      BY <1>1, <2>1
    <2> QED
      BY <1>5, <2>3, <2>4
  <1> QED
    BY <1>6, <1>7

-----------------------------------------------------------------------------
(* The beginning of a file.                                                *)
LEMMA PrefixCharacters ==
    ASSUME NEW s \in Seq(Nat), NEW n \in 0 .. Len(s)
    PROVE  /\ Prefix(s, n) \in Seq(Nat)
           /\ Len(Prefix(s, n)) = n
           /\ \A i \in 1 .. n : Prefix(s, n)[i] = s[i]
  BY DEF Prefix

LEMMA PrefixComment ==
    ASSUME NEW s \in Seq(Nat), NEW n \in 0 .. Len(s), NEW i \in 0 .. n
    PROVE  InComment(Prefix(s, n), i) <=> InComment(s, i)
  <1> DEFINE p == Prefix(s, n)
  <1>1. \A k \in 1 .. n : p[k] = s[k]
    BY PrefixCharacters
  <1> HIDE DEF p
  <1>2. \A k \in 1 .. i : p[k] = s[k]
    BY <1>1
  <1>3. \A j \in 1 .. i : \A k \in j .. i : k \in 1 .. i
    OBVIOUS
  <1>4. InComment(p, i) <=> InComment(s, i)
    BY <1>2, <1>3 DEF InComment
  <1> QED
    BY <1>4 DEF p

LEMMA PrefixDigits ==
    ASSUME NEW s \in Seq(Nat), NEW n \in 0 .. Len(s)
    PROVE  Digits(Prefix(s, n)) = Digits(s) \cap 1 .. n
  <1> DEFINE p == Prefix(s, n)
  <1>1. DOMAIN p = 1 .. n /\ \A i \in 1 .. n : p[i] = s[i]
    BY PrefixCharacters
  <1>2. \A i \in 1 .. n : InComment(p, i) <=> InComment(s, i)
    BY PrefixComment
  <1>3. DOMAIN s = 1 .. Len(s) /\ \A i \in 1 .. n : i \in 1 .. Len(s)
    OBVIOUS
  <1> HIDE DEF p
  <1>4. \A i : i \in Digits(p) <=> i \in Digits(s) /\ i \in 1 .. n
    BY <1>1, <1>2, <1>3 DEF Digits
  <1> QED
    BY <1>4 DEF p

LEMMA PrefixPairs ==
    ASSUME NEW s \in Seq(Nat), NEW n \in 0 .. Len(s)
    PROVE  Pairs(Prefix(s, n)) = Pairs(s) \cap 1 .. n
  <1> DEFINE p == Prefix(s, n)
             From(D, j, i) == j .. i \subseteq D /\ j - 1 \notin D /\ (i - j) % 2 = 0
  <1>1. Digits(p) = Digits(s) \cap 1 .. n /\ Digits(s) \subseteq 1 .. Len(s)
    BY PrefixDigits, DigitsInFile
  <1>2. \A i : i \in Pairs(s) <=> i \in Digits(s) /\ \E j \in 1 .. i : From(Digits(s), j, i)
    BY DEF Pairs
  <1>3. \A i : i \in Pairs(p) <=> i \in Digits(p) /\ \E j \in 1 .. i : From(Digits(p), j, i)
    BY DEF Pairs
  <1> HIDE DEF p
  <1>4. \A i \in 1 .. n : \A j \in 1 .. i : From(Digits(p), j, i) <=> From(Digits(s), j, i)
    <2> TAKE i \in 1 .. n
    <2> TAKE j \in 1 .. i
    <2>1. j .. i \subseteq 1 .. n /\ (j - 1 \in Digits(s) => j - 1 \in 1 .. n)
      BY <1>1
    <2> QED
      BY <1>1, <2>1
  <1>5. \A i : i \in Pairs(p) <=> i \in Pairs(s) /\ i \in 1 .. n
    BY <1>1, <1>2, <1>3, <1>4
  <1> QED
    BY <1>5 DEF p

(* No error among the first n characters of s, whatever follows.           *)
Fine(s, n) ==
    /\ \A i \in 1 .. n : s[i] \in Blank \cup HexDigit \/ InComment(s, i)
    /\ \A i \in Pairs(s) : i < n => i + 1 \in Digits(s)

LEMMA FineShorter ==
    ASSUME NEW s \in Seq(Nat), NEW n \in 0 .. Len(s), Fine(s, n), NEW m \in 0 .. n
    PROVE  Fine(s, m)
  <1>1. \A i \in Pairs(s) : i \in Nat
    BY DigitsInFile
  <1> QED
    BY <1>1 DEF Fine

LEMMA AcceptedPrefix ==
    ASSUME Separate, NEW s \in Seq(Nat), NEW n \in 0 .. Len(s)
    PROVE  Accepted(Prefix(s, n)) <=> Fine(s, n) /\ n \notin Pairs(s)
  <1> DEFINE p == Prefix(s, n)
             CharactersAccepted ==
                \A i \in DOMAIN p : \/ p[i] \in Blank \cup HexDigit
                                    \/ InComment(p, i)
                                    \/ p[i] \in CommentEnd /\ i > 1 /\ InComment(p, i - 1)
             PairsAccepted == \A i \in Pairs(p) : i + 1 \in Digits(p)
  <1>1. DOMAIN p = 1 .. n /\ \A i \in 1 .. n : p[i] = s[i]
    BY PrefixCharacters
  <1>2. \A i \in 1 .. n : InComment(p, i) <=> InComment(s, i)
    BY PrefixComment
  <1>3. Digits(p) = Digits(s) \cap 1 .. n /\ Pairs(p) = Pairs(s) \cap 1 .. n
    BY PrefixDigits, PrefixPairs
  <1>4. Pairs(s) \subseteq 1 .. Len(s) /\ Digits(s) \subseteq 1 .. Len(s)
    BY DigitsInFile
  <1>5. Accepted(p) <=> CharactersAccepted /\ PairsAccepted
    BY DEF Accepted
  <1> HIDE DEF p
  <1>6. CharactersAccepted <=> \A i \in 1 .. n : s[i] \in Blank \cup HexDigit \/ InComment(s, i)
    BY <1>1, <1>2 DEF Separate
  <1>7. PairsAccepted <=> /\ \A i \in Pairs(s) : i < n => i + 1 \in Digits(s)
                          /\ n \notin Pairs(s)
    <2>1. ASSUME PairsAccepted, NEW i \in Pairs(s), i < n
          PROVE  i + 1 \in Digits(s)
      BY <1>3, <1>4, <2>1
    <2>2. ASSUME PairsAccepted
          PROVE  n \notin Pairs(s)
      BY <1>3, <1>4, <2>2
    <2>3. ASSUME \A i \in Pairs(s) : i < n => i + 1 \in Digits(s), n \notin Pairs(s),
                 NEW i \in Pairs(s) \cap 1 .. n
          PROVE  i + 1 \in Digits(s) \cap 1 .. n
      BY <1>4, <2>3
    <2> QED
      BY <1>3, <2>1, <2>2, <2>3
  <1> QED
    BY <1>5, <1>6, <1>7 DEF Fine, p

LEMMA WholeFile ==
    ASSUME NEW s \in Seq(Nat)
    PROVE  Prefix(s, Len(s)) = s
  BY DEF Prefix

(* There is a longest part of a file that is a HEX file.                   *)
LEMMA ReadableExists ==
    ASSUME Separate, NEW s \in Seq(Nat)
    PROVE  \E n \in 0 .. Len(s) : ReadableLength(s, n)
  <1> DEFINE T == {k \in 0 .. Len(s) : Accepted(Prefix(s, Len(s) - k))}
  <1>1. Accepted(Prefix(s, 0))
    <2>1. Fine(s, 0) /\ 0 \notin Pairs(s)
      BY DigitsInFile DEF Fine
    <2> QED
      BY <2>1, AcceptedPrefix
  <1>2. T \in SUBSET Nat /\ Len(s) \in T
    BY <1>1
  <1>3. PICK k \in T : \A l \in T : k <= l
    BY <1>2, Least
  <1>4. ASSUME NEW m \in Len(s) - k + 1 .. Len(s), Accepted(Prefix(s, m))
        PROVE  FALSE
    <2>1. Len(s) - m \in T
      BY <1>4
    <2> QED
      BY <1>3, <2>1
  <1> QED
    BY <1>3, <1>4 DEF ReadableLength

LEMMA ReadableUnique ==
    ASSUME Separate, NEW s \in Seq(Nat), NEW n \in 0 .. Len(s), ReadableLength(s, n)
    PROVE  Readable(s) = Prefix(s, n)
  <1>1. \A m \in 0 .. Len(s) : ReadableLength(s, m) => m = n
    BY DEF ReadableLength
  <1>2. (CHOOSE m \in 0 .. Len(s) : ReadableLength(s, m)) = n
    BY <1>1
  <1> QED
    BY <1>2 DEF Readable

-----------------------------------------------------------------------------
(* The numbers of the pairs.                                               *)
LEMMA NumberStep ==
    ASSUME NEW P \in SUBSET (Nat \ {0}), IsFiniteSet(P), NEW i \in Nat
    PROVE  /\ number(P, i) \in Nat
           /\ number(P, 0) = 0
           /\ number(P, i + 1) = number(P, i) + (IF i + 1 \in P THEN 1 ELSE 0)
           /\ number(P, i) <= Cardinality(P)
  <1> DEFINE A == {j \in P : j <= i}
  <1>0. \A j \in P : j \in Nat /\ j >= 1
    OBVIOUS
  <1>1. /\ IsFiniteSet(A) /\ Cardinality(A) \in Nat
        /\ Cardinality(A) <= Cardinality(P)
    BY FS_Subset, FS_CardinalityType
  <1>2. {j \in P : j <= i + 1} = IF i + 1 \in P THEN A \cup {i + 1} ELSE A
    <2>1. \A j \in P : j <= i + 1 <=> j <= i \/ j = i + 1
      BY <1>0
    <2> QED
      BY <2>1
  <1>3. {j \in P : j <= 0} = {}
    <2>1. \A j \in P : ~(j <= 0)
      BY <1>0
    <2> QED
      BY <2>1
  <1>4. i + 1 \notin A
    OBVIOUS
  <1> HIDE DEF A
  <1>5. Cardinality(A \cup {i + 1}) = Cardinality(A) + 1
    BY <1>1, <1>4, FS_AddElement
  <1>6. number(P, i) = Cardinality(A) /\ number(P, 0) = 0
    BY <1>3, FS_EmptySet DEF number, A
  <1>7. number(P, i + 1) = Cardinality(A) + (IF i + 1 \in P THEN 1 ELSE 0)
    <2>1. CASE i + 1 \in P
      BY <1>2, <1>5, <2>1 DEF number
    <2>2. CASE i + 1 \notin P
      BY <1>1, <1>2, <2>2 DEF number
    <2> QED
      BY <2>1, <2>2
  <1> QED
    BY <1>1, <1>6, <1>7

(* Every number from 1 on is the number of a pair.                         *)
LEMMA PairExists ==
    ASSUME NEW P \in SUBSET (Nat \ {0}), IsFiniteSet(P),
           NEW m \in Nat, \A i \in P : i <= m,
           NEW k \in 1 .. Cardinality(P)
    PROVE  pair(P, k) \in P /\ number(P, pair(P, k)) = k
  <1> DEFINE T == {i \in Nat : number(P, i) >= k}
  <1>1. {j \in P : j <= m} = P
    OBVIOUS
  <1>2. m \in T /\ T \in SUBSET Nat
    <2>1. number(P, m) = Cardinality(P)
      BY <1>1 DEF number
    <2> QED
      BY <2>1, FS_CardinalityType
  <1>3. PICK i \in T : \A j \in T : i <= j
    BY <1>2, Least
  <1>4. i # 0
    BY <1>3, NumberStep
  <1>5. i - 1 \in Nat /\ i - 1 \notin T /\ (i - 1) + 1 = i
    BY <1>3, <1>4
  <1>6. number(P, i - 1) < k /\ number(P, i - 1) \in Nat /\ number(P, i) >= k
    BY <1>3, <1>5, NumberStep
  <1>7. number(P, i) = number(P, i - 1) + (IF i \in P THEN 1 ELSE 0)
    BY <1>5, NumberStep
  <1>8. i \in P /\ number(P, i) = k
    BY <1>6, <1>7
  <1> QED
    BY <1>8 DEF pair

(* The number belongs to no other pair.                                    *)
LEMMA PairUnique ==
    ASSUME NEW P \in SUBSET (Nat \ {0}), IsFiniteSet(P), NEW i \in P
    PROVE  pair(P, number(P, i)) = i
  <1>1. ASSUME NEW j \in P, NEW k \in P, j < k
        PROVE  number(P, j) # number(P, k)
    <2> DEFINE A == {l \in P : l <= j}
               B == {l \in P : l <= k}
    <2>1. \A l \in P : l \in Nat
      OBVIOUS
    <2>2. k \in B /\ k \notin A /\ A \subseteq B /\ B \in SUBSET P
      <3>1. \A l \in P : l <= j => l <= k
        BY <1>1, <2>1
      <3>2. ~(k <= j) /\ k <= k
        BY <1>1, <2>1
      <3> QED
        BY <3>1, <3>2
    <2> HIDE DEF A, B
    <2>3. IsFiniteSet(B) /\ (Cardinality(B) = Cardinality(A) => B = A)
      BY <2>2, FS_Subset
    <2> QED
      BY <2>2, <2>3 DEF number, A, B
  <1>2. \A j \in P : number(P, j) = number(P, i) => j = i
    <2>1. \A j \in P : j \in Nat
      OBVIOUS
    <2> QED
      BY <1>1, <2>1
  <1> QED
    BY <1>2 DEF pair

(* Pairs that follow do not change the numbers of those in front of them.  *)
LEMMA EarlierPair ==
    ASSUME NEW P \in SUBSET (Nat \ {0}), IsFiniteSet(P), NEW m \in Nat,
           NEW Q, Q = P \cap 1 .. m
    PROVE  /\ Cardinality(Q) \in Nat
           /\ Cardinality(Q) = number(P, m)
           /\ \A k \in 1 .. Cardinality(Q) : pair(Q, k) \in Q /\ pair(P, k) = pair(Q, k)
  <1>1. /\ Q \in SUBSET (Nat \ {0}) /\ Q \in SUBSET P
        /\ \A i \in Q : i <= m
    OBVIOUS
  <1>2. IsFiniteSet(Q) /\ Cardinality(Q) \in Nat /\ Cardinality(Q) <= Cardinality(P)
    BY <1>1, FS_Subset, FS_CardinalityType
  <1>0. \A j \in P : j \in Nat /\ j >= 1 /\ (j \in Q <=> j <= m)
    OBVIOUS
  <1>3. Q = {j \in P : j <= m}
    BY <1>0
  <1>4. ASSUME NEW i \in Q
        PROVE  {j \in P : j <= i} = {j \in Q : j <= i}
    <2>1. \A j \in P : j <= i => j \in Q
      BY <1>0
    <2> QED
      BY <2>1, <1>1
  <1>5. \A i \in P : i \notin Q => i > m
    OBVIOUS
  <1>6. \A i \in Q : number(P, i) = number(Q, i)
    BY <1>4 DEF number
  <1>7. \A i \in P : i \notin Q => number(P, i) > Cardinality(Q)
    <2> SUFFICES ASSUME NEW i \in P, i \notin Q
                 PROVE  number(P, i) > Cardinality(Q)
      OBVIOUS
    <2> DEFINE A == {j \in P : j <= i}
    <2>1. Q \cup {i} \subseteq A /\ A \subseteq P
      <3>1. i > m /\ i \in Nat /\ \A j \in Q : j \in P /\ j \in Nat /\ j <= m
        BY <1>0, <1>1, <1>5
      <3> QED
        BY <3>1
    <2> HIDE DEF A
    <2>2. Cardinality(Q \cup {i}) = Cardinality(Q) + 1 /\ IsFiniteSet(Q \cup {i})
      BY <1>2, FS_AddElement
    <2>3. IsFiniteSet(A) /\ Cardinality(A) \in Nat
      BY <2>1, FS_Subset, FS_CardinalityType
    <2>4. Cardinality(Q \cup {i}) <= Cardinality(A)
      BY <2>1, <2>3, FS_Subset
    <2> QED
      BY <1>2, <2>2, <2>3, <2>4 DEF number, A
  <1>8. ASSUME NEW k \in 1 .. Cardinality(Q)
        PROVE  pair(Q, k) \in Q /\ pair(P, k) = pair(Q, k)
    <2>1. pair(Q, k) \in Q
      BY <1>1, <1>2, PairExists
    <2>2. \A i : i \in P /\ number(P, i) = k <=> i \in Q /\ number(Q, i) = k
      <3>1. \A i \in P : number(P, i) = k => i \in Q
        BY <1>2, <1>7, <1>8
      <3> QED
        BY <1>1, <1>6, <3>1
    <2>3. (CHOOSE i : i \in P /\ number(P, i) = k) = CHOOSE i : i \in Q /\ number(Q, i) = k
      BY <2>2
    <2> QED
      BY <2>1, <2>3 DEF pair
  <1>9. Cardinality(Q) = number(P, m)
    BY <1>3 DEF number
  <1> QED
    BY <1>2, <1>8, <1>9

-----------------------------------------------------------------------------
(* The byte of a pair.                                                     *)
byte(s, i) == 16 * digit(s[i]) + digit(s[i + 1])

(* The bytes of an accepted beginning, described in the whole file.        *)
LEMMA PrefixBytes ==
    ASSUME Separate, NEW s \in Seq(Nat), NEW n \in 0 .. Len(s), n \notin Pairs(s)
    PROVE  /\ IsFiniteSet(Pairs(s))
           /\ Pairs(s) \in SUBSET (Nat \ {0})
           /\ number(Pairs(s), n) \in Nat
           /\ \A k \in 1 .. number(Pairs(s), n) :
                 pair(Pairs(s), k) \in Nat /\ byte(s, pair(Pairs(s), k)) \in Int
           /\ Bytes(Prefix(s, n)) =
                 [k \in 1 .. number(Pairs(s), n) |-> byte(s, pair(Pairs(s), k))]
  <1> DEFINE p == Prefix(s, n)
             P == Pairs(s)
             Q == P \cap 1 .. n
  <1>1. P \subseteq 1 .. Len(s)
    BY DigitsInFile
  <1>2. IsFiniteSet(P) /\ P \in SUBSET (Nat \ {0})
    <2>1. Len(s) \in Int /\ 1 \in Int
      OBVIOUS
    <2> HIDE DEF P
    <2>2. IsFiniteSet(1 .. Len(s))
      BY <2>1, FS_Interval
    <2>3. IsFiniteSet(P)
      BY <1>1, <2>2, FS_Subset
    <2> QED
      BY <1>1, <2>1, <2>3
  <1>3. /\ Cardinality(Q) = number(P, n) /\ number(P, n) \in Nat
        /\ \A k \in 1 .. Cardinality(Q) : pair(Q, k) \in Q /\ pair(P, k) = pair(Q, k)
    <2>1. n \in Nat /\ Q = P \cap 1 .. n
      OBVIOUS
    <2> HIDE DEF P, Q
    <2>3. Cardinality(Q) = number(P, n)
      BY <1>2, <2>1, EarlierPair
    <2>4. Cardinality(Q) \in Nat
      BY <1>2, <2>1, EarlierPair
    <2>5. \A k \in 1 .. Cardinality(Q) : pair(Q, k) \in Q /\ pair(P, k) = pair(Q, k)
      BY <1>2, <2>1, EarlierPair
    <2> QED
      BY <2>3, <2>4, <2>5
  <1>4. Pairs(p) = Q
    BY PrefixPairs
  <1>5. \A i \in 1 .. n : p[i] = s[i]
    BY PrefixCharacters
  <1>6. \A i \in Q : i \in 1 .. n /\ i + 1 \in 1 .. n
    OBVIOUS
  <1> HIDE DEF p, P, Q
  <1>7. Bytes(p) = [k \in 1 .. Cardinality(Q) |-> byte(p, pair(Q, k))]
    BY <1>4 DEF Bytes, byte
  <1>8. \A i \in Q : byte(p, i) = byte(s, i)
    BY <1>5, <1>6 DEF byte
  <1>9. \A k \in 1 .. Cardinality(Q) : byte(p, pair(Q, k)) = byte(s, pair(P, k))
    BY <1>3, <1>8
  <1>10. Bytes(p) = [k \in 1 .. Cardinality(Q) |-> byte(s, pair(P, k))]
    BY <1>7, <1>9
  <1>11. \A i \in Q : i \in Nat /\ byte(s, i) \in Int
    <2> SUFFICES ASSUME NEW i \in Q
                 PROVE  i \in Nat /\ byte(s, i) \in Int
      OBVIOUS
    <2>1. s[i] \in Nat /\ s[i + 1] \in Nat
      BY <1>6
    <2>2. digit(s[i]) \in Int /\ digit(s[i + 1]) \in Int
      <3>1. \A c \in Nat : digit(c) \in Int
        BY DEF digit
      <3> QED
        BY <2>1, <3>1
    <2> QED
      BY <1>6, <2>2 DEF byte
  <1> QED
    BY <1>2, <1>3, <1>10, <1>11 DEF p, P

(* A beginning of s ends with the bytes of its own beginnings.             *)
LEMMA BytesGrow ==
    ASSUME Separate, NEW s \in Seq(Nat),
           NEW n \in 0 .. Len(s), n \notin Pairs(s),
           NEW m \in 0 .. n, m \notin Pairs(s)
    PROVE  /\ Bytes(Prefix(s, m)) \in Seq(Int)
           /\ Bytes(Prefix(s, n)) \in Seq(Int)
           /\ Len(Bytes(Prefix(s, m))) <= Len(Bytes(Prefix(s, n)))
           /\ \A k \in 1 .. Len(Bytes(Prefix(s, m))) :
                 Bytes(Prefix(s, n))[k] = Bytes(Prefix(s, m))[k]
  <1> DEFINE P == Pairs(s)
             M == number(P, m)
             N == number(P, n)
             Q == [k \in 1 .. N |-> byte(s, pair(P, k))]
             R == [k \in 1 .. M |-> byte(s, pair(P, k))]
  <1>1. /\ IsFiniteSet(P) /\ P \in SUBSET (Nat \ {0}) /\ M \in Nat /\ N \in Nat
        /\ \A k \in 1 .. N : byte(s, pair(P, k)) \in Int
        /\ \A k \in 1 .. M : byte(s, pair(P, k)) \in Int
        /\ Bytes(Prefix(s, n)) = Q /\ Bytes(Prefix(s, m)) = R
    BY PrefixBytes
  <1> HIDE DEF P
  <1>2. M <= N
    <2> DEFINE A == {j \in P : j <= n}
               B == {j \in P : j <= m}
    <2>1. B \in SUBSET A /\ A \in SUBSET P
      <3>1. \A j \in P : j \in Nat
        BY <1>1
      <3> QED
        BY <3>1
    <2> HIDE DEF A, B
    <2>2. IsFiniteSet(A) /\ Cardinality(B) <= Cardinality(A)
      BY <1>1, <2>1, FS_Subset
    <2> QED
      BY <2>2 DEF A, B, number
  <1> HIDE DEF M, N
  <1>3. Q \in Seq(Int) /\ Len(Q) = N
    BY <1>1
  <1>4. R \in Seq(Int) /\ Len(R) = M
    BY <1>1
  <1>5. \A k \in 1 .. M : Q[k] = R[k]
    BY <1>1, <1>2
  <1> QED
    BY <1>1, <1>2, <1>3, <1>4, <1>5

LEMMA BytesUnchanged ==
    ASSUME Separate, NEW s \in Seq(Nat),
           NEW n \in 0 .. Len(s), n \notin Pairs(s), n + 1 <= Len(s), n + 1 \notin Pairs(s)
    PROVE  Bytes(Prefix(s, n + 1)) = Bytes(Prefix(s, n))
  <1> DEFINE P == Pairs(s)
  <1>1. n + 1 \in 0 .. Len(s)
    OBVIOUS
  <1>2. /\ IsFiniteSet(P) /\ P \in SUBSET (Nat \ {0})
        /\ Bytes(Prefix(s, n)) = [k \in 1 .. number(P, n) |-> byte(s, pair(P, k))]
        /\ Bytes(Prefix(s, n + 1)) = [k \in 1 .. number(P, n + 1) |-> byte(s, pair(P, k))]
    BY <1>1, PrefixBytes
  <1>3. number(P, n + 1) = number(P, n)
    BY <1>2, NumberStep
  <1> QED
    BY <1>2, <1>3

LEMMA BytesNext ==
    ASSUME Separate, NEW s \in Seq(Nat), NEW n \in Pairs(s), n + 1 \in Digits(s)
    PROVE  /\ n - 1 \in 0 .. Len(s) /\ n - 1 \notin Pairs(s)
           /\ n + 1 \in 0 .. Len(s) /\ n + 1 \notin Pairs(s)
           /\ Bytes(Prefix(s, n + 1)) = Append(Bytes(Prefix(s, n - 1)), byte(s, n))
  <1> DEFINE P == Pairs(s)
             N == number(P, n - 1)
             Q == [k \in 1 .. N |-> byte(s, pair(P, k))]
             R == [k \in 1 .. N + 1 |-> byte(s, pair(P, k))]
  <1>1. n \in Digits(s) /\ n \in 1 .. Len(s) /\ n + 1 \in 1 .. Len(s)
    BY DigitsInFile
  <1>2. n - 1 \notin P /\ n + 1 \notin P
    <2>1. (n + 1) - 1 = n
      BY <1>1
    <2> QED
      BY <1>1, <2>1, PairStep
  <1>3. n - 1 \in 0 .. Len(s) /\ n + 1 \in 0 .. Len(s)
    BY <1>1
  <1>4. /\ IsFiniteSet(P) /\ P \in SUBSET (Nat \ {0}) /\ N \in Nat
        /\ Bytes(Prefix(s, n - 1)) = Q
        /\ \A k \in 1 .. N : byte(s, pair(P, k)) \in Int
    BY <1>2, <1>3, PrefixBytes
  <1>5. /\ Bytes(Prefix(s, n + 1)) = [k \in 1 .. number(P, n + 1) |-> byte(s, pair(P, k))]
        /\ \A k \in 1 .. number(P, n + 1) : byte(s, pair(P, k)) \in Int
    BY <1>2, <1>3, PrefixBytes
  <1>6. number(P, n) = N + 1 /\ number(P, n + 1) = N + 1
    <2>1. n - 1 \in Nat /\ n \in Nat /\ (n - 1) + 1 = n /\ n \in P
      BY <1>1
    <2> HIDE DEF P
    <2>2. number(P, n) = N + 1
      BY <1>4, <2>1, NumberStep
    <2>3. number(P, n + 1) = number(P, n) + 0
      BY <1>2, <1>4, <2>1, NumberStep
    <2> QED
      BY <1>4, <2>2, <2>3
  <1>7. pair(P, N + 1) = n
    BY <1>4, <1>6, PairUnique
  <1>8. Bytes(Prefix(s, n + 1)) = R
    BY <1>5, <1>6
  <1> HIDE DEF P, N
  <1>9. R = Append(Q, byte(s, n))
    BY <1>4, <1>5, <1>6, <1>7
  <1> QED
    BY <1>2, <1>3, <1>4, <1>8, <1>9 DEF P

-----------------------------------------------------------------------------
(* What a program knows that has read n characters of s and written out:   *)
(* mode says what it waits for.                                            *)
Mode == {"item", "comment", "second"}

Scanned(s, n, mode, out) ==
    /\ Fine(s, n)
    /\ mode = "comment" <=> InComment(s, n)
    /\ mode = "second" <=> n \in Pairs(s)
    /\ out = Bytes(Prefix(s, IF mode = "second" THEN n - 1 ELSE n))

LEMMA ScanBegins ==
    ASSUME Separate, NEW s \in Seq(Nat)
    PROVE  Scanned(s, 0, "item", <<>>)
  <1> DEFINE P == Pairs(s)
  <1>1. 0 \notin P /\ 0 \in 0 .. Len(s)
    BY DigitsInFile
  <1>2. /\ IsFiniteSet(P) /\ P \in SUBSET (Nat \ {0})
        /\ Bytes(Prefix(s, 0)) = [k \in 1 .. number(P, 0) |-> byte(s, pair(P, k))]
    BY <1>1, PrefixBytes
  <1>3. number(P, 0) = 0
    BY <1>2, NumberStep
  <1>4. Bytes(Prefix(s, 0)) = <<>>
    BY <1>2, <1>3
  <1>5. Fine(s, 0) /\ ~InComment(s, 0)
    BY DigitsInFile DEF Fine, InComment
  <1> QED
    BY <1>1, <1>4, <1>5 DEF Scanned

LEMMA FineStep ==
    ASSUME NEW s \in Seq(Nat), NEW n \in 0 .. Len(s), n < Len(s), Fine(s, n)
    PROVE  Fine(s, n + 1) <=>
              /\ s[n + 1] \in Blank \cup HexDigit \/ InComment(s, n + 1)
              /\ n \in Pairs(s) => n + 1 \in Digits(s)
  <1>1. \A i \in Pairs(s) : i \in Nat
    BY DigitsInFile
  <1>2. \A i \in 1 .. n + 1 : i \in 1 .. n \/ i = n + 1
    OBVIOUS
  <1>3. \A i \in Pairs(s) : i < n + 1 <=> i < n \/ i = n
    BY <1>1
  <1> QED
    BY <1>2, <1>3 DEF Fine

(* Between pairs.                                                          *)
LEMMA ScanItem ==
    ASSUME Separate, NEW s \in Seq(Nat), NEW n \in 0 .. Len(s), n < Len(s),
           NEW out, Scanned(s, n, "item", out)
    PROVE  /\ s[n + 1] \in Blank => Scanned(s, n + 1, "item", out)
           /\ s[n + 1] = Hash => Scanned(s, n + 1, "comment", out)
           /\ s[n + 1] \in HexDigit => Scanned(s, n + 1, "second", out)
           /\ s[n + 1] \notin Blank \cup HexDigit \cup {Hash} => ~Fine(s, n + 1)
  <1> DEFINE c == s[n + 1]
  <1>1. Fine(s, n) /\ ~InComment(s, n) /\ n \notin Pairs(s) /\ out = Bytes(Prefix(s, n))
    BY DEF Scanned
  <1>2. n + 1 \in 1 .. Len(s) /\ (n + 1) - 1 = n
    OBVIOUS
  <1>3. InComment(s, n + 1) <=> c \notin CommentEnd /\ c = Hash
    BY <1>1, <1>2, CommentStep
  <1>4. n + 1 \in Digits(s) <=> c \in HexDigit /\ ~InComment(s, n + 1)
    BY <1>2 DEF Digits
  <1>5. Pairs(s) \subseteq Digits(s) /\ (n + 1 \in Digits(s) => n + 1 \in Pairs(s))
    BY <1>1, <1>2, DigitsInFile, PairStep
  <1>6. Fine(s, n + 1) <=> c \in Blank \cup HexDigit \/ InComment(s, n + 1)
    BY <1>1, FineStep
  <1>7. n + 1 \notin Pairs(s) => Bytes(Prefix(s, n + 1)) = out
    BY <1>1, BytesUnchanged
  <1> HIDE DEF c
  <1>8. Hash \notin Blank /\ Hash \notin CommentEnd /\ Hash \notin HexDigit
    BY DEF Separate, Hash, HexDigit
  <1>9. ASSUME c \in Blank
        PROVE  Scanned(s, n + 1, "item", out)
    <2>1. c # Hash /\ c \notin HexDigit
      BY <1>8, <1>9 DEF Separate
    <2> QED
      BY <1>3, <1>4, <1>5, <1>6, <1>7, <1>9, <2>1 DEF Scanned
  <1>10. ASSUME c = Hash
         PROVE  Scanned(s, n + 1, "comment", out)
    BY <1>3, <1>4, <1>5, <1>6, <1>7, <1>8, <1>10 DEF Scanned
  <1>11. ASSUME c \in HexDigit
         PROVE  Scanned(s, n + 1, "second", out)
    BY <1>1, <1>2, <1>3, <1>4, <1>5, <1>6, <1>8, <1>11 DEF Scanned
  <1>12. ASSUME c \notin Blank \cup HexDigit \cup {Hash}
         PROVE  ~Fine(s, n + 1)
    BY <1>3, <1>6, <1>12
  <1> QED
    BY <1>9, <1>10, <1>11, <1>12 DEF c

(* In a comment.                                                           *)
LEMMA ScanComment ==
    ASSUME Separate, NEW s \in Seq(Nat), NEW n \in 0 .. Len(s), n < Len(s),
           NEW out, Scanned(s, n, "comment", out)
    PROVE  /\ s[n + 1] \in CommentEnd => Scanned(s, n + 1, "item", out)
           /\ s[n + 1] \notin CommentEnd => Scanned(s, n + 1, "comment", out)
  <1> DEFINE c == s[n + 1]
  <1>1. Fine(s, n) /\ InComment(s, n) /\ n \notin Pairs(s) /\ out = Bytes(Prefix(s, n))
    BY DEF Scanned
  <1>2. n + 1 \in 1 .. Len(s) /\ (n + 1) - 1 = n
    OBVIOUS
  <1>3. InComment(s, n + 1) <=> c \notin CommentEnd
    BY <1>1, <1>2, CommentStep
  <1>4. n + 1 \notin Digits(s)
    <2>1. CASE InComment(s, n + 1)
      BY <2>1 DEF Digits
    <2>2. CASE ~InComment(s, n + 1)
      <3>1. c \notin HexDigit
        BY <1>3, <2>2 DEF Separate
      <3> QED
        BY <3>1 DEF Digits
    <2> QED
      BY <2>1, <2>2
  <1>5. n + 1 \notin Pairs(s) /\ Bytes(Prefix(s, n + 1)) = out
    BY <1>1, <1>2, <1>4, DigitsInFile, BytesUnchanged
  <1>6. Fine(s, n + 1)
    <2>1. c \in Blank \cup HexDigit \/ InComment(s, n + 1)
      BY <1>3 DEF Separate
    <2> QED
      BY <1>1, <2>1, FineStep
  <1> QED
    BY <1>3, <1>5, <1>6 DEF Scanned

(* Between the digits of a pair.                                           *)
LEMMA ScanSecond ==
    ASSUME Separate, NEW s \in Seq(Nat), NEW n \in 0 .. Len(s), n < Len(s),
           NEW out, Scanned(s, n, "second", out)
    PROVE  /\ s[n] \in HexDigit
           /\ s[n + 1] \in HexDigit => Scanned(s, n + 1, "item", Append(out, byte(s, n)))
           /\ s[n + 1] \notin HexDigit => ~Fine(s, n + 1)
  <1>1. Fine(s, n) /\ n \in Pairs(s) /\ out = Bytes(Prefix(s, n - 1)) /\ n \in Digits(s)
    BY DigitsInFile DEF Scanned
  <1>2. n + 1 \in 1 .. Len(s) /\ (n + 1) - 1 = n
    OBVIOUS
  <1>3. ~InComment(s, n) /\ s[n] \in HexDigit
    BY <1>1 DEF Digits
  <1>4. InComment(s, n + 1) <=> s[n + 1] \notin CommentEnd /\ s[n + 1] = Hash
    BY <1>2, <1>3, CommentStep
  <1>5. n + 1 \in Digits(s) <=> s[n + 1] \in HexDigit
    BY <1>2, <1>4 DEF Digits, HexDigit, Hash
  <1>6. ASSUME s[n + 1] \in HexDigit
        PROVE  Scanned(s, n + 1, "item", Append(out, byte(s, n)))
    <2>1. Fine(s, n + 1)
      BY <1>1, <1>5, <1>6, FineStep
    <2>2. n + 1 \notin Pairs(s) /\ Bytes(Prefix(s, n + 1)) = Append(out, byte(s, n))
      BY <1>1, <1>5, <1>6, BytesNext
    <2>3. ~InComment(s, n + 1)
      BY <1>5, <1>6 DEF Digits
    <2> QED
      BY <2>1, <2>2, <2>3 DEF Scanned
  <1>7. ASSUME s[n + 1] \notin HexDigit
        PROVE  ~Fine(s, n + 1)
    BY <1>1, <1>5, <1>7, FineStep
  <1> QED
    BY <1>3, <1>6, <1>7

(* At the end of the file, or at an error: everything is decided.          *)
LEMMA ScanEnds ==
    ASSUME Separate, NEW s \in Seq(Nat), NEW n \in 0 .. Len(s),
           NEW mode \in Mode, NEW out, Scanned(s, n, mode, out),
           n = Len(s) \/ ~Fine(s, n + 1)
    PROVE  /\ out = Bytes(Readable(s))
           /\ Accepted(s) <=> n = Len(s) /\ mode # "second"
  <1> DEFINE m == IF mode = "second" THEN n - 1 ELSE n
  <1>1. /\ Fine(s, n) /\ out = Bytes(Prefix(s, m))
        /\ mode = "second" <=> n \in Pairs(s)
    BY DEF Scanned
  <1>2. \A k \in n + 1 .. Len(s) : ~Accepted(Prefix(s, k))
    <2> SUFFICES ASSUME NEW k \in n + 1 .. Len(s), Accepted(Prefix(s, k))
                 PROVE  FALSE
      OBVIOUS
    <2>1. k \in 0 .. Len(s) /\ n + 1 \in 0 .. k /\ n # Len(s)
      OBVIOUS
    <2>2. Fine(s, n + 1)
      BY <2>1, AcceptedPrefix, FineShorter
    <2> QED
      BY <2>1, <2>2
  <1>3. m \in 0 .. n /\ m \in 0 .. Len(s) /\ m \notin Pairs(s)
    <2>1. CASE n \in Pairs(s)
      <3>1. n \in Digits(s) /\ n \in 1 .. Len(s)
        BY <2>1, DigitsInFile
      <3> QED
        BY <1>1, <2>1, <3>1, PairStep
    <2>2. CASE n \notin Pairs(s)
      BY <1>1, <2>2
    <2> QED
      BY <2>1, <2>2
  <1>4. Accepted(Prefix(s, m))
    BY <1>1, <1>3, FineShorter, AcceptedPrefix
  <1>5. Accepted(Prefix(s, n)) <=> mode # "second"
    BY <1>1, AcceptedPrefix
  <1>6. ReadableLength(s, m)
    <2>1. \A k \in m + 1 .. Len(s) : k \in n + 1 .. Len(s) \/ (k = n /\ mode = "second")
      OBVIOUS
    <2> QED
      BY <1>2, <1>4, <1>5, <2>1 DEF ReadableLength
  <1>7. Readable(s) = Prefix(s, m)
    BY <1>3, <1>6, ReadableUnique
  <1>8. Accepted(s) <=> n = Len(s) /\ mode # "second"
    <2>1. CASE n = Len(s)
      BY <1>5, <2>1, WholeFile
    <2>2. CASE n # Len(s)
      <3>1. Len(s) \in n + 1 .. Len(s)
        BY <2>2
      <3> QED
        BY <1>2, <2>2, <3>1, WholeFile
    <2> QED
      BY <2>1, <2>2
  <1> QED
    BY <1>1, <1>7, <1>8

(* Whatever follows, what was written stays what the file asks for.        *)
LEMMA ScanWrites ==
    ASSUME Separate, NEW s \in Seq(Nat), NEW n \in 0 .. Len(s),
           NEW mode \in Mode, NEW out, Scanned(s, n, mode, out)
    PROVE  /\ out \in Seq(Int)
           /\ Bytes(Readable(s)) \in Seq(Int)
           /\ Len(out) <= Len(Bytes(Readable(s)))
           /\ \A k \in 1 .. Len(out) : Bytes(Readable(s))[k] = out[k]
  <1> DEFINE m == IF mode = "second" THEN n - 1 ELSE n
  <1>1. /\ Fine(s, n) /\ out = Bytes(Prefix(s, m))
        /\ mode = "second" <=> n \in Pairs(s)
    BY DEF Scanned
  <1>2. m \in 0 .. n /\ m \in 0 .. Len(s) /\ m \notin Pairs(s)
    <2>1. CASE n \in Pairs(s)
      <3>1. n \in Digits(s) /\ n \in 1 .. Len(s)
        BY <2>1, DigitsInFile
      <3> QED
        BY <1>1, <2>1, <3>1, PairStep
    <2>2. CASE n \notin Pairs(s)
      BY <1>1, <2>2
    <2> QED
      BY <2>1, <2>2
  <1>3. Accepted(Prefix(s, m))
    BY <1>1, <1>2, FineShorter, AcceptedPrefix
  <1>4. PICK l \in 0 .. Len(s) : ReadableLength(s, l)
    BY ReadableExists
  <1> HIDE DEF m
  <1>5. l >= m /\ Accepted(Prefix(s, l))
    BY <1>2, <1>3, <1>4 DEF ReadableLength
  <1>6. l \notin Pairs(s) /\ m \in 0 .. l
    BY <1>2, <1>5, AcceptedPrefix
  <1>7. Readable(s) = Prefix(s, l)
    BY <1>4, ReadableUnique
  <1> QED
    BY <1>1, <1>2, <1>6, <1>7, BytesGrow

-----------------------------------------------------------------------------
(* What is known of a file stays true of every file that goes on with it.  *)
LEMMA FineGrows ==
    ASSUME NEW t \in Seq(Nat), NEW k \in 0 .. Len(t), NEW n \in 0 .. k
    PROVE  Fine(Prefix(t, k), n) <=> Fine(t, n)
  <1> DEFINE s == Prefix(t, k)
  <1>1. \A i \in 1 .. n : s[i] = t[i] /\ (InComment(s, i) <=> InComment(t, i))
    BY PrefixCharacters, PrefixComment
  <1>2. Digits(s) = Digits(t) \cap 1 .. k /\ Pairs(s) = Pairs(t) \cap 1 .. k
    BY PrefixDigits, PrefixPairs
  <1>3. \A i \in Pairs(t) : i \in Nat \ {0}
    BY DigitsInFile
  <1> HIDE DEF s
  <1>4. \A i \in Pairs(t) : i < n => i \in Pairs(s) /\ (i + 1 \in Digits(s) <=> i + 1 \in Digits(t))
    BY <1>2, <1>3
  <1>5. \A i \in Pairs(s) : i \in Pairs(t)
    BY <1>2
  <1>6. Fine(s, n) <=> Fine(t, n)
    BY <1>1, <1>4, <1>5 DEF Fine
  <1> QED
    BY <1>6 DEF s

LEMMA ScannedGrows ==
    ASSUME NEW t \in Seq(Nat), NEW k \in 0 .. Len(t), NEW n \in 0 .. k,
           NEW mode, NEW out, Scanned(Prefix(t, k), n, mode, out)
    PROVE  Scanned(t, n, mode, out)
  <1> DEFINE s == Prefix(t, k)
             m == IF mode = "second" THEN n - 1 ELSE n
  <1>1. Fine(t, n)
    BY FineGrows DEF Scanned
  <1>2. InComment(s, n) <=> InComment(t, n)
    BY PrefixComment
  <1>3. Pairs(s) = Pairs(t) \cap 1 .. k /\ \A i \in Pairs(t) : i \in Nat \ {0}
    BY PrefixPairs, DigitsInFile
  <1> HIDE DEF s
  <1>4. n \in Pairs(s) <=> n \in Pairs(t)
    BY <1>3
  <1>5. /\ mode = "comment" <=> InComment(s, n)
        /\ mode = "second" <=> n \in Pairs(s)
        /\ out = Bytes(Prefix(s, m))
    BY DEF Scanned, s
  <1>6. m \in 0 .. k
    BY <1>3, <1>4, <1>5
  <1> HIDE DEF m
  <1>7. Prefix(s, m) = Prefix(t, m)
    BY <1>6 DEF s, Prefix
  <1>8. out = Bytes(Prefix(t, m))
    BY <1>5, <1>7
  <1> QED
    BY <1>1, <1>2, <1>4, <1>5, <1>8 DEF Scanned, m
=============================================================================
