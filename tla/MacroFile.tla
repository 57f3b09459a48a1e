------------------------------- MODULE MacroFile -------------------------------
(***************************************************************************)
(* The promise of a MACRO compiler: which files are MACRO files and which  *)
(* LABEL tokens they stand for (src/doc/grammar/macro.g).  A file is split *)
(* into tokens first; a use of a macro stands for the tokens of the value  *)
(* that was declared last before it.  The program does neither: it copies  *)
(* characters and replaces names while it reads.                           *)
(*                                                                         *)
(* The grammar also allows blanks behind %, which the program rejects.     *)
(***************************************************************************)
EXTENDS LabelFile

Blank == {32, 9, 10}

(* The first position from i on whose character is not in S.               *)
Skip(s, i, S) == i + RunLength(SubSeq(s, i, Len(s)), S)

MacroDeclaration(s) ==
    LET name == SubSeq(s, 2, Skip(s, 2, IdentifierPart) - 1)
        colon == Skip(s, Len(name) + 2, Blank)
        quote == Skip(s, colon + 1, Blank)
        end == Skip(s, quote + 1, Int \ {34})
        valid == /\ IsIdentifier(name)
                 /\ colon <= Len(s) /\ s[colon] = 58
                 /\ quote <= Len(s) /\ s[quote] = 34
                 /\ end <= Len(s)
    IN IF valid THEN [text |-> SubSeq(s, quote + 1, end - 1)] @@ Token("macro", name, end)
       ELSE Token("broken macro", <<>>, Len(s))

MacroTokens(s) ==
    LET from[i \in 1 .. Len(s) + 1] ==
            IF i > Len(s) THEN <<>>
            ELSE LET rest == SubSeq(s, i, Len(s))
                     t == IF s[i] = 37 THEN MacroDeclaration(rest) ELSE FirstToken(rest)
                 IN <<t>> \o from[i + t.length]
    IN from[1]

-----------------------------------------------------------------------------
Visible(ts) == SelectSeq(ts, LAMBDA t : t.kind # "hidden")

(* The declarations that the identifier ts[i] may refer to.                *)
Definitions(ts, i) ==
    {j \in 1 .. i - 1 : ts[j].kind = "macro" /\ ts[j].value = ts[i].value}

IsMacroUse(ts, i) == ts[i].kind = "use" /\ Definitions(ts, i) # {}

(* The text that the use ts[i] of a macro stands for.                      *)
ValueOf(ts, i) == ts[Max(Definitions(ts, i))].text

Expanded(ts) ==
    FlattenSeq([i \in DOMAIN ts |->
        CASE IsMacroUse(ts, i) -> Tokens(ValueOf(ts, i))
          [] ~IsMacroUse(ts, i) /\ ts[i].kind # "macro" -> <<ts[i]>>
          [] OTHER -> <<>>])

-----------------------------------------------------------------------------
(* The value is a piece of a LABEL file by itself: it has LABEL tokens and *)
(* no comment that goes on behind it.                                      *)
Closed(value) ==
    Lexes(Tokens(value)) /\ Tokens(value \o <<32>>) = Append(Tokens(value), Token("hidden", <<>>, 1))

(* An identifier needs a blank behind it, unless it ends the file.         *)
Spaced(s) ==
    \A i \in 1 .. Len(s) - 1 :
        LET ts == MacroTokens(SubSeq(s, 1, i))
        IN ts # <<>> /\ Last(ts).kind = "use" => s[i + 1] \in IdentifierPart \cup Blank

IsMacroFile(s) ==
    LET ts == MacroTokens(s)
    IN /\ \A i \in DOMAIN ts : ts[i].kind \notin {"error", "broken macro"}
       /\ \A i \in DOMAIN ts : IsMacroUse(ts, i) => Closed(ValueOf(ts, i))
       /\ Spaced(s)

Broken(s) == \E t \in ToSet(MacroTokens(s)) : t.kind = "broken macro"
=============================================================================
