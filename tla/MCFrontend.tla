------------------------------ MODULE MCFrontend ------------------------------
(***************************************************************************)
(* Files for model checking the front end: sequences of short pieces for   *)
(* the reader and the lexer; for the parser sentences of the grammar with  *)
(* one token left out, put in or replaced by another one.                  *)
(***************************************************************************)
EXTENDS Frontend

Joined(S, n) == {FlattenSeq(f) : f \in [1 .. n -> S]}
UpTo(S, n) == UNION {Joined(S, k) : k \in 0 .. n}

(* How the tokens are spelled; identifiers are a, b and main, a literal is *)
(* "b".  With MaxInt = 999, 951 is the last numeral whose computation does *)
(* not overflow, 952 and 999 have the value of an int, and 1000 has not.   *)
Spelled(t) ==
    CASE t \in {"a", "b"} -> IF t = "a" THEN <<97>> ELSE <<98>>
      [] t = "main" -> <<109, 97, 105, 110>>
      [] t = "7" -> <<55>>
      [] t = "951" -> <<57, 53, 49>>
      [] t = "952" -> <<57, 53, 50>>
      [] t = "999" -> <<57, 57, 57>>
      [] t = "1000" -> <<49, 48, 48, 48>>
      [] t = "string" -> <<34, 98, 34>>
      [] OTHER -> (CHOOSE w \in G!Words : w.kind = t).data

AllTokens == {w.kind : w \in G!Words} \cup {"a", "7", "1000", "string"}

(* "a", seven characters, a tab, a line feed, a blank, an unprintable one. *)
Spacing == {<<97>>, <<97, 97, 97, 97, 97, 97, 97>>, <<9>>, <<10>>, <<32>>, <<200>>}

(* Blanks, comments and tokens with and without something behind them.     *)
Gaps == {<<9>>, <<10>>, <<32, 32>>, <<35, 97, 10>>, <<35>>}
Pieces == Gaps \cup {<<34, 97, 34>>, <<97>>, <<61>>}
MorePieces == Pieces \cup {<<13, 10>>, <<95, 55>>, <<55>>, <<64>>, <<59>>, <<105, 102>>}

(* Of string literals: ", \, n, t, x, 4, g, a byte that is not printable.  *)
LiteralPieces == {<<34>>, <<92>>, <<110>>, <<116>>, <<120>>, <<52>>, <<103>>, <<200>>}

Of(arguments, texts) == {[argv |-> arguments, text |-> t] : t \in texts}

LexerFiles ==
    UpTo(Pieces, 4) \cup UpTo(MorePieces, 3)
      \cup {<<34>> \o f : f \in UpTo(LiteralPieces, 4)}
      \cup {<<34, 92, 120>> \o f : f \in UpTo(LiteralPieces, 3)}
      \cup {Spelled(t) \o Spelled(u) : t \in AllTokens, u \in AllTokens}
      \cup UNION {{Spelled(t) \o <<10>>, Front(Spelled(t)) \o <<95>>} : t \in AllTokens}

-----------------------------------------------------------------------------
InFunction(s) ==
    <<"function", "main", "(", ")", "{">> \o s \o <<"}">>

(* Between them they have every production of the grammar.                 *)
StatementSentences ==
    {<<"if", "(", "a", ")", "{", "break", "semicolon", "}", "else", "{", "continue", "semicolon", "}">>,
     <<"while", "(", "true", ")", "{", "return", "semicolon", "}">>,
     <<"for", "(", "var", "a", "assign", "7", "semicolon", "a", "less", "7", "semicolon",
       "let", "a", "assign", "false", ")", "{", "b", "semicolon", "}">>,
     <<"var", "a", "semicolon", "var", "b", "assign", "string", "semicolon">>,
     <<"let", "a", "assign", "log_not", "(", "a", "plus", "minus", "b", ")", "semicolon">>,
     <<"return", "a", "(", "7", "comma", "bit_and", "a", "comma", "b", ")", "semicolon">>,
     <<"a", "(", ")", "bit_and", "bit_and", "b", "semicolon", "1000", "semicolon">>,
     <<"951", "plus", "952", "semicolon", "a", "(", "999", ")", "semicolon">>}

FileSentences ==
    {<<"var", "a", "assign", "7", "semicolon", "var", "b", "assign", "string", "semicolon">>,
     <<"var", "a", "assign", "minus", "951", "semicolon", "function", "a", "(", ")", "{", "}">>,
     <<"var", "a", "assign", "minus", "999", "semicolon", "var", "b", "assign", "952", "semicolon">>,
     <<"function", "b", "(", "a", "comma", "b", "comma", "a", ")", "{", "}", "var", "a",
       "assign", "true", "semicolon">>,
     <<"var", "a", "assign", "false", "semicolon">>}

Other == {"a", "b", "7", "string", "(", ")", "{", "}", "comma", "semicolon", "assign",
          "minus", "bit_and", "less", "let", "else", "if"}

Near(s) ==
    {s} \cup {RemoveAt(s, i) : i \in 1 .. Len(s)}
      \cup {[s EXCEPT ![i] = t] : i \in 1 .. Len(s), t \in Other}
      \cup {InsertAt(s, i, t) : i \in 1 .. Len(s) + 1, t \in Other}

Sentences ==
    UNION {Near(s) : s \in FileSentences}
      \cup UNION {{InFunction(t) : t \in Near(s)} : s \in StatementSentences}
      \cup {InFunction(<<"a", t, "b", "semicolon">>) : t \in AllTokens}
      \cup {InFunction(<<t, "a", "semicolon">>) : t \in AllTokens}
      \cup Near(InFunction(<<>>))

Rendered(s) == FlattenSeq([i \in DOMAIN s |-> Spelled(s[i]) \o <<32>>])

(* The least int, whose negation overflows, too, and the greatest one.     *)
MCOverflowed == {-1000, 999}

MCWritable == {"in", "out", "new"}

Arguments == {"", "--help", "-o", "-x", "--only-io", "--only-lex", "--only-parse",
              "in", "out", "new"}

CommandLines == UNION {[1 .. n -> Arguments] : n \in 0 .. 3}
                  \cup {<<a, "-o", b, c>> : a \in Arguments, b \in Arguments, c \in Arguments}

MCStart ==
    Of(<<"--only-io">>, UpTo(Spacing, 4))
      \cup Of(<<"--only-lex">>, LexerFiles)
      \cup Of(<<>>, {Rendered(s) : s \in Sentences})
      \cup UNION {Of(a, {<<97>>}) : a \in CommandLines}
=============================================================================
