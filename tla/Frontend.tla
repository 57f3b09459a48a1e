------------------------------- MODULE Frontend -------------------------------
(***************************************************************************)
(* The command arabilis up to the tree that it checks and compiles (main   *)
(* of src/src/arabilis_cpp/arabilis.cpp).  It looks at its arguments, then *)
(* it opens its files; with --only-io it lists the characters of the input *)
(* and with --only-lex the tokens, with their positions, otherwise it      *)
(* parses the input.  What then becomes of the program is the subject of   *)
(* the modules VariableUsage and Arabilis.  The files are "in", with the   *)
(* text that is also on standard input, and "out", which has a letter.     *)
(***************************************************************************)
EXTENDS Parser

CONSTANTS Start,    \* the runs: the arguments and the text
          Writable  \* the names of files that can be opened for writing

ASSUME FrontendAssumption ==
    /\ MaxInt \in Nat /\ Overflowed \subseteq -MaxInt - 1 .. MaxInt /\ Overflowed # {}
    /\ \A s \in Start : s.text \in Seq(0 .. 255)

VARIABLES argv, next,                   \* the arguments, and which is next
          infilename, outfilename,      \* <<name>>, or <<>> if not set
          mode,                         \* what is to be done with the input
          stdin, files,                 \* standard input; the files that exist
          written                       \* the lines of the output

options == <<infilename, outfilename, mode>>
mainvars == <<argv, next, options, stdin, files>>
vars == <<mainvars, input, lexvars, exit, parsevars, written>>

old_files == [in |-> stdin, out |-> <<97>>]

G == INSTANCE Grammar

-----------------------------------------------------------------------------
mode_of ==
    ("--only-io" :> "only_io") @@ ("--only-lex" :> "only_lex") @@ ("--only-parse" :> "only_parse")

(* Other arguments that begin with a hyphen; there is no -- and no -.      *)
Unknown == {"-", "--", "-x"}

Starting(stage) ==
    /\ exit = "running" /\ pc = stage
    /\ UNCHANGED <<argv, stdin, read, m_position, m_data, token, parsevars, written>>

Stop == exit' = "exit(1)" /\ UNCHANGED <<next, options>>

Set(in, out, only, n) ==
    /\ infilename' = in /\ outfilename' = out /\ mode' = only
    /\ next' = next + n
    /\ UNCHANGED exit

(* One round of the loop over the arguments.                               *)
Argument ==
    LET arg == argv[next]
        out == arg \in {"-o", "--out-file"}
        positional == arg \notin Unknown \cup DOMAIN mode_of \cup
                                 {"", "-h", "--help", "-o", "--out-file"}
    IN /\ Starting("arguments")
       /\ next <= Len(argv)
       /\ \/ arg = "" /\ Set(infilename, outfilename, mode, 1)
          \/ arg \in {"-h", "--help"} /\ exit' = "exit(0)" /\ UNCHANGED <<next, options>>
          \/ out /\ (outfilename # <<>> \/ next = Len(argv)) /\ Stop
          \/ /\ out /\ outfilename = <<>> /\ next < Len(argv)
             /\ Set(infilename, <<argv[next + 1]>>, mode, 2)
          \/ arg \in DOMAIN mode_of /\ mode # "default_mode" /\ Stop
          \/ /\ arg \in DOMAIN mode_of /\ mode = "default_mode"
             /\ Set(infilename, outfilename, mode_of[arg], 1)
          \/ arg \in Unknown /\ Stop
          \/ positional /\ infilename # <<>> /\ Stop
          \/ positional /\ infilename = <<>> /\ Set(<<arg>>, outfilename, mode, 1)
       /\ UNCHANGED <<input, pc, files>>

found == ToSet(infilename) \subseteq DOMAIN files
emptied == [f \in DOMAIN files \cup ToSet(outfilename) |->
               IF f \in ToSet(outfilename) THEN <<>> ELSE files[f]]

(* Mutant: the output is opened before the input.                          *)
OpenInputLast ==
    /\ Starting("arguments")
    /\ next > Len(argv)
    /\ files' = IF ToSet(outfilename) \subseteq Writable THEN emptied ELSE files
    /\ \/ found /\ pc' = "open_output" /\ UNCHANGED exit
       \/ ~found /\ exit' = "exit(1)" /\ UNCHANGED pc
    /\ UNCHANGED <<next, options, input>>

OpenInput ==
    /\ Starting("arguments")
    /\ next > Len(argv)
    /\ \/ found /\ pc' = "open_output" /\ UNCHANGED exit
       \/ ~found /\ exit' = "exit(1)" /\ UNCHANGED pc
    /\ UNCHANGED <<next, options, files, input>>

(* Opening the output empties the file.  Nothing has been read until then. *)
OpenOutput ==
    /\ Starting("open_output")
    /\ \/ /\ ToSet(outfilename) \subseteq Writable
          /\ files' = emptied /\ pc' = "skip" /\ UNCHANGED exit
       \/ /\ ~(ToSet(outfilename) \subseteq Writable)
          /\ exit' = "exit(1)" /\ UNCHANGED <<files, pc>>
    /\ input' = IF infilename = <<>> THEN stdin ELSE files'[infilename[1]]
    /\ UNCHANGED <<next, options>>

-----------------------------------------------------------------------------
(* What is printed instead of a character.                                 *)
visual_char(c) == IF c \in 32 .. 126 THEN c ELSE 63
visual(s) == [i \in DOMAIN s |-> visual_char(s[i])]

Line(position, name, data) ==
    [position |-> position, name |-> name, data |-> data]

(* One round of the loop; here the reader is only read from the loop.      *)
mode_only_io ==
    /\ mode = "only_io" /\ exit = "running" /\ pc = "skip"
    /\ \/ /\ m_char # -1
          /\ written' = Append(written, Line(position_after[read - 1], "character",
                                             <<visual_char(m_char), m_char>>))
          /\ read' = read + 1
          /\ UNCHANGED exit
       \/ m_char = -1 /\ exit' = "exit(0)" /\ UNCHANGED <<written, read>>
    /\ UNCHANGED <<mainvars, input, pc, m_position, m_data, token, parsevars>>

(* Mutant: the end of the file does not end the loop.                      *)
mode_only_lex_continue ==
    /\ mode = "only_lex" /\ exit = "running" /\ pc = "returned"
    /\ written' = IF token = "eof" THEN written
                  ELSE Append(written, Line(m_position, token, visual(m_data)))
    /\ pc' = "skip"
    /\ UNCHANGED <<mainvars, input, read, m_position, m_data, token, exit, parsevars>>

(* Lexer::read has returned a token: it is printed, and the next is read.  *)
mode_only_lex ==
    /\ mode = "only_lex" /\ exit = "running" /\ pc = "returned"
    /\ \/ /\ token # "eof"
          /\ written' = Append(written,
                Line(m_position, token, IF token \in {"identifier", "numeral", "literal"}
                                        THEN visual(m_data) ELSE <<>>))
          /\ pc' = "skip"
          /\ UNCHANGED exit
       \/ token = "eof" /\ exit' = "exit(0)" /\ UNCHANGED <<written, pc>>
    /\ UNCHANGED <<mainvars, input, read, m_position, m_data, token, parsevars>>

lexer_read ==
    /\ mode # "only_io"
    /\ ReadToken
    /\ UNCHANGED <<mainvars, parsevars, written>>

parser_read ==
    /\ mode \in {"only_parse", "default_mode"}
    /\ \/ ParseToken
       \/ /\ exit = "running" /\ pc = "returned" /\ todo = <<>>
          /\ exit' = "parsed"
          /\ UNCHANGED <<input, lexvars, parsevars>>
    /\ UNCHANGED <<mainvars, written>>

Init ==
    /\ \E s \in Start : argv = s.argv /\ stdin = s.text
    /\ input = stdin /\ files = old_files
    /\ next = 1
    /\ infilename = <<>> /\ outfilename = <<>> /\ mode = "default_mode"
    /\ pc = "arguments"
    /\ StartLexer
    /\ StartParser
    /\ written = <<>>

Next ==
    \/ Argument \/ OpenInput \/ OpenOutput
    \/ mode_only_io \/ mode_only_lex \/ lexer_read \/ parser_read

(* The program is a single thread, which goes on as long as it can.        *)
Spec == Init /\ [][Next]_vars /\ WF_vars(Next)

-----------------------------------------------------------------------------
(* Reading has begun.                                                      *)
Read == pc \notin {"arguments", "open_output"}

(* A command that fails before it reads leaves all files as they were, and *)
(* no command changes another file than its output, which it empties.  It  *)
(* reads the file that it was asked to read or standard input, but nothing *)
(* at all if the same file is its output: by then it is empty.  main.      *)
OpensFiles ==
    /\ exit # "running" /\ ~Read => files = old_files
    /\ \A f \in DOMAIN files :
          \/ f \in DOMAIN old_files /\ files[f] = old_files[f]
          \/ outfilename = <<f>> /\ files[f] = <<>>
    /\ Read => input = CASE infilename = <<>> -> stdin
                         [] infilename # <<>> /\ infilename = outfilename -> <<>>
                         [] OTHER -> old_files[infilename[1]]

(* In the grammar a carriage return is only part of a comment before a     *)
(* line feed; the lexer takes it as any other character of the comment.    *)
LineEnds == \A i \in DOMAIN input : input[i] = 13 => i < Len(input) /\ input[i + 1] = 10

tokens == G!Tokens(input)
IsText == \A i \in DOMAIN tokens : tokens[i].kind # "none"

(* --only-lex prints the tokens that the grammar splits the file into, in  *)
(* their order and with what their characters stand for, and ends with     *)
(* exit status 1 exactly if there is a character or a string that is no    *)
(* token; then it has printed all tokens before it.  Lexer::read.          *)
TokensCorrect ==
    mode = "only_lex" /\ Read /\ exit # "running" /\ LineEnds
        => /\ exit = IF IsText THEN "exit(0)" ELSE "exit(1)"
           /\ [i \in DOMAIN written |-> <<written[i].name, written[i].data>>] =
                 LET n == IF IsText THEN Len(tokens) ELSE Len(tokens) - 1
                 IN [i \in 1 .. n |-> <<tokens[i].kind, visual(tokens[i].data)>>]

(* The position that is printed with a token is the place in the file of   *)
(* the first of the tokens that adjoin it on the left: behind a blank or a *)
(* comment, whatever it consists of, it is that of the token itself.  The  *)
(* lexer takes it from the reader, which is a character ahead of it.       *)
TokenPositions ==
    mode = "only_lex" /\ Read /\ exit # "running" /\ LineEnds
        => \A i \in DOMAIN written :
              LET first == CHOOSE k \in 1 .. i :
                     /\ \A j \in k + 1 .. i : tokens[j].begin = tokens[j - 1].next
                     /\ k > 1 => tokens[k].begin # tokens[k - 1].next
              IN written[i].position = G!PlaceOf(input, tokens[first].begin)

(* --only-io lists every character with its place in the file.             *)
CharacterPositions ==
    mode = "only_io" /\ Read
        => /\ \A i \in DOMAIN written :
                 /\ written[i].position = G!PlaceOf(input, i)
                 /\ written[i].data[2] = input[i]
           /\ exit = "exit(0)" => Len(written) = Len(input)

(* What the numerals of the file may stand for: their values, as long as   *)
(* there is room for a character ('0' is 48) between a value and MaxInt.   *)
(* The arithmetic of frontend.cpp:702 is undefined above that, and so is   *)
(* then the number, here one of Overflowed or the negative of one.         *)
NumeralValues ==
    LET digits == [b \in {t.begin : t \in {u \in ToSet(tokens) : u.kind = "numeral"}} |->
                      (CHOOSE t \in ToSet(tokens) : t.begin = b).data]
        exact == {b \in DOMAIN digits : G!ValueOf(digits[b]) <= MaxInt - 48}
        undefined == UNION {{n, -n} : n \in Overflowed}
    IN {[b \in DOMAIN digits |-> IF b \in exact THEN G!ValueOf(digits[b]) ELSE other[b]] :
           other \in [DOMAIN digits \ exact -> undefined]}

(* The parser accepts a file exactly if the grammar derives its tokens     *)
(* (and the names in a for loop agree), and the program that it hands to   *)
(* the compiler is the tree of the derivation, which is unique.  Numerals  *)
(* up to 48 below the greatest int have their values in it; one above can  *)
(* become another number, but leaves the rest of the tree as it is.        *)
ParsesGrammar ==
    mode \in {"only_parse", "default_mode"} /\ Read /\ exit # "running" /\ LineEnds
        => \E value \in NumeralValues :
              \/ exit = "parsed" /\ G!Programs(tokens, value) = {program}
              \/ exit = "exit(1)" /\ G!Programs(tokens, value) = {}

(* Whatever the file, the command ends.                                    *)
Ends == <>(exit # "running")
=============================================================================
