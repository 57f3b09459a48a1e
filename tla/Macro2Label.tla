------------------------------ MODULE Macro2Label ------------------------------
(***************************************************************************)
(* The MACRO compiler, src/src/macro2label_cpp/macro2label.cpp.  One       *)
(* action is one call of getchar and what the program does until the next. *)
(* Files are sequences of character codes.                                 *)
(***************************************************************************)
EXTENDS MacroFile

CONSTANT Input  \* the files on standard input

VARIABLES input, read,        \* the file, and how much of it was read
          pc,                 \* the loop that the program is in
          name, value,        \* what it has read of a definition or a use
          macro_definitions,  \* a map from names to values
          output, exit

vars == <<input, read, pc, name, value, macro_definitions, output, exit>>

is_id_start(c) == c \in 97 .. 122
is_id_cont(c) == is_id_start(c) \/ c \in 48 .. 57 \/ c = 95
is_space(c) == c \in {32, 9, 13, 10}

(* In a loop of the program, with the character that getchar returns.      *)
In(loop) ==
    /\ exit = "running"
    /\ pc = loop
    /\ read' = IF read = Len(input) THEN read ELSE read + 1
    /\ UNCHANGED input

getchar == IF read = Len(input) THEN -1 ELSE input[read + 1]

Keep == UNCHANGED <<name, value, macro_definitions>>
Put(s) == output' = output \o s
Goto(loop) == pc' = loop /\ UNCHANGED exit
Exit(code) == exit' = code /\ UNCHANGED pc

(* What printf("%s", s.c_str()) prints.                                    *)
c_str(s) == SubSeq(s, 1, RunLength(s, Int \ {0}))

(* Mutant: macro_definitions.insert, which keeps the first definition.     *)
BindOnce(map, key, val) ==
    [k \in DOMAIN map \cup {key} |-> IF k \in DOMAIN map THEN map[k] ELSE val]

Bind(map, key, val) ==
    [k \in DOMAIN map \cup {key} |-> IF k = key THEN val ELSE map[k]]

-----------------------------------------------------------------------------
Main ==
    LET c == getchar
    IN /\ In("main")
       /\ \/ c < 0 /\ Exit("exit(0)") /\ UNCHANGED output /\ Keep
          \/ c = 35 /\ Put(<<c>>) /\ Goto("comment") /\ Keep
          \/ c = 46 /\ Put(<<c>>) /\ Goto("label_definition") /\ Keep
          \/ c = 37 /\ Goto("macro_definition") /\ UNCHANGED output /\ Keep
          \/ /\ is_id_start(c)
             /\ name' = <<c>>
             /\ Goto("identifier")
             /\ UNCHANGED <<output, value, macro_definitions>>
          \/ /\ c >= 0 /\ c \notin {35, 46, 37} /\ ~is_id_start(c)
             /\ Put(<<c>>) /\ Goto("main") /\ Keep

(* Mutant: the end of the file is not looked for.                          *)
CopyForever(loop, terminators) ==
    LET c == getchar
    IN /\ In(loop)
       /\ Put(IF c < 0 THEN <<>> ELSE <<c>>)
       /\ Goto(IF c \in terminators THEN "main" ELSE loop)
       /\ Keep

(* comment and label_definition copy up to a terminator or the end.        *)
Copy(loop, terminators) ==
    LET c == getchar
    IN /\ In(loop)
       /\ Put(IF c < 0 THEN <<>> ELSE <<c>>)
       /\ Goto(IF c < 0 \/ c \in terminators THEN "main" ELSE loop)
       /\ Keep

Comment == Copy("comment", {10, 13})
LabelDefinition == Copy("label_definition", {58})

-----------------------------------------------------------------------------
MacroDefinition ==
    LET c == getchar
    IN /\ In("macro_definition")
       /\ \/ is_id_start(c) /\ name' = <<c>> /\ Goto("macro_name")
          \/ ~is_id_start(c) /\ Exit("exit(1)") /\ UNCHANGED name
       /\ UNCHANGED <<value, macro_definitions, output>>

(* White space, then the character that the definition goes on with.       *)
Expect(c, loop, character, next) ==
    \/ is_space(c) /\ Goto(loop)
    \/ c = character /\ Goto(next)
    \/ ~is_space(c) /\ c # character /\ Exit("exit(1)")

MacroName ==
    LET c == getchar
    IN /\ In("macro_name")
       /\ \/ is_id_cont(c) /\ name' = Append(name, c) /\ Goto("macro_name")
          \/ ~is_id_cont(c) /\ Expect(c, "macro_colon", 58, "macro_quote") /\ UNCHANGED name
       /\ UNCHANGED <<value, macro_definitions, output>>

MacroColon ==
    /\ In("macro_colon")
    /\ Expect(getchar, "macro_colon", 58, "macro_quote")
    /\ UNCHANGED output /\ Keep

MacroQuote ==
    /\ In("macro_quote")
    /\ Expect(getchar, "macro_quote", 34, "macro_value")
    /\ value' = <<>>
    /\ UNCHANGED <<name, macro_definitions, output>>

(* Mutant: the end of the file ends the value, too.                        *)
MacroValueAtEnd ==
    LET c == getchar
    IN /\ In("macro_value")
       /\ \/ /\ c < 0 \/ c = 34
             /\ macro_definitions' = Bind(macro_definitions, name, value)
             /\ Goto("main") /\ UNCHANGED value
          \/ /\ c >= 0 /\ c # 34
             /\ value' = Append(value, c)
             /\ Goto("macro_value") /\ UNCHANGED macro_definitions
       /\ UNCHANGED <<name, output>>

MacroValue ==
    LET c == getchar
    IN /\ In("macro_value")
       /\ \/ c < 0 /\ Exit("exit(1)") /\ UNCHANGED <<value, macro_definitions>>
          \/ /\ c = 34
             /\ macro_definitions' = Bind(macro_definitions, name, value)
             /\ Goto("main") /\ UNCHANGED value
          \/ /\ c >= 0 /\ c # 34
             /\ value' = Append(value, c)
             /\ Goto("macro_value") /\ UNCHANGED macro_definitions
       /\ UNCHANGED <<name, output>>

-----------------------------------------------------------------------------
replacement ==
    c_str(IF name \in DOMAIN macro_definitions THEN macro_definitions[name] ELSE name)

(* Mutant: the white space behind a name is dropped.                       *)
IdentifierDropsSpace ==
    LET c == getchar
    IN /\ In("identifier")
       /\ \/ is_id_cont(c) /\ name' = Append(name, c) /\ Goto("identifier") /\ UNCHANGED output
          \/ (c < 0 \/ is_space(c)) /\ Put(replacement) /\ Goto("main") /\ UNCHANGED name
          \/ /\ c >= 0 /\ ~is_space(c) /\ ~is_id_cont(c)
             /\ Put(replacement) /\ Exit("exit(1)") /\ UNCHANGED name
       /\ UNCHANGED <<value, macro_definitions>>

(* The white space behind a name becomes a blank.                          *)
Identifier ==
    LET c == getchar
    IN /\ In("identifier")
       /\ \/ is_id_cont(c) /\ name' = Append(name, c) /\ Goto("identifier") /\ UNCHANGED output
          \/ c < 0 /\ Put(replacement) /\ Goto("main") /\ UNCHANGED name
          \/ is_space(c) /\ Put(replacement \o <<32>>) /\ Goto("main") /\ UNCHANGED name
          \/ /\ c >= 0 /\ ~is_space(c) /\ ~is_id_cont(c)
             /\ Put(replacement) /\ Exit("exit(1)") /\ UNCHANGED name
       /\ UNCHANGED <<value, macro_definitions>>

-----------------------------------------------------------------------------
Start ==
    /\ read = 0
    /\ pc = "main"
    /\ name = <<>>
    /\ value = <<>>
    /\ macro_definitions = [n \in {} |-> <<>>]
    /\ output = <<>>
    /\ exit = "running"

Init == input \in Input /\ Start

Next ==
    \/ Main
    \/ Comment
    \/ LabelDefinition
    \/ MacroDefinition
    \/ MacroName
    \/ MacroColon
    \/ MacroQuote
    \/ MacroValue
    \/ Identifier

(* Standard input is a file or a pipe whose writer ends: a read returns.   *)
Spec == Init /\ [][Next]_vars /\ WF_vars(Next)

-----------------------------------------------------------------------------
(* A MACRO file without carriage returns is compiled to a LABEL file that  *)
(* has exactly the tokens that it stands for, however often a macro is     *)
(* declared, and although names, comments and the blanks behind them are   *)
(* replaced character by character.                                        *)
CompilesMacros ==
    exit # "running" /\ 13 \notin ToSet(input) /\ IsMacroFile(input)
        => exit = "exit(0)" /\ Visible(Tokens(output)) = Visible(Expanded(MacroTokens(input)))

(* A declaration of a macro without name, colon or either quotation mark   *)
(* is an error, wherever it stands.                                        *)
RejectsBroken == exit = "exit(0)" /\ 13 \notin ToSet(input) => ~Broken(input)
=============================================================================
