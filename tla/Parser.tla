-------------------------------- MODULE Parser --------------------------------
(***************************************************************************)
(* The parser of arabilis (class Parser of                                 *)
(* src/src/arabilis_cpp/frontend.cpp).  The functions of the parser call   *)
(* each other; what is left to do of all that were called is the sequence  *)
(* todo of calls, and what they have returned or stored is the stack       *)
(* values, with the latest value first.  A function whose body has no      *)
(* condition is the sequence of its calls; the others are actions, which   *)
(* decide by the token in m_token, here token, what is called next.  A     *)
(* tree is a record like those of Ast.  When a call of expect finds its    *)
(* token the lexer reads the next one.                                     *)
(***************************************************************************)
EXTENDS Lexer, SequencesExt

CONSTANTS MaxInt,      \* the greatest int
          Overflowed   \* what arithmetic that overflows an int may come out as

VARIABLES todo, values, program

parsevars == <<todo, values, program>>

(* A call of a function of the parser.                                     *)
Parse(f) == [call |-> f, of |-> "", fields |-> <<>>]

(* expect(t): if the token is t the next one is read, otherwise exit(1).   *)
Expect(t) == [call |-> "expect", of |-> t, fields |-> <<>>]

(* A node of a class is made out of the latest values, one for each field. *)
Node(class, fields) == [call |-> "node", of |-> class, fields |-> fields]

PushBack == Parse("push_back")

parse_identifier == Parse("identifier")
parse_expression == Parse("expression")
parse_term == Parse("term")
parse_factor == Parse("factor")

Number(n) == [kind |-> "Numeral", number |-> n]

(* What an operation of ints may come out as, n without a limit.           *)
AsInt(n) == IF n \in -MaxInt - 1 .. MaxInt THEN {n} ELSE Overflowed

(* { statement ... }, as it occurs in five functions                       *)
Block == <<Expect("{"), Parse("list"), Parse("statements")>>

-----------------------------------------------------------------------------
(* The functions, or the parts of them, without conditions of their own.   *)
parse_function ==
    <<Expect("function"), parse_identifier, Expect("("), Parse("list"), Parse("names"),
      Expect(")")>> \o Block \o
    <<Node("Function", <<"name", "arguments", "statements">>)>>

parse_globalvar ==
    <<Expect("var"), parse_identifier, Expect("assign"), Parse("constant"),
      Expect("semicolon"), Node("GlobalVar", <<"name", "value">>)>>

parse_statement_expression ==
    <<parse_expression, Expect("semicolon"), Node("ExpressionStatement", <<"expression">>)>>

parse_statement_if ==
    <<Expect("if"), Expect("("), parse_expression, Expect(")")>> \o Block \o
    <<Parse("else"), Node("If", <<"condition", "then_statements", "else_statements">>)>>

parse_statement_while ==
    <<Expect("while"), Expect("("), parse_expression, Expect(")")>> \o Block \o
    <<Node("While", <<"condition", "statements">>)>>

parse_statement_for ==
    <<Expect("for"), Expect("("), Expect("var"), parse_identifier, Expect("assign"),
      parse_expression, Expect("semicolon"), parse_expression, Expect("semicolon"),
      Expect("let"), parse_identifier, Parse("same name"), Expect("assign"),
      parse_expression, Expect(")")>> \o Block \o
    <<Node("For", <<"name", "initial", "condition", "update", "statements">>)>>

parse_statement_var ==
    <<Expect("var"), parse_identifier, Parse("initial"), Expect("semicolon"),
      Node("Var", <<"name", "expression">>)>>

parse_statement_let ==
    <<Expect("let"), parse_identifier, Expect("assign"), parse_expression,
      Expect("semicolon"), Node("Let", <<"name", "expression">>)>>

parse_statement_return ==
    <<Expect("return"), Parse("result"), Expect("semicolon"),
      Node("Return", <<"expression">>)>>

parse_statement_continue ==
    <<Expect("continue"), Expect("semicolon"), Node("Continue", <<>>)>>

parse_statement_break ==
    <<Expect("break"), Expect("semicolon"), Node("Break", <<>>)>>

parse_statement ==
    CASE token = "if" -> parse_statement_if
      [] token = "while" -> parse_statement_while
      [] token = "for" -> parse_statement_for
      [] token = "var" -> parse_statement_var
      [] token = "let" -> parse_statement_let
      [] token = "return" -> parse_statement_return
      [] token = "continue" -> parse_statement_continue
      [] token = "break" -> parse_statement_break
      [] OTHER -> parse_statement_expression

-----------------------------------------------------------------------------
(* The lexer has returned, and the next call is one of f.                  *)
Calling(f) ==
    /\ exit = "running" /\ pc = "returned"
    /\ todo # <<>> /\ Head(todo).call = f
    /\ UNCHANGED <<input, read, m_position, m_data, token>>

Parsing(f) == Calling(f) /\ UNCHANGED <<pc, exit, program>>

(* The call becomes other calls; a value is pushed.                        *)
Do(calls) == todo' = calls \o Tail(todo)
Push(v) == values' = <<v>> \o values

ExpectToken ==
    /\ Calling("expect")
    /\ \/ token = Head(todo).of /\ pc' = "skip" /\ Do(<<>>) /\ UNCHANGED exit
       \/ token # Head(todo).of /\ exit' = "exit(1)" /\ UNCHANGED <<pc, todo>>
    /\ UNCHANGED <<values, program>>

MakeNode ==
    /\ Parsing("node")
    /\ Do(<<>>)
    /\ LET fields == Head(todo).fields
           n == Len(fields)
           value(f) == values[n + 1 - CHOOSE i \in 1 .. n : fields[i] = f]
           node == [f \in ToSet(fields) \cup {"kind"} |->
                       IF f = "kind" THEN Head(todo).of ELSE value(f)]
       IN values' = <<node>> \o SubSeq(values, n + 1, Len(values))

NewList == Parsing("list") /\ Do(<<>>) /\ Push(<<>>)

AppendToList ==
    /\ Parsing("push_back")
    /\ Do(<<>>)
    /\ values' = <<Append(values[2], values[1])>> \o SubSeq(values, 3, Len(values))

-----------------------------------------------------------------------------
(* Parser::read: as long as there is a function or a variable.             *)
ReadProgram ==
    /\ Parsing("read")
    /\ \/ token = "function" /\ Do(parse_function \o <<Parse("program.push_back"), Parse("read")>>)
       \/ token = "var" /\ Do(parse_globalvar \o <<Parse("program.push_back"), Parse("read")>>)
       \/ token \notin {"function", "var"} /\ Do(<<Expect("eof")>>)
    /\ UNCHANGED values

AddToProgram ==
    /\ Calling("program.push_back")
    /\ program' = IF Head(values).kind = "Function"
                  THEN [program EXCEPT !.functions = Append(@, Head(values))]
                  ELSE [program EXCEPT !.globalvars = Append(@, Head(values))]
    /\ values' = Tail(values)
    /\ Do(<<>>)
    /\ UNCHANGED <<pc, exit>>

(* Names or expressions with commas between them.                          *)
ParseNames ==
    /\ Parsing("names")
    /\ \/ token = "identifier" /\ Do(<<parse_identifier, PushBack, Parse("more names")>>)
       \/ token # "identifier" /\ Do(<<>>)
    /\ UNCHANGED values

MoreNames ==
    /\ Parsing("more names")
    /\ \/ /\ token = "comma"
          /\ Do(<<Expect("comma"), parse_identifier, PushBack, Parse("more names")>>)
       \/ token # "comma" /\ Do(<<>>)
    /\ UNCHANGED values

ParseConstant ==
    /\ Parsing("constant")
    /\ \/ /\ token = "literal"
          /\ Do(<<Parse("literal"), Node("String", <<"literal">>)>>) /\ UNCHANGED values
       \/ token = "true" /\ Do(<<Expect("true")>>) /\ Push(Number(1))
       \/ token = "false" /\ Do(<<Expect("false")>>) /\ Push(Number(0))
       \/ /\ token = "minus"
          /\ Do(<<Expect("minus"), Parse("numeral"), Parse("negate")>>) /\ UNCHANGED values
       \/ /\ token \notin {"literal", "true", "false", "minus"}
          /\ Do(<<Parse("numeral")>>) /\ UNCHANGED values

Negate ==
    /\ Parsing("negate")
    /\ Do(<<>>)
    /\ \E n \in AsInt(-Head(values).number) : values' = <<Number(n)>> \o Tail(values)

-----------------------------------------------------------------------------
ParseStatements ==
    /\ Parsing("statements")
    /\ \/ token = "}" /\ Do(<<Expect("}")>>)
       \/ token # "}" /\ Do(parse_statement \o <<PushBack, Parse("statements")>>)
    /\ UNCHANGED values

ParseElse ==
    /\ Parsing("else")
    /\ \/ token = "else" /\ Do(<<Expect("else")>> \o Block) /\ UNCHANGED values
       \/ token # "else" /\ Do(<<>>) /\ Push(<<>>)

(* The name behind let, which was read last, is that of the variable.      *)
CheckName ==
    /\ Calling("same name")
    /\ \/ /\ values[1] = values[4]
          /\ Do(<<>>) /\ values' = Tail(values) /\ UNCHANGED exit
       \/ values[1] # values[4] /\ exit' = "exit(1)" /\ UNCHANGED <<todo, values>>
    /\ UNCHANGED <<pc, program>>

ParseInitial ==
    /\ Parsing("initial")
    /\ \/ token = "assign" /\ Do(<<Expect("assign"), parse_expression>>) /\ UNCHANGED values
       \/ token # "assign" /\ Do(<<>>) /\ Push(Number(0))

ParseResult ==
    /\ Parsing("result")
    /\ \/ token # "semicolon" /\ Do(<<parse_expression>>) /\ UNCHANGED values
       \/ token = "semicolon" /\ Do(<<>>) /\ Push(Number(0))

-----------------------------------------------------------------------------
BinaryToken == {"plus", "minus", "multiply", "divide", "modulo", "log_and", "log_or",
                "bit_and", "bit_or", "bit_xor", "equal", "notequal", "less",
                "lessequal", "greater", "greaterequal"}

UnaryToken == {"plus", "minus", "log_not", "bit_not"}

ParseExpression ==
    /\ Parsing("expression")
    /\ Do(<<parse_term, Parse("operator")>>)
    /\ UNCHANGED values

(* At most one operator, whose fields are pushed as they come.             *)
ParseOperator ==
    /\ Parsing("operator")
    /\ \/ /\ token \in BinaryToken
          /\ Do(<<Expect(token), parse_term, Node("BinOp", <<"lhs", "token", "rhs">>)>>)
          /\ Push(token)
       \/ token \notin BinaryToken /\ Do(<<>>) /\ UNCHANGED values

ParseTerm ==
    /\ Parsing("term")
    /\ \/ /\ token \in UnaryToken
          /\ Do(<<Expect(token), parse_factor, Node("UnOp", <<"token", "rhs">>)>>)
          /\ Push(token)
       \/ token \notin UnaryToken /\ Do(<<parse_factor>>) /\ UNCHANGED values

ParseFactor ==
    /\ Parsing("factor")
    /\ \/ /\ token = "identifier"
          /\ Do(<<parse_identifier, Parse("call")>>) /\ UNCHANGED values
       \/ /\ token = "bit_and"
          /\ Do(<<Expect("bit_and"), parse_identifier, Node("AddressOf", <<"name">>)>>)
          /\ UNCHANGED values
       \/ token = "true" /\ Do(<<Expect("true")>>) /\ Push(Number(1))
       \/ token = "false" /\ Do(<<Expect("false")>>) /\ Push(Number(0))
       \/ /\ token = "literal"
          /\ Do(<<Parse("literal"), Node("String", <<"literal">>)>>) /\ UNCHANGED values
       \/ /\ token = "("
          /\ Do(<<Expect("("), parse_expression, Expect(")")>>) /\ UNCHANGED values
       \/ /\ token \notin {"identifier", "bit_and", "true", "false", "literal", "("}
          /\ Do(<<Parse("numeral")>>) /\ UNCHANGED values

(* Behind a name: a call of a function, or it is a variable.               *)
ParseCall ==
    /\ Parsing("call")
    /\ \/ token # "(" /\ Do(<<Node("Variable", <<"name">>)>>)
       \/ /\ token = "("
          /\ Do(<<Expect("("), Parse("list"), Parse("arguments"), Expect(")"),
                  Node("Call", <<"name", "arguments">>)>>)
    /\ UNCHANGED values

ParseArguments ==
    /\ Parsing("arguments")
    /\ \/ token # ")" /\ Do(<<parse_expression, PushBack, Parse("more arguments")>>)
       \/ token = ")" /\ Do(<<>>)
    /\ UNCHANGED values

(* Mutant: an if instead of the loop, for at most two arguments.           *)
MoreArgumentsOnce ==
    /\ Parsing("more arguments")
    /\ \/ token = "comma" /\ Do(<<Expect("comma"), parse_expression, PushBack>>)
       \/ token # "comma" /\ Do(<<>>)
    /\ UNCHANGED values

MoreArguments ==
    /\ Parsing("more arguments")
    /\ \/ /\ token = "comma"
          /\ Do(<<Expect("comma"), parse_expression, PushBack, Parse("more arguments")>>)
       \/ token # "comma" /\ Do(<<>>)
    /\ UNCHANGED values

-----------------------------------------------------------------------------
ParseIdentifier ==
    Parsing("identifier") /\ Push(m_data) /\ Do(<<Expect("identifier")>>)

ParseLiteral ==
    Parsing("literal") /\ Push(m_data) /\ Do(<<Expect("literal")>>)

(* The value of the first n characters of m_data, or a number beyond       *)
(* MaxInt once a sum has overflowed.  numeral * 10 + c - '0' is computed   *)
(* from the left, so that the sum with the character, which is 48 or more  *)
(* above the value, must be an int as well.  The characters are what is    *)
(* left of an earlier token if this is not a numeral; then expect exits,   *)
(* whatever has been computed.                                             *)
valueof[n \in Nat] ==
    IF n = 0 THEN 0
    ELSE LET sum == valueof[n - 1] * 10 + m_data[n]
         IN IF valueof[n - 1] > MaxInt THEN valueof[n - 1]
            ELSE IF sum > MaxInt THEN sum ELSE sum - 48

ParseNumeral ==
    /\ Parsing("numeral")
    /\ LET number == IF token = "numeral" THEN valueof[Len(m_data)] ELSE 0
       IN \E n \in AsInt(number) : Push(Number(n))
    /\ Do(<<Expect("numeral")>>)

-----------------------------------------------------------------------------
(* Parser::read first reads a token.                                       *)
StartParser ==
    /\ todo = <<Parse("read")>>
    /\ values = <<>>
    /\ program = [globalvars |-> <<>>, functions |-> <<>>]

ParseToken ==
    \/ ExpectToken \/ MakeNode \/ NewList \/ AppendToList
    \/ ReadProgram \/ AddToProgram \/ ParseNames \/ MoreNames
    \/ ParseConstant \/ Negate
    \/ ParseStatements \/ ParseElse \/ CheckName \/ ParseInitial \/ ParseResult
    \/ ParseExpression \/ ParseOperator \/ ParseTerm \/ ParseFactor
    \/ ParseCall \/ ParseArguments \/ MoreArguments
    \/ ParseIdentifier \/ ParseLiteral \/ ParseNumeral
=============================================================================
