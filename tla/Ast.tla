--------------------------------- MODULE Ast ---------------------------------
(***************************************************************************)
(* The abstract syntax tree that the parser of arabilis hands to the two   *)
(* visitors of backend.cpp (src/src/arabilis_cpp/ast.h).  A node is a      *)
(* record whose field kind names its class and whose other fields are the  *)
(* members of the class; source positions only reach error messages and    *)
(* are left out.                                                           *)
(***************************************************************************)
EXTENDS Integers, Sequences

CONSTANTS Name,     \* identifiers
          Literal,  \* string literals
          Expr,     \* the expressions that occur in the programs
          Stmt,     \* the statements that occur in the programs
          Program   \* the programs

BinaryToken == {"plus", "minus", "multiply", "divide", "modulo",
                "log_and", "log_or", "bit_and", "bit_or", "bit_xor",
                "equal", "notequal", "less", "lessequal",
                "greater", "greaterequal"}

UnaryToken == {"plus", "minus", "log_not", "bit_not"}

Expression(E) ==
    [kind: {"AddressOf", "Variable"}, name: Name]
  \cup [kind: {"BinOp"}, token: BinaryToken, lhs: E, rhs: E]
  \cup [kind: {"Call"}, name: Name, arguments: Seq(E)]
  \cup [kind: {"Numeral"}, number: Int]
  \cup [kind: {"String"}, literal: Literal]
  \cup [kind: {"UnOp"}, token: UnaryToken, rhs: E]

Statement(E, S) ==
    [kind: {"Break", "Continue"}]
  \cup [kind: {"ExpressionStatement", "Return"}, expression: E]
  \cup [kind: {"Let", "Var"}, name: Name, expression: E]
  \cup [kind: {"For"}, name: Name, initial: E, condition: E, update: E,
        statements: Seq(S)]
  \cup [kind: {"If"}, condition: E, then_statements: Seq(S),
        else_statements: Seq(S)]
  \cup [kind: {"While"}, condition: E, statements: Seq(S)]

(* parse_globalvar only accepts a literal as the value of a global.        *)
Constant == {e \in Expr : e.kind \in {"Numeral", "String"}}

GlobalVar == [kind: {"GlobalVar"}, name: Name, value: Constant]

Function == [kind: {"Function"}, name: Name, arguments: Seq(Name),
             statements: Seq(Stmt)]

(* Every node that can be reached from a program is one of the constants.  *)
ASSUME AstAssumption ==
    /\ "main" \in Name
    /\ Expr \subseteq Expression(Expr)
    /\ Stmt \subseteq Statement(Expr, Stmt)
    /\ Program \subseteq [globalvars: Seq(GlobalVar), functions: Seq(Function)]

(* The names for which a visitor reaches check_variable or address_of when *)
(* it visits an expression: AddressOf, Variable and Call nodes.            *)
names_in[e \in Expr] ==
    CASE e.kind \in {"AddressOf", "Variable"} -> {e.name}
      [] e.kind = "BinOp" -> names_in[e.lhs] \cup names_in[e.rhs]
      [] e.kind = "Call" -> {e.name} \cup
             UNION {names_in[e.arguments[i]] : i \in DOMAIN e.arguments}
      [] e.kind = "UnOp" -> names_in[e.rhs]
      [] OTHER -> {}
=============================================================================
