---------------------------- MODULE VariableUsage ----------------------------
(***************************************************************************)
(* class VariableUsage of src/src/arabilis_cpp/backend.cpp: the visitor    *)
(* that decides whether a parsed program is passed on to the compiler or   *)
(* ends the process with exit(1).                                          *)
(*                                                                         *)
(* The recursion of the visitor is a list of nodes still to be visited,    *)
(* each with the VariableUsage object that visits it.  with_block_scope    *)
(* copies an object; objects are never merged back.  One action is one     *)
(* call of operator(): the names its expressions use are looked up in the  *)
(* action, its nested statements become the next nodes.                    *)
(***************************************************************************)
EXTENDS Ast

VARIABLES program,   \* the program that is checked
          todo,      \* sequence of [node, visitor], in visiting order
          visitors,  \* the VariableUsage objects created so far
          verdict    \* "checking", "accepted" or "exit(1)"

vars == <<program, todo, visitors, verdict>>

Task == [node: GlobalVar \cup Function \cup Stmt, visitor: Nat \ {0}]

Visitor == [globals: SUBSET Name, locals: SUBSET Name, inside_loop: BOOLEAN]

node == Head(todo).node

this == visitors[Head(todo).visitor]

inner == Len(visitors) + 1

visit(nodes, visitor) ==
    [i \in 1 .. Len(nodes) |-> [node |-> nodes[i], visitor |-> visitor]]

check_variables(names, visitor) == names \subseteq visitor.globals \cup visitor.locals

(* Mutant: a local name only has to differ from the other locals.          *)
is_unique_local(name, visitor) == name \notin visitor.locals

is_unique_global(name, visitor) == name \notin visitor.globals

is_unique(name, visitor) == name \notin visitor.globals \cup visitor.locals

add_local(name, visitor) == [visitor EXCEPT !.locals = @ \cup {name}]

with_block_scope(inside_loop) == [this EXCEPT !.inside_loop = inside_loop]

-----------------------------------------------------------------------------
(* What a handler does: fail at its first violated check, or leave the     *)
(* objects visitors2 behind and continue with nodes.                       *)

Visiting(kinds) ==
    /\ verdict = "checking"
    /\ todo # <<>>
    /\ node.kind \in kinds

Continue(visitors2, nodes) ==
    /\ visitors' = visitors2
    /\ todo' = nodes \o Tail(todo)
    /\ UNCHANGED <<program, verdict>>

Exit1 ==
    /\ verdict' = "exit(1)"
    /\ UNCHANGED <<program, todo, visitors>>

Handle(ok, visitors2, nodes) ==
    \/ ok /\ Continue(visitors2, nodes)
    \/ ~ok /\ Exit1

Update(visitor) == [visitors EXCEPT ![Head(todo).visitor] = visitor]

-----------------------------------------------------------------------------
(* The handlers, one overload of operator() each.                          *)

VisitGlobalVar ==
    /\ Visiting({"GlobalVar"})
    /\ Handle(is_unique_global(node.name, this),
              Update([this EXCEPT !.globals = @ \cup {node.name}]),
              <<>>)

VisitFunction ==
    /\ Visiting({"Function"})
    /\ LET arguments == {node.arguments[i] : i \in DOMAIN node.arguments}
           globals == this.globals \cup {node.name}
       IN Handle(/\ is_unique_global(node.name, this)
                 /\ arguments \cap globals = {}
                 /\ \A i, j \in DOMAIN node.arguments :
                       node.arguments[i] = node.arguments[j] => i = j,
                 Update([this EXCEPT !.globals = globals, !.locals = arguments]),
                 visit(node.statements, Head(todo).visitor))

VisitBreakContinue ==
    /\ Visiting({"Break", "Continue"})
    /\ Handle(this.inside_loop, visitors, <<>>)

(* Mutant: visits the statement itself instead of its expression.          *)
VisitExpressionReturnAgain ==
    /\ Visiting({"ExpressionStatement", "Return"})
    /\ Handle(check_variables(names_in[node.expression], this), visitors,
              <<Head(todo)>>)

VisitExpressionReturn ==
    /\ Visiting({"ExpressionStatement", "Return"})
    /\ Handle(check_variables(names_in[node.expression], this), visitors, <<>>)

VisitLet ==
    /\ Visiting({"Let"})
    /\ Handle(check_variables({node.name} \cup names_in[node.expression], this),
              visitors, <<>>)

VisitVar ==
    /\ Visiting({"Var"})
    /\ Handle(/\ check_variables(names_in[node.expression], this)
              /\ is_unique(node.name, this),
              Update(add_local(node.name, this)), <<>>)

VisitIf ==
    /\ Visiting({"If"})
    /\ LET block == with_block_scope(this.inside_loop)
       IN Handle(check_variables(names_in[node.condition], this),
                 visitors \o <<block, block>>,
                 visit(node.then_statements, inner)
                   \o visit(node.else_statements, inner + 1))

(* Mutant: the copy for the body is used, but never made.                  *)
VisitWhileNoScope ==
    /\ Visiting({"While"})
    /\ Handle(check_variables(names_in[node.condition], this),
              visitors,
              visit(node.statements, inner))

VisitWhile ==
    /\ Visiting({"While"})
    /\ Handle(check_variables(names_in[node.condition], this),
              Append(visitors, with_block_scope(TRUE)),
              visit(node.statements, inner))

(* Mutant: the loop variable is in scope in its own initial value.         *)
VisitForInitialInside ==
    /\ Visiting({"For"})
    /\ LET block == add_local(node.name, with_block_scope(TRUE))
       IN Handle(/\ is_unique(node.name, this)
                 /\ check_variables(names_in[node.initial] \cup names_in[node.condition]
                                      \cup names_in[node.update], block),
                 Append(visitors, block),
                 visit(node.statements, inner))

(* The initial value is visited by the enclosing object: it cannot use the *)
(* loop variable.                                                          *)
VisitFor ==
    /\ Visiting({"For"})
    /\ LET block == add_local(node.name, with_block_scope(TRUE))
       IN Handle(/\ check_variables(names_in[node.initial], this)
                 /\ is_unique(node.name, this)
                 /\ check_variables(names_in[node.condition], block)
                 /\ check_variables(names_in[node.update], block),
                 Append(visitors, block),
                 visit(node.statements, inner))

(* The end of the handler of Program: is there a function "main"?          *)
VisitProgramEnd ==
    /\ verdict = "checking"
    /\ todo = <<>>
    /\ verdict' = IF \E i \in DOMAIN program.functions :
                        program.functions[i].name = "main"
                  THEN "accepted" ELSE "exit(1)"
    /\ UNCHANGED <<program, todo, visitors>>

-----------------------------------------------------------------------------
Init ==
    /\ program \in Program
    /\ todo = visit(program.globalvars, 1) \o visit(program.functions, 1)
    /\ visitors = <<[globals |-> {}, locals |-> {}, inside_loop |-> FALSE]>>
    /\ verdict = "checking"

Next ==
    \/ VisitGlobalVar
    \/ VisitFunction
    \/ VisitBreakContinue
    \/ VisitExpressionReturn
    \/ VisitLet
    \/ VisitVar
    \/ VisitIf
    \/ VisitWhile
    \/ VisitFor
    \/ VisitProgramEnd

Spec == Init /\ [][Next]_vars

-----------------------------------------------------------------------------
(* The objects hold names, and every node still to be visited has an       *)
(* object that visits it.                                                  *)
TypeOK ==
    /\ visitors \in Seq(Visitor)
    /\ todo \in Seq(Task)
    /\ \A i \in DOMAIN todo : todo[i].visitor \in DOMAIN visitors
    /\ verdict \in {"checking", "accepted", "exit(1)"}

(* No object ever has a name both as a local and as a global symbol: which *)
(* of the two the compiler's address_of prefers makes no difference.       *)
NoShadowing ==
    \A i \in DOMAIN visitors : visitors[i].globals \cap visitors[i].locals = {}
=============================================================================
