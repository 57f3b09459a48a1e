------------------------------- MODULE Scoping -------------------------------
(***************************************************************************)
(* The scoping rules of arabilis as rules about one statement and the      *)
(* scope it stands in: the names of globals and locals that it sees, and   *)
(* whether it is inside of a loop.  Nothing is visited in an order and no  *)
(* object is copied.  ScopeRules states the same rules about a whole tree, *)
(* recursively, for TLC; here the statements that obey the rules are the   *)
(* largest set that is closed under them, which a proof can unfold.        *)
(***************************************************************************)
EXTENDS Ast

Scope == [globals: SUBSET Name, locals: SUBSET Name, inside_loop: BOOLEAN]

Sees(names, scope) == names \subseteq scope.globals \cup scope.locals

IsNew(name, scope) == name \notin scope.globals \cup scope.locals

Inside(scope) == [scope EXCEPT !.inside_loop = TRUE]

With(names, scope) == [scope EXCEPT !.locals = @ \cup names]

(* The names that the first n of some statements declare.                  *)
Declared(statements, n) ==
    {statements[j].name : j \in {k \in 1 .. n : statements[k].kind = "Var"}}

(* The blocks of a statement, each with the scope it begins in.            *)
Blocks(s, scope) ==
    CASE s.kind = "If" -> {<<s.then_statements, scope>>, <<s.else_statements, scope>>}
      [] s.kind = "While" -> {<<s.statements, Inside(scope)>>}
      [] s.kind = "For" -> {<<s.statements, With({s.name}, Inside(scope))>>}
      [] OTHER -> {}

(* What a statement may not do itself: use a name that it does not see,    *)
(* declare one that it does see, or jump where there is no loop.  The loop *)
(* variable is seen by the condition and the update, not by the initial    *)
(* value.                                                                  *)
Obeys(s, scope) ==
    /\ s.kind \in {"Break", "Continue"} => scope.inside_loop
    /\ s.kind \in {"ExpressionStatement", "Return", "Let", "Var"} =>
          Sees(names_in[s.expression], scope)
    /\ s.kind = "Let" => Sees({s.name}, scope)
    /\ s.kind \in {"Var", "For"} => IsNew(s.name, scope)
    /\ s.kind \in {"If", "While"} => Sees(names_in[s.condition], scope)
    /\ s.kind = "For" =>
          /\ Sees(names_in[s.initial], scope)
          /\ Sees(names_in[s.condition] \cup names_in[s.update], With({s.name}, scope))

(* All statements of a block are in P, each in the scope that the ones     *)
(* before it leave.                                                        *)
BlockIn(statements, scope, P) ==
    \A i \in DOMAIN statements :
        <<statements[i], With(Declared(statements, i - 1), scope)>> \in P

Closed(P) ==
    \A p \in P : /\ Obeys(p[1], p[2])
                 /\ \A b \in Blocks(p[1], p[2]) : BlockIn(b[1], b[2], P)

WellScoped == UNION {P \in SUBSET (Stmt \X Scope) : Closed(P)}

(* A global or a function, when the names in globals are already taken.    *)
SymbolOK(x, globals) ==
    /\ x.name \notin globals
    /\ x.kind = "Function" =>
          LET arguments == {x.arguments[i] : i \in DOMAIN x.arguments}
              scope == [globals |-> globals \cup {x.name}, locals |-> arguments,
                        inside_loop |-> FALSE]
          IN /\ arguments \cap (globals \cup {x.name}) = {}
             /\ \A i, j \in DOMAIN x.arguments :
                   x.arguments[i] = x.arguments[j] => i = j
             /\ BlockIn(x.statements, scope, WellScoped)

Symbols(p) == p.globalvars \o p.functions

WellScopedProgram(p) ==
    /\ \A k \in DOMAIN Symbols(p) :
          SymbolOK(Symbols(p)[k], {Symbols(p)[j].name : j \in 1 .. k - 1})
    /\ \E k \in DOMAIN p.functions : p.functions[k].name = "main"
=============================================================================
