------------------------------ MODULE ScopeRules ------------------------------
(***************************************************************************)
(* The scoping rules of arabilis stated on the tree as a whole: where each *)
(* declaration is visible, and which programs obey the rules.  Nothing is  *)
(* visited in an order here and no object is copied; this is the promise   *)
(* against which the visitor of VariableUsage is checked.                  *)
(*                                                                         *)
(* The path of a statement inside a function is a sequence of pairs        *)
(* <<block, index>>, outermost first; the two blocks of an if statement    *)
(* are numbered 1 and 2.                                                   *)
(***************************************************************************)
EXTENDS Ast

RECURSIVE Occurrences(_)

Nested(block, statements, inside_loop) ==
    UNION {{[path |-> <<<<block, i>>>> \o o.path,
             stmt |-> o.stmt,
             inside_loop |-> inside_loop \/ o.inside_loop] :
                o \in Occurrences(statements[i])} : i \in DOMAIN statements}

(* The statements that occur in a statement, each with its path.           *)
Occurrences(s) ==
    {[path |-> <<>>, stmt |-> s, inside_loop |-> FALSE]} \cup
    CASE s.kind \in {"While", "For"} -> Nested(1, s.statements, TRUE)
      [] s.kind = "If" -> Nested(1, s.then_statements, FALSE)
                            \cup Nested(2, s.else_statements, FALSE)
      [] OTHER -> {}

Declares(o) == o.stmt.kind \in {"Var", "For"}

(* A variable is visible in the rest of its block, a loop variable in the  *)
(* body of its loop.                                                       *)
VisibleAt(d, o) ==
    LET n == Len(d.path)
    IN IF d.stmt.kind = "For"
       THEN Len(o.path) > n /\ SubSeq(o.path, 1, n) = d.path
       ELSE /\ Len(o.path) >= n
            /\ SubSeq(o.path, 1, n - 1) = SubSeq(d.path, 1, n - 1)
            /\ o.path[n][1] = d.path[n][1]
            /\ o.path[n][2] > d.path[n][2]

NamesUsed(s) ==
    CASE s.kind \in {"ExpressionStatement", "Return", "Var"} -> names_in[s.expression]
      [] s.kind = "Let" -> {s.name} \cup names_in[s.expression]
      [] s.kind \in {"If", "While"} -> names_in[s.condition]
      [] s.kind = "For" -> names_in[s.initial] \cup
             ((names_in[s.condition] \cup names_in[s.update]) \ {s.name})
      [] OTHER -> {}

FunctionWellFormed(f, globals) ==
    LET arguments == {f.arguments[i] : i \in DOMAIN f.arguments}
        body == Nested(1, f.statements, FALSE)
        visible(o) == {d.stmt.name : d \in {e \in body : Declares(e) /\ VisibleAt(e, o)}}
    IN /\ arguments \cap globals = {}
       /\ \A i, j \in DOMAIN f.arguments :
             i # j => f.arguments[i] # f.arguments[j]
       /\ \A o \in body :
             /\ NamesUsed(o.stmt) \subseteq globals \cup arguments \cup visible(o)
             /\ Declares(o) =>
                   o.stmt.name \notin globals \cup arguments \cup visible(o)
             /\ o.stmt.kind \in {"Break", "Continue"} => o.inside_loop

WellFormed(p) ==
    LET symbols == [i \in DOMAIN p.globalvars |-> p.globalvars[i].name]
                     \o [i \in DOMAIN p.functions |-> p.functions[i].name]
    IN /\ \A i, j \in DOMAIN symbols : i # j => symbols[i] # symbols[j]
       /\ \A k \in DOMAIN p.functions :
             FunctionWellFormed(p.functions[k],
                 {symbols[i] : i \in 1 .. Len(p.globalvars) + k})
       /\ \E k \in DOMAIN p.functions : p.functions[k].name = "main"
=============================================================================
