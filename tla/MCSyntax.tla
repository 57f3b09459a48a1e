------------------------------- MODULE MCSyntax -------------------------------
(***************************************************************************)
(* Short forms for writing down programs, shared by the modules that       *)
(* choose the programs to be model checked.                                *)
(***************************************************************************)
EXTENDS Integers, Sequences

Num(n) == [kind |-> "Numeral", number |-> n]
Str(s) == [kind |-> "String", literal |-> s]
Use(n) == [kind |-> "Variable", name |-> n]
Ref(n) == [kind |-> "AddressOf", name |-> n]
Bin(t, l, r) == [kind |-> "BinOp", token |-> t, lhs |-> l, rhs |-> r]
Un(t, r) == [kind |-> "UnOp", token |-> t, rhs |-> r]
Call(n, a) == [kind |-> "Call", name |-> n, arguments |-> a]

Break == [kind |-> "Break"]
Continuing == [kind |-> "Continue"]
Do(e) == [kind |-> "ExpressionStatement", expression |-> e]
Return(e) == [kind |-> "Return", expression |-> e]
Var(n, e) == [kind |-> "Var", name |-> n, expression |-> e]
Let(n, e) == [kind |-> "Let", name |-> n, expression |-> e]
While(c, b) == [kind |-> "While", condition |-> c, statements |-> b]
If(c, b1, b2) == [kind |-> "If", condition |-> c, then_statements |-> b1,
                  else_statements |-> b2]
For(n, i, c, u, b) == [kind |-> "For", name |-> n, initial |-> i,
                       condition |-> c, update |-> u, statements |-> b]

Global(n, e) == [kind |-> "GlobalVar", name |-> n, value |-> e]
Fun(n, a, b) == [kind |-> "Function", name |-> n, arguments |-> a, statements |-> b]
Prog(g, f) == [globalvars |-> g, functions |-> f]
MainOf(b) == Prog(<<>>, <<Fun("main", <<>>, b)>>)

UpTo1(S) == {<<>>} \cup {<<s>> : s \in S}
UpTo2(S) == UpTo1(S) \cup {<<s, t>> : s \in S, t \in S}
Elements(s) == {s[i] : i \in DOMAIN s}

(* The nodes below a set of programs, for the constants Expr and Stmt.     *)
RECURSIVE ExprsIn(_), StmtsIn(_)
ExprsIn(e) ==
    {e} \cup CASE e.kind = "BinOp" -> ExprsIn(e.lhs) \cup ExprsIn(e.rhs)
               [] e.kind = "UnOp" -> ExprsIn(e.rhs)
               [] e.kind = "Call" -> UNION {ExprsIn(a) : a \in Elements(e.arguments)}
               [] OTHER -> {}
StmtsIn(s) ==
    {s} \cup CASE s.kind \in {"While", "For"} ->
                     UNION {StmtsIn(t) : t \in Elements(s.statements)}
               [] s.kind = "If" ->
                     UNION {StmtsIn(t) : t \in Elements(s.then_statements)
                                                \cup Elements(s.else_statements)}
               [] OTHER -> {}

TopExprs(s) ==
    CASE s.kind \in {"ExpressionStatement", "Return", "Let", "Var"} -> {s.expression}
      [] s.kind \in {"While", "If"} -> {s.condition}
      [] s.kind = "For" -> {s.initial, s.condition, s.update}
      [] OTHER -> {}

StmtsOf(programs) ==
    UNION {UNION {UNION {StmtsIn(s) : s \in Elements(f.statements)} :
                  f \in Elements(p.functions)} : p \in programs}
ExprsOf(programs) ==
    UNION {ExprsIn(g.value) : g \in UNION {Elements(p.globalvars) : p \in programs}}
      \cup UNION {UNION {ExprsIn(e) : e \in TopExprs(s)} : s \in StmtsOf(programs)}
=============================================================================
