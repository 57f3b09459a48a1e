--------------------------- MODULE MCVariableUsage ---------------------------
(***************************************************************************)
(* Program families for model checking VariableUsage: every way of nesting *)
(* two levels of blocks around declarations and uses of two variables      *)
(* (Blocks), and every way of naming up to two globals, two functions and  *)
(* their arguments (Symbols).                                              *)
(***************************************************************************)
EXTENDS VariableUsage, ScopeRules, MCSyntax

MCName == {"main", "f", "g", "x", "y"}

MinusY == Un("minus", Use("y"))
Sum == Bin("plus", Use("x"), MinusY)
CallF == Call("f", <<Use("x")>>)

MCExpr == {Num(1), Use("x"), Use("y"), MinusY, Sum, CallF, Ref("main")}

Simple == {Break, Continuing, Var("x", Num(1)), Var("x", Use("y")),
           Let("x", Use("y")), Return(Sum)}

Inner == {Break, Var("x", Num(1)), Do(Sum)}

Loops(S) == {While(c, b) : c \in {Num(1), Use("x")}, b \in UpTo1(S)}
       \cup {For("x", i, c, Use("x"), b) : i \in {Num(1), Use("x")},
                                           c \in {Num(1), Use("y")}, b \in UpTo1(S)}

Nest1 == Loops(Simple) \cup {If(Num(1), b1, b2) : b1 \in UpTo1(Inner), b2 \in UpTo1(Inner)}
Nest2 == {If(Num(1), <<s, t>>, <<u>>) : s \in Loops(Inner), t \in Inner, u \in Inner}
    \cup {While(Num(1), <<If(Num(1), <<i>>, <<>>), t>>) : i \in Inner, t \in Inner}

Bodies == UpTo1({Do(CallF), Do(Ref("main")), Var("g", Num(1))})

MCStmt == Simple \cup Inner \cup Nest1 \cup Nest2 \cup Loops(Inner)
    \cup UNION {Elements(b) : b \in Bodies}

Blocks == {Prog(<<>>, <<Fun("main", a, b)>>) :
              a \in {<<>>, <<"y">>},
              b \in UpTo2(Simple \cup Nest1) \cup {<<s>> : s \in Nest2}}

Symbols == {Prog(g, f) :
              g \in UpTo2({Global("f", Num(1)), Global("g", Num(1))}),
              f \in UpTo2({Fun(n, a, b) : n \in {"main", "f"},
                                          a \in {<<>>, <<"x">>, <<"x", "x">>, <<"g">>},
                                          b \in Bodies})}

MCProgram == Blocks \cup Symbols

-----------------------------------------------------------------------------
(* A program is passed on exactly when it obeys the scoping rules: the     *)
(* copies that with_block_scope makes let neither a declaration escape     *)
(* from its block nor a use inside a block miss an outer declaration, and  *)
(* the order of the visits makes no declaration visible too early.         *)
VerdictCorrect ==
    verdict # "checking" => (verdict = "accepted" <=> WellFormed(program))
=============================================================================
