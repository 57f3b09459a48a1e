------------------------------ MODULE MCArabilis ------------------------------
(***************************************************************************)
(* Programs for model checking Arabilis, well-formed and ill-formed: jumps *)
(* inside and outside of loops and inside conditions in loops, uses of     *)
(* locals, globals, arguments and functions before, after and outside of   *)
(* their declarations, with every kind of expression.                      *)
(***************************************************************************)
EXTENDS Arabilis, MCSyntax

MCName == {"main", "f", "g", "x", "y"}
MCLiteral == {"s"}

Exprs == {Un("minus", Use("x")), Ref("y"), Call("f", <<Str("s"), Use("g")>>),
          Bin("log_and", Ref("f"), Call("main", <<>>))}

Leaves == {Break, Continuing, Var("y", Use("x")), Let("y", Num(1)), Return(Use("g"))}
        \cup {Do(e) : e \in Exprs}

Nests(S) == UNION {{While(Ref("g"), b), For("y", Use("x"), Use("y"), Ref("y"), b),
                    If(Num(1), b, <<Let("y", Use("g"))>>),
                    If(Num(1), <<Var("y", Num(1))>>, b)} : b \in UpTo1(S)}

Small == {Break, Continuing, Let("y", Num(1))}

Bodies == {<<Var("x", Num(1))>> \o <<s, t>> :
              s \in Leaves \cup Nests(Leaves), t \in Leaves}
     \cup {<<Var("x", Str("s")), s>> : s \in Nests(Nests(Small))}

Helper == Fun("f", <<"x", "y">>, <<Return(Use("y"))>>)

MCProgram ==
    {Prog(<<Global("g", Num(1))>>, <<Helper, Fun("main", <<>>, b)>>) : b \in Bodies}
    \cup {Prog(<<Global("g", Num(1))>>, <<Fun(n, <<>>, b), Helper>>) :
             n \in {"main", "f"}, b \in UpTo1(Leaves)}

MCStmt == StmtsOf(MCProgram)
MCExpr == ExprsOf(MCProgram)
=============================================================================
