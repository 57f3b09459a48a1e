------------------------------ MODULE MCCompiler ------------------------------
(***************************************************************************)
(* Programs for model checking Compiler: well-formed ones only, as it is   *)
(* never started on others.  Every kind of statement around every kind of  *)
(* expression, two blocks deep, and frames of up to four variables.        *)
(***************************************************************************)
EXTENDS CompilerLabels, ScopeRules, MCSyntax

MCName == {"main", "f", "g", "x", "y", "z"}
MCLiteral == {"s"}

Exprs == {Num(1), Str("s"), Use("x"), Ref("g"), Un("log_not", Use("x")),
          Bin("divide", Use("x"), Str("s")), Call("f", <<Use("x"), Call("f", <<>>)>>)}

Leaves == {Break, Continuing, Var("y", Use("x")), Let("x", Num(1)), Return(Use("x"))}
        \cup {Do(e) : e \in Exprs}

Nests(S) == UNION {{While(Num(1), b), For("y", Str("s"), Use("y"), Use("x"), b),
                    If(Use("x"), b, <<>>), If(Use("x"), <<Var("z", Num(1))>>, b)} :
                       b \in UpTo1(S)}

Bodies == {<<s, t>> : s \in Nests(Leaves), t \in {Var("y", Num(1)), Return(Num(1))}}
    \cup {<<s>> : s \in Nests(Nests({Break, Continuing, Var("z", Use("y")),
                                     For("z", Num(1), Num(1), Num(1), <<>>)}))}

MCProgram ==
    {Prog(<<Global("g", Str("s"))>>, <<Fun("f", a, <<>>), Fun("main", <<"x">>, b)>>) :
        a \in {<<>>, <<"x", "y">>}, b \in Bodies}

MCStmt == StmtsOf(MCProgram)
MCExpr == ExprsOf(MCProgram)

(* Only programs that VariableUsage accepts reach the compiler.            *)
MCInit == Init /\ WellFormed(program)

MCSpec == MCInit /\ [][Next]_vars
=============================================================================
