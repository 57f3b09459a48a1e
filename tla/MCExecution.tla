------------------------------ MODULE MCExecution ------------------------------
(***************************************************************************)
(* Programs for model checking Execution.  Three families: every operator  *)
(* on operands at the limits of the registers; loops in loops with every   *)
(* way of leaving a block; calls in the middle of expressions, recursion,  *)
(* side effects of arguments, calls through a local variable.              *)
(***************************************************************************)
EXTENDS Execution, ScopeRules, MCSyntax

MCName == {"main", "f", "h", "g", "x", "y", "z", "w", "i"}
MCLiteral == {"s"}

Neg(n) == Un("minus", Num(n))
Add(e, n) == Bin("plus", e, Num(n))

(* g = g * 2 + e: the value of g tells the order in which it was changed.  *)
Log(e) == Let("g", Bin("plus", Bin("multiply", Use("g"), Num(2)), e))

(* 2048 is -2048 in 12 bits, the number that has no negative.              *)
Operands == {Num(0), Num(2), Num(300), Neg(7), Num(2048)}

Operations ==
    {Prog(<<>>, <<Fun("main", <<>>, <<Return(Bin(t, a, b))>>)>>) :
        t \in BinaryToken, a, b \in Operands}
      \cup {Prog(<<>>, <<Fun("main", <<>>, <<Return(Un(t, a))>>)>>) :
        t \in UnaryToken, a \in Operands}

Counting(name, limit, body) ==
    For(name, Num(0), Bin("less", Use(name), Num(limit)), Add(Use(name), 1), body)

(* What may happen in the body of a loop over i.                           *)
Steps == {Log(Use("i")), Break, Continuing, Return(Use("g")),
          Var("y", Add(Use("i"), 1)), Do(Str("s"))}
Second(s) == If(Bin("equal", Use("i"), Num(1)), <<s>>, <<Log(Num(1))>>)

LoopBodies ==
    {<<s, Log(Num(1))>> : s \in Steps}
      \cup {<<Var("x", Use("i")), Second(s), Log(Use("x"))>> : s \in Steps}
      \cup {<<Second(s), Counting("x", 2, <<Log(Use("x")), t>>)>> : s, t \in Steps}
      \cup {<<Var("x", Num(2)),
              While(Use("x"), <<Let("x", Bin("minus", Use("x"), Num(1))), Second(s)>>),
              Log(Use("x"))>> : s \in Steps}

Loops ==
    {Prog(<<Global("g", Num(1))>>,
          <<Fun("main", <<>>,
                <<Var("z", Num(5)), Counting("i", 3, b), Return(Bin("plus", Use("g"), Use("z")))>>)>>) :
        b \in LoopBodies}

(* f(x, y): logs x, leaves a loop half way and returns y.                  *)
Callee ==
    Fun("f", <<"x", "y">>,
        <<Var("z", Use("x")), Log(Use("z")),
          Counting("i", 2, <<Var("w", Use("y")),
                             If(Use("i"), <<Return(Use("w"))>>, <<>>)>>)>>)

Twice(e) == Call("f", <<e, Num(3)>>)

Recursive ==
    Fun("h", <<"x">>,
        <<If(Bin("lessequal", Use("x"), Num(1)), <<Return(Num(1))>>, <<>>),
          Return(Bin("multiply", Use("x"),
                     Call("h", <<Bin("minus", Use("x"), Num(1))>>)))>>)

Calling ==
    {Bin("minus", Twice(Num(1)), Twice(Num(0))),
     Call("f", <<Twice(Num(1)), Call("f", <<Num(0), Num(2)>>)>>),
     Bin("log_and", Num(0), Twice(Num(1))),
     Un("log_not", Call("f", <<Call("h", <<Num(4)>>), Num(0)>>)),
     Bin("divide", Call("h", <<Num(5)>>), Call("f", <<Num(1), Neg(7)>>)),
     Bin("modulo", Use("y"), Bin("minus", Twice(Num(0)), Num(3))),
     Call("x", <<Num(3), Use("y")>>)}

Calls ==
    {Prog(<<Global("g", Num(1))>>,
          <<Callee, Recursive,
            Fun("main", <<>>,
                <<Var("x", Use("f")), Var("y", Num(7)), s,
                  Return(Bin("plus", Use("g"), Use("y")))>>)>>) :
        s \in UNION {{Let("y", e), Do(e), If(e, <<Let("y", Num(1))>>, <<Log(Num(1))>>),
                      Counting("z", 2, <<Var("w", Use("z")), Let("y", e), Log(Use("w"))>>)} :
                         e \in Calling}}

MCProgram == Operations \cup Loops \cup Calls

ASSUME MeaningfulPrograms ==
    \A p \in Program : WellFormed(p) /\ Meaning(p, Fuel).stop # "fuel"

MCStmt == StmtsOf(MCProgram)
MCExpr == ExprsOf(MCProgram)

(* Programs for the run about the end of a for loop: a single loop, whose  *)
(* body declares a variable of its own or does not.                        *)
LeakProgram ==
    {MainOf(<<Var("z", Num(5)), Counting("i", 2, b), Return(Use("z"))>>) :
        b \in {<<>>, <<Let("z", Use("i"))>>, <<Var("y", Use("i"))>>}}
LeakStmt == StmtsOf(LeakProgram)
LeakExpr == ExprsOf(LeakProgram)
=============================================================================
