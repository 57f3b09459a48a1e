------------------------------ MODULE MCPipeline ------------------------------
(***************************************************************************)
(* Files for model checking the pipeline: sequences of up to three or four *)
(* pieces.                                                                 *)
(***************************************************************************)
EXTENDS Pipeline

Joined(S, n) == {FlattenSeq(f) : f \in [1 .. n -> S]}

(* Uses "a ", "b\n" and "a", "7A", ".a:", comments with either end, and    *)
(* declarations: %a:"b", %b : "7A", %a:".a:", %b:"#", %a\n:\t"#7\n",       *)
(* %a_:"a\0"; and pieces of declarations: %a:", %a", %a:, % and ".         *)
Pieces ==
    {<<97, 32>>, <<98, 10>>, <<97>>, <<55, 65>>, <<46, 97, 58>>, <<35, 97, 10>>, <<35, 13>>,
     <<37, 97, 58, 34, 98, 34>>, <<37, 98, 32, 58, 32, 34, 55, 65, 34>>,
     <<37, 97, 58, 34, 46, 97, 58, 34>>, <<37, 98, 58, 34, 35, 34>>,
     <<37, 97, 10, 58, 9, 34, 35, 55, 10, 34>>, <<37, 97, 95, 58, 34, 97, 0, 34>>,
     <<37, 97, 58, 34>>, <<37, 97, 34>>, <<37, 97, 58>>, <<37>>, <<34>>}

MCInput == UNION {Joined(Pieces, n) : n \in 0 .. 3}

(* "a ", ".a:", %a:"7A", "7A", and what one of the stages rejects: "%",    *)
(* "@", "b ", "7 ".                                                        *)
Stages ==
    {<<97, 32>>, <<46, 97, 58>>, <<37, 97, 58, 34, 55, 65, 34>>, <<55, 65>>,
     <<37>>, <<64>>, <<98, 32>>, <<55, 32>>}

MCChainInput == UNION {Joined(Stages, n) : n \in 0 .. 4}
=============================================================================
