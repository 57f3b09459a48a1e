------------------------------ MODULE MCLabelFile ------------------------------
(***************************************************************************)
(* Files for model checking the LABEL compilers: every sequence of up to   *)
(* four pieces of a file, whether they make up a LABEL file or not.        *)
(***************************************************************************)
EXTENDS LabelFile

(* "A", "7A", "a", "ab", ".a:", ".ab:", ".b:" and a comment.               *)
Pieces ==
    {<<65>>, <<55, 65>>, <<97>>, <<97, 98>>,
     <<46, 97, 58>>, <<46, 97, 98, 58>>, <<46, 98, 58>>, <<35, 97, 10>>}

Joined(S, n) == {FlattenSeq(f) : f \in [1 .. n -> S]}

(* "7A", "a ", ".a:", "size", ".size:", "@", ".", a comment that ends with *)
(* the file, names of seven, eight and nine characters, a comment with an  *)
(* e acute, one that ends with a carriage return, and white space.         *)
Odd ==
    {<<55, 65>>, <<97, 32>>, <<46, 97, 58>>, Size \o <<10>>, <<64>>, <<46>>, <<35, 97>>,
     <<46>> \o [i \in 1 .. 7 |-> 97] \o <<58>>, <<46>> \o [i \in 1 .. 8 |-> 97] \o <<58>>,
     <<46>> \o Size \o <<58>>, <<46>> \o [i \in 1 .. 9 |-> 97] \o <<58>>,
     <<35, 195, 169, 98, 10>>, <<35, 98, 13, 10>>, <<32>>, <<9>>, <<13>>}

(* Blanks, until the heap is full.                                         *)
Long == {[i \in 1 .. n |-> 32] : n \in {36, 37, 47, 48, 49}}

MCInput ==
    UNION {Joined(Pieces, n) : n \in 0 .. 4} \cup UNION {Joined(Odd, n) : n \in 1 .. 3}
      \cup Long
=============================================================================
