---------------------------- MODULE MCHexCompilers ----------------------------
(***************************************************************************)
(* Files for model checking the HEX compilers: every short sequence of the *)
(* characters that matter for the structure of a file, and every character *)
(* code as the first and as the second character of a pair.                *)
(***************************************************************************)
EXTENDS HexCompilers

(* Newline, carriage return, blank, #, 4 and A.                            *)
Structure == {10, 13, 32, 35, 52, 65}

MCInput ==
    UNION {[1 .. n -> Structure] : n \in 0 .. 5}
      \cup {<<c, 55>> : c \in 0 .. 255} \cup {<<70, c>> : c \in 0 .. 255}
=============================================================================
