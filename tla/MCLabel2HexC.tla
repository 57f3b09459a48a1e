----------------------------- MODULE MCLabel2HexC -----------------------------
(***************************************************************************)
(* The LABEL compiler in C by itself, for what its comments and tests say  *)
(* of it.                                                                  *)
(***************************************************************************)
EXTENDS Label2HexC, MCLabelFile
=============================================================================
