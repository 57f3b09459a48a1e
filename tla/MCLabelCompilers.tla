--------------------------- MODULE MCLabelCompilers ---------------------------
(* The LABEL compilers on the files of MCLabelFile.                        *)
EXTENDS LabelCompilers, MCLabelFile
=============================================================================
