---------------------------- MODULE CompilerLabels ----------------------------
(***************************************************************************)
(* How the labels of Compiler are written down: next_unique_label of       *)
(* src/src/arabilis_cpp/backend.cpp, for any base and any least width.     *)
(* In the code Base = 36, MinWidth = 3.  The l that all names begin with   *)
(* is left out.                                                            *)
(***************************************************************************)
EXTENDS Compiler

CONSTANTS Base, MinWidth

ASSUME LabelAssumption == Base \in Nat \ {0, 1} /\ MinWidth \in Nat

(* The digits of a number, the last one first.                             *)
digits[id \in Nat] == IF id = 0 THEN <<>> ELSE <<id % Base>> \o digits[id \div Base]

(* Mutant: no zeros in front.                                              *)
unpadded(id) == [i \in 1 .. Len(digits[id]) |-> digits[id][Len(digits[id]) + 1 - i]]

next_unique_label(id) ==
    LET width == Max({Len(digits[id]), MinWidth})
    IN [i \in 1 .. width |->
           IF width + 1 - i <= Len(digits[id]) THEN digits[id][width + 1 - i] ELSE 0]

(* label2hex_c takes the first of the labels in the order of their         *)
(* definitions that the characters at the place begin with, not the one    *)
(* with the whole name.  Up to Base^MinWidth labels this is the label that *)
(* the compiler meant wherever it refers to one: no name is the beginning  *)
(* of another.                                                             *)
LabelsResolved ==
    outcome = "done" /\ next_unique_id < Base ^ MinWidth
        => LET Begins(name, name2) ==
                  Len(name2) <= Len(name) /\ SubSeq(name, 1, Len(name2)) = name2
               names == [i \in 1 .. next_unique_id |-> next_unique_label(i)]
               defined == {i \in DOMAIN code : code[i].op = "define"}
           IN \A i \in DOMAIN code :
                 code[i].op # "define" /\ code[i].label # 0
                     => LET found == {j \in defined : Begins(names[code[i].label],
                                                             names[code[j].label])}
                        IN found # {} /\ code[Min(found)].label = code[i].label
=============================================================================
