---------------------------- MODULE ArabilisProofs ----------------------------
(***************************************************************************)
(* Proofs about Arabilis, for every set of programs: what the check lets   *)
(* through the compiler can look up.  The two meet in the scoping rules:   *)
(* VariableUsageProofs says that a program is accepted if and only if it   *)
(* obeys them, CompilerProofs that the compiler finds every name of a      *)
(* program that does, and defines every label that it refers to.           *)
(***************************************************************************)
EXTENDS Arabilis, FiniteSetTheorems, TLAPS

CheckP == INSTANCE VariableUsageProofs
GenP == INSTANCE CompilerProofs

(* Both instances are of the same syntax tree and the same rules, and the  *)
(* steps of the modules are those of their proofs.                         *)
LEMMA SameTree ==
    CheckP!AstAssumption /\ GenP!AstAssumption
  BY AstAssumption
     DEF Expression, Statement, GlobalVar, Function, Constant, UnaryToken, BinaryToken,
         CheckP!Expression, CheckP!Statement, CheckP!GlobalVar, CheckP!Function,
         CheckP!Constant, CheckP!UnaryToken, CheckP!BinaryToken,
         GenP!Expression, GenP!Statement, GenP!GlobalVar, GenP!Function,
         GenP!Constant, GenP!UnaryToken, GenP!BinaryToken

LEMMA SameRules ==
    CheckP!WellScopedProgram(program) <=> GenP!WellScopedProgram(program)
  <1>1. CheckP!names_in = GenP!names_in
    BY DEF CheckP!names_in, GenP!names_in
  <1>2. CheckP!WellScoped = GenP!WellScoped
    BY <1>1 DEF CheckP!WellScoped, CheckP!Closed, CheckP!Obeys, CheckP!Blocks, CheckP!BlockIn,
           CheckP!Declared, CheckP!With, CheckP!Inside, CheckP!IsNew, CheckP!Sees, CheckP!Scope,
           GenP!WellScoped, GenP!Closed, GenP!Obeys, GenP!Blocks, GenP!BlockIn,
           GenP!Declared, GenP!With, GenP!Inside, GenP!IsNew, GenP!Sees, GenP!Scope
  <1> QED
    BY <1>2 DEF CheckP!WellScopedProgram, CheckP!Symbols, CheckP!SymbolOK, CheckP!BlockIn,
           CheckP!Declared, CheckP!With,
           GenP!WellScopedProgram, GenP!Symbols, GenP!SymbolOK, GenP!BlockIn,
           GenP!Declared, GenP!With

LEMMA SameCheck ==
    Check!Next => CheckP!Next
  BY DEF Check!Next, Check!VisitGlobalVar, Check!Visiting, Check!node, Check!this,
         Check!Handle, Check!Continue, Check!Exit1, Check!Update,
         Check!is_unique_global, Check!VisitFunction, Check!visit,
         Check!VisitBreakContinue, Check!VisitExpressionReturn,
         Check!check_variables, Check!names_in, Check!VisitLet, Check!VisitVar,
         Check!is_unique, Check!add_local, Check!VisitIf, Check!with_block_scope,
         Check!inner, Check!VisitWhile, Check!VisitFor, Check!VisitProgramEnd,
         CheckP!Next, CheckP!VisitGlobalVar, CheckP!Visiting, CheckP!node,
         CheckP!this, CheckP!Handle, CheckP!Continue, CheckP!Exit1, CheckP!Update,
         CheckP!is_unique_global, CheckP!VisitFunction, CheckP!visit,
         CheckP!VisitBreakContinue, CheckP!VisitExpressionReturn,
         CheckP!check_variables, CheckP!names_in, CheckP!VisitLet, CheckP!VisitVar,
         CheckP!is_unique, CheckP!add_local, CheckP!VisitIf,
         CheckP!with_block_scope, CheckP!inner, CheckP!VisitWhile, CheckP!VisitFor,
         CheckP!VisitProgramEnd

LEMMA SameGen ==
    Gen!Next => GenP!Next
  BY DEF Gen!Next, Gen!Emit, Gen!Running, Gen!task, Gen!Write, Gen!AddressOf,
         Gen!this, Gen!self, Gen!with_label, Gen!with_imm, Gen!line,
         Gen!VisitAddressOf, Gen!Visiting, Gen!node, Gen!Perform, Gen!Expand,
         Gen!address_of, Gen!emit, Gen!lines, Gen!VisitVariable, Gen!VisitNumeral,
         Gen!VisitString, Gen!jump_to, Gen!define, Gen!label, Gen!VisitBinOp,
         Gen!visit, Gen!operation, Gen!comparison, Gen!as_boolean, Gen!VisitUnOp,
         Gen!unary_operation, Gen!VisitCall, Gen!visit_reversed, Gen!visit_all,
         Gen!VisitExpressionStatement, Gen!VisitLet, Gen!assign, Gen!VisitVar,
         Gen!next_local_offset, Gen!Min, Gen!Bind, Gen!VisitReturn, Gen!VisitBreak,
         Gen!VisitContinue, Gen!VisitIf, Gen!branch_if_zero, Gen!inner,
         Gen!VisitWhile, Gen!with_break_continue_label, Gen!VisitFor,
         Gen!VisitGlobalVar, Gen!zero_word, Gen!store_label, Gen!VisitFunction,
         Gen!argument_offsets, Gen!positions, Gen!Max, Gen!VisitProgramEnd,
         GenP!Next, GenP!Emit, GenP!Running, GenP!task, GenP!Write, GenP!AddressOf,
         GenP!this, GenP!self, GenP!with_label, GenP!with_imm, GenP!line,
         GenP!VisitAddressOf, GenP!Visiting, GenP!node, GenP!Perform, GenP!Expand,
         GenP!address_of, GenP!emit, GenP!lines, GenP!VisitVariable,
         GenP!VisitNumeral, GenP!VisitString, GenP!jump_to, GenP!define,
         GenP!label, GenP!VisitBinOp, GenP!visit, GenP!operation, GenP!comparison,
         GenP!as_boolean, GenP!VisitUnOp, GenP!unary_operation, GenP!VisitCall,
         GenP!visit_reversed, GenP!visit_all, GenP!VisitExpressionStatement,
         GenP!VisitLet, GenP!assign, GenP!VisitVar, GenP!next_local_offset,
         GenP!Min, GenP!Bind, GenP!VisitReturn, GenP!VisitBreak,
         GenP!VisitContinue, GenP!VisitIf, GenP!branch_if_zero, GenP!inner,
         GenP!VisitWhile, GenP!with_break_continue_label, GenP!VisitFor,
         GenP!VisitGlobalVar, GenP!zero_word, GenP!store_label, GenP!VisitFunction,
         GenP!argument_offsets, GenP!positions, GenP!Max, GenP!VisitProgramEnd
-----------------------------------------------------------------------------
(* Until the check is over the compiler has not begun; from then on the    *)
(* tasks that it has left only meet names that it knows, and they define   *)
(* the labels that its code refers to.                                     *)
GInv ==
    GenP!IInv /\ GenP!Covered /\ GenP!LabelsTaken /\ GenP!Linked

PInv ==
    /\ CheckP!VInv
    /\ GenP!Start \/ (verdict = "accepted" /\ GInv)
    /\ outcome # "terminate"

LEMMA InitPInv ==
    Init => PInv
  <1> SUFFICES ASSUME Init PROVE PInv
    OBVIOUS
  <1>1. CheckP!Init
    BY DEF Init, Check!Init, CheckP!Init, Check!visit, CheckP!visit
  <1>2. GenP!Start
    BY DEF Init, Gen!Start, GenP!Start, Gen!visit_all, GenP!visit_all,
           Gen!Nothing, GenP!Nothing
  <1> QED
    BY <1>1, <1>2, SameTree, CheckP!InitVInv DEF PInv, GenP!Start

LEMMA CheckStep ==
    ASSUME PInv, check_variable_usage
    PROVE  PInv'
  <1>1. CheckP!Next /\ UNCHANGED genvars
    BY SameCheck DEF check_variable_usage
  <1>2. verdict = "checking" /\ program' = program
    BY <1>1 DEF CheckP!Next, CheckP!VisitGlobalVar, CheckP!VisitFunction,
           CheckP!VisitBreakContinue, CheckP!VisitExpressionReturn, CheckP!VisitLet,
           CheckP!VisitVar, CheckP!VisitIf, CheckP!VisitWhile, CheckP!VisitFor,
           CheckP!VisitProgramEnd, CheckP!Visiting, CheckP!Handle, CheckP!Continue,
           CheckP!Exit1
  <1>3. CheckP!VInv'
    BY <1>1, SameTree, CheckP!NextFollowsRules DEF PInv
  <1>4. GenP!Start
    BY <1>2 DEF PInv
  <1>5. GenP!Start'
    BY <1>1, <1>2, <1>4 DEF GenP!Start, genvars
  <1> QED
    BY <1>1, <1>3, <1>5 DEF PInv, genvars

LEMMA GenKeeps ==
    ASSUME GInv, outcome # "terminate", [GenP!Next]_(GenP!vars)
    PROVE  GInv' /\ outcome' # "terminate"
  <1>1. GenP!IInv' /\ GenP!Covered' /\ outcome' # "terminate"
    BY SameTree, GenP!NextPreserves, GenP!NextCovered DEF GInv
  <1>2. GenP!LabelsTaken' /\ GenP!Linked'
    BY SameTree, GenP!NextLabels, GenP!NextLinked DEF GInv
  <1> QED
    BY <1>1, <1>2 DEF GInv

LEMMA CompileStep ==
    ASSUME PInv, compile_program
    PROVE  PInv'
  <1>1. GenP!Next /\ verdict = "accepted" /\ UNCHANGED checkvars
    BY SameGen DEF compile_program
  <1>2. program' = program
    BY <1>1 DEF GenP!Next, GenP!Emit, GenP!AddressOf, GenP!VisitAddressOf,
           GenP!VisitVariable, GenP!VisitNumeral, GenP!VisitString, GenP!VisitBinOp,
           GenP!VisitUnOp, GenP!VisitCall, GenP!VisitExpressionStatement, GenP!VisitLet,
           GenP!VisitVar, GenP!VisitReturn, GenP!VisitBreak, GenP!VisitContinue,
           GenP!VisitIf, GenP!VisitWhile, GenP!VisitFor, GenP!VisitGlobalVar,
           GenP!VisitFunction, GenP!VisitProgramEnd, GenP!Perform, GenP!Expand
  <1>3. CheckP!VInv'
    BY <1>1, <1>2, SameTree, CheckP!NextFollowsRules DEF PInv, CheckP!vars, checkvars
  <1>4. GInv
    <2>1. CASE GenP!Start
      <3>1. program \in Program /\ CheckP!WellScopedProgram(program)
        BY <1>1 DEF PInv, CheckP!VInv, CheckP!IInv
      <3>2. GenP!Init /\ GenP!WellScopedProgram(program)
        BY <2>1, <3>1, SameRules DEF GenP!Init
      <3> QED
        BY <3>2, SameTree, GenP!InitIInv, GenP!InitCovered, GenP!InitLabels,
           GenP!InitLinked DEF GInv
    <2> QED
      BY <2>1 DEF PInv
  <1>5. GInv' /\ outcome' # "terminate"
    BY <1>1, <1>4, GenKeeps DEF PInv
  <1> QED
    BY <1>1, <1>3, <1>5 DEF PInv, checkvars

LEMMA NextPInv ==
    PInv /\ [Next]_vars => PInv'
  <1> SUFFICES ASSUME PInv, UNCHANGED vars PROVE PInv'
    BY CheckStep, CompileStep DEF Next
  <1>1. CheckP!VInv'
    BY SameTree, CheckP!NextFollowsRules DEF PInv, vars, CheckP!vars, checkvars
  <1>2. UNCHANGED <<program, work, compilers, next_unique_id, code, outcome, verdict>>
    BY DEF vars, checkvars, genvars
  <1>3. GenP!Start => GenP!Start'
    BY <1>2 DEF GenP!Start
  <1>4. ASSUME GInv PROVE GInv'
    BY <1>2, <1>4, GenKeeps DEF PInv, GenP!vars
  <1> QED
    BY <1>1, <1>2, <1>3, <1>4 DEF PInv

(* Whatever the program is: a name that passed the check of VariableUsage  *)
(* is found by Compiler (map::at in address_of, a noexcept function), so   *)
(* arabilis never ends in std::terminate.  The two classes fill separate   *)
(* symbol tables, at different moments of the traversal.                   *)
THEOREM LookupsSucceed == Spec => []NeverTerminates
  <1>1. PInv => NeverTerminates
    BY DEF PInv, NeverTerminates
  <1> QED
    BY <1>1, InitPInv, NextPInv, PTL DEF Spec

(* What comes out for a program that passed the check can be assembled:    *)
(* every label that the code refers to is defined in it, once.  A handler  *)
(* writes references to labels long before a later task defines them, and  *)
(* Compiler never looks whether it has a label: "break", "continue" and    *)
(* "return" write what the object holds, the end of the program what is    *)
(* bound to "main".  That none of them is the empty label rests on the     *)
(* check of VariableUsage.                                                 *)
THEOREM CodeAssembles == Spec => []Assembles
  <1>1. ASSUME PInv PROVE Assembles
    <2> SUFFICES ASSUME outcome = "done", NEW i \in DOMAIN code
                 PROVE  \/ code[i].op \notin {"mov_eax_imm", "push_imm"}
                        \/ code[i].op = "push_imm" /\ code[i].label = 0
                        \/ code[i] = exit_number
                        \/ Cardinality(Defined(code[i].label)) = 1
      BY DEF Assembles
    <2>1. GenP!LabelsTaken /\ GenP!Linked
      BY <1>1 DEF PInv, GInv, GenP!Start
    <2>2. \/ code[i].op \notin {"mov_eax_imm", "push_imm"}
          \/ code[i].op = "push_imm" /\ code[i].label = 0
          \/ code[i] = GenP!with_imm("mov_eax_imm", 1)
          \/ \E j \in DOMAIN code : Defined(code[i].label) = {j}
      BY <2>1, SameTree, GenP!LinkedCode DEF Defined
    <2>3. GenP!with_imm("mov_eax_imm", 1) = exit_number
      BY DEF exit_number, Gen!with_imm, Gen!line, GenP!with_imm, GenP!line
    <2>4. \A j : Cardinality({j}) = 1
      BY FS_Singleton
    <2> QED
      BY <2>2, <2>3, <2>4
  <1> QED
    BY <1>1, InitPInv, NextPInv, PTL DEF Spec
=============================================================================
