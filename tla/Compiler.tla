------------------------------- MODULE Compiler -------------------------------
(***************************************************************************)
(* class Compiler of src/src/arabilis_cpp/backend.cpp: the visitor that    *)
(* writes the macro assembly of a program.                                 *)
(*                                                                         *)
(* work holds what the recursion of the visitor has still to do: visit a   *)
(* node with a Compiler object, resolve a name, or write lines.  A handler *)
(* creates its labels and its child objects before the recursion changes   *)
(* anything they are copied from, so one action creates them all.  A line  *)
(* of output is a record: the macro, its immediate operand and the label   *)
(* it defines or refers to.  A label is its number in next_unique_label    *)
(* (the base 36 rendering is injective), 0 is the empty string.            *)
(***************************************************************************)
EXTENDS Ast, FiniteSetsExt

VARIABLES program,        \* the program that is compiled
          work,           \* sequence of tasks, in the order they run
          compilers,      \* the Compiler objects created so far
          next_unique_id, \* m_next_unique_id, shared by all objects
          code,           \* the lines written so far
          outcome         \* "compiling", "done" or "terminate"

vars == <<program, work, compilers, next_unique_id, code, outcome>>

(* The macros that hex_compiler_header defines.                            *)
Macro ==
    {"add_eax_ebx", "add_eax_imm", "add_esp_imm", "and_eax_ebx",
     "call_ref_eax", "cdq", "cmp_eax_ebx", "cmp_eax_imm", "cmp_ebx_imm",
     "idiv_ebx", "imul_eax_ebx", "int_80", "jmp_eax", "mov_eax_ebp",
     "mov_eax_edx", "mov_eax_imm", "mov_eax_ref_eax", "mov_ebp_esp",
     "mov_ebx_eax", "mov_esp_ebp", "mov_ref_eax_ebx", "movzx_eax_al",
     "movzx_ebx_bl", "neg_eax", "not_eax", "or_eax_ebx", "pop_eax",
     "pop_ebp", "pop_ebx", "pop_edx", "push_eax", "push_ebp", "push_ebx",
     "push_edx", "push_imm", "ret", "sete_al", "setg_al", "setge_al",
     "setl_al", "setle_al", "setne_al", "setne_bl", "sub_eax_ebx",
     "xor_eax_ebx", "hop_ne"}

(* Besides macros: the definition of a label, a zero word, a string.       *)
Data == {"define", "word", "data"}

Line == [op: Macro \cup Data, imm: Int, label: Nat]

line(op) == [op |-> op, imm |-> 0, label |-> 0]
with_imm(op, imm) == [line(op) EXCEPT !.imm = imm]
with_label(op, label) == [line(op) EXCEPT !.label = label]

lines(ops) == [i \in 1 .. Len(ops) |-> line(ops[i])]
define(label) == with_label("define", label)
jump_to(label) == <<with_label("mov_eax_imm", label), line("jmp_eax")>>
store_label(label) == <<with_label("mov_eax_imm", label), line("mov_ref_eax_ebx")>>
zero_word == line("word")

(* Continue at label unless the value on the stack differs from 0.         *)
branch_if_zero(label) ==
    lines(<<"pop_eax", "cmp_eax_imm", "hop_ne">>) \o jump_to(label)

-----------------------------------------------------------------------------
(* The maps of a Compiler object.                                          *)

Bind(map, name, value) ==
    [n \in DOMAIN map \cup {name} |-> IF n = name THEN value ELSE map[n]]

Nothing == [n \in {} |-> 0]

(* Mutant: below the highest variable instead of the lowest.               *)
next_local_offset_max(localvars) ==
    Max({0} \cup {localvars[n] : n \in DOMAIN localvars}) - 4

next_local_offset(localvars) ==
    Min({0} \cup {localvars[n] : n \in DOMAIN localvars}) - 4

positions(arguments, name) == {i \in DOMAIN arguments : arguments[i] = name}

(* Arguments are pushed right to left above the return address and the     *)
(* saved ebp; of two with the same name the later one stays in the map.    *)
argument_offsets(arguments) ==
    [n \in {arguments[i] : i \in DOMAIN arguments} |->
        4 + 4 * Max(positions(arguments, n))]

-----------------------------------------------------------------------------
(* Tasks.                                                                  *)

emit(out) == <<[task |-> "emit", out |-> out]>>
address_of(name, c) == <<[task |-> "address_of", name |-> name, compiler |-> c]>>
visit(node, c) == <<[task |-> "visit", node |-> node, compiler |-> c]>>
visit_all(nodes, c) ==
    [i \in 1 .. Len(nodes) |-> [task |-> "visit", node |-> nodes[i], compiler |-> c]]
visit_reversed(nodes, c) ==
    [i \in 1 .. Len(nodes) |-> visit_all(nodes, c)[Len(nodes) + 1 - i]]

task == Head(work)
node == task.node
self == task.compiler
this == compilers[self]
inner == Len(compilers) + 1
label(i) == next_unique_id + i

Running(kind) == outcome = "compiling" /\ work # <<>> /\ task.task = kind

Visiting(kinds) == Running("visit") /\ node.kind \in kinds

Expand(tasks, compilers2, new_labels) ==
    /\ work' = tasks \o Tail(work)
    /\ compilers' = compilers2
    /\ next_unique_id' = next_unique_id + new_labels
    /\ UNCHANGED <<program, code, outcome>>

Perform(tasks) == Expand(tasks, compilers, 0)

Write(out) == code' = code \o out

Emit ==
    /\ Running("emit")
    /\ Write(task.out)
    /\ work' = Tail(work)
    /\ UNCHANGED <<program, compilers, next_unique_id, outcome>>

(* Globals first.  An unknown name makes map::at throw in a noexcept       *)
(* function: std::terminate.                                               *)
AddressOf ==
    /\ Running("address_of")
    /\ \/ /\ task.name \in DOMAIN this.globalvars
          /\ Write(<<with_label("mov_eax_imm", this.globalvars[task.name])>>)
          /\ work' = Tail(work)
          /\ UNCHANGED outcome
       \/ /\ task.name \in DOMAIN this.localvars \ DOMAIN this.globalvars
          /\ Write(<<line("mov_eax_ebp"),
                     with_imm("add_eax_imm", this.localvars[task.name])>>)
          /\ work' = Tail(work)
          /\ UNCHANGED outcome
       \/ /\ task.name \notin DOMAIN this.localvars \cup DOMAIN this.globalvars
          /\ outcome' = "terminate"
          /\ UNCHANGED <<code, work>>
    /\ UNCHANGED <<program, compilers, next_unique_id>>

-----------------------------------------------------------------------------
(* Expressions leave their value on the stack.                             *)

VisitAddressOf ==
    /\ Visiting({"AddressOf"})
    /\ Perform(address_of(node.name, self) \o emit(lines(<<"push_eax">>)))

VisitVariable ==
    /\ Visiting({"Variable"})
    /\ Perform(address_of(node.name, self) \o emit(lines(<<"mov_eax_ref_eax", "push_eax">>)))

VisitNumeral ==
    /\ Visiting({"Numeral"})
    /\ Perform(emit(<<with_imm("push_imm", node.number)>>))

(* The bytes of the string lie in the code and are jumped over.            *)
VisitString ==
    /\ Visiting({"String"})
    /\ LET data_begin == label(1)
           data_end == label(2)
       IN Expand(emit(jump_to(data_end)
                        \o <<define(data_begin), line("data"), define(data_end),
                             with_label("push_imm", data_begin)>>),
                 compilers, 2)

comparison(setcc) == lines(<<"cmp_eax_ebx", setcc, "movzx_eax_al">>)

as_boolean == <<"cmp_eax_imm", "setne_al", "movzx_eax_al",
                "cmp_ebx_imm", "setne_bl", "movzx_ebx_bl">>

operation ==
    [plus |-> lines(<<"add_eax_ebx">>),
     minus |-> lines(<<"sub_eax_ebx">>),
     multiply |-> lines(<<"imul_eax_ebx">>),
     divide |-> lines(<<"push_edx", "cdq", "idiv_ebx", "pop_edx">>),
     modulo |-> lines(<<"push_edx", "cdq", "idiv_ebx", "mov_eax_edx", "pop_edx">>),
     log_and |-> lines(as_boolean \o <<"and_eax_ebx">>),
     log_or |-> lines(as_boolean \o <<"or_eax_ebx">>),
     bit_and |-> lines(<<"and_eax_ebx">>),
     bit_or |-> lines(<<"or_eax_ebx">>),
     bit_xor |-> lines(<<"xor_eax_ebx">>),
     equal |-> comparison("sete_al"),
     notequal |-> comparison("setne_al"),
     less |-> comparison("setl_al"),
     lessequal |-> comparison("setle_al"),
     greater |-> comparison("setg_al"),
     greaterequal |-> comparison("setge_al")]

VisitBinOp ==
    /\ Visiting({"BinOp"})
    /\ Perform(emit(lines(<<"push_ebx">>))
            \o visit(node.lhs, self) \o visit(node.rhs, self)
            \o emit(lines(<<"pop_ebx", "pop_eax">>) \o operation[node.token]
                      \o lines(<<"pop_ebx", "push_eax">>)))

unary_operation ==
    [plus |-> <<>>, minus |-> lines(<<"neg_eax">>), bit_not |-> lines(<<"not_eax">>),
     log_not |-> lines(<<"cmp_eax_imm", "sete_al", "movzx_eax_al">>)]

VisitUnOp ==
    /\ Visiting({"UnOp"})
    /\ Perform(visit(node.rhs, self)
            \o emit(lines(<<"pop_eax">>) \o unary_operation[node.token]
                      \o lines(<<"push_eax">>)))

(* Mutant: pushes the first argument first.                                *)
VisitCallLeftToRight ==
    /\ Visiting({"Call"})
    /\ Perform(visit_all(node.arguments, self)
            \o address_of(node.name, self)
            \o emit(<<line("call_ref_eax"),
                      with_imm("add_esp_imm", 4 * Len(node.arguments)),
                      line("push_eax")>>))

VisitCall ==
    /\ Visiting({"Call"})
    /\ Perform(visit_reversed(node.arguments, self)
            \o address_of(node.name, self)
            \o emit(<<line("call_ref_eax"),
                      with_imm("add_esp_imm", 4 * Len(node.arguments)),
                      line("push_eax")>>))

-----------------------------------------------------------------------------
(* Statements.                                                             *)

(* Evaluate e with compiler c and store its value in the variable name as  *)
(* compiler d knows it.                                                    *)
assign(e, c, name, d) ==
    emit(lines(<<"push_ebx">>)) \o visit(e, c) \o emit(lines(<<"pop_ebx">>))
      \o address_of(name, d) \o emit(lines(<<"mov_ref_eax_ebx", "pop_ebx">>))

VisitExpressionStatement ==
    /\ Visiting({"ExpressionStatement"})
    /\ Perform(visit(node.expression, self) \o emit(lines(<<"pop_eax">>)))

VisitLet ==
    /\ Visiting({"Let"})
    /\ Perform(assign(node.expression, self, node.name, self))

(* Mutant: no room on the stack for the variable.                          *)
VisitVarUnallocated ==
    /\ Visiting({"Var"})
    /\ LET offset == next_local_offset(this.localvars)
       IN Expand(assign(node.expression, self, node.name, self),
                 [compilers EXCEPT ![self].localvars = Bind(@, node.name, offset)],
                 0)

VisitVar ==
    /\ Visiting({"Var"})
    /\ LET offset == next_local_offset(this.localvars)
       IN Expand(emit(<<with_imm("push_imm", 0)>>)
                   \o assign(node.expression, self, node.name, self),
                 [compilers EXCEPT ![self].localvars = Bind(@, node.name, offset)],
                 0)

VisitReturn ==
    /\ Visiting({"Return"})
    /\ Perform(visit(node.expression, self) \o emit(jump_to(this.return_label)))

VisitBreak ==
    /\ Visiting({"Break"})
    /\ Perform(emit(jump_to(this.break_label)))

VisitContinue ==
    /\ Visiting({"Continue"})
    /\ Perform(emit(jump_to(this.continue_label)))

(* Mutant: the branches of an if lose the labels of the loop around it.    *)
VisitIfForgetsLoop ==
    /\ Visiting({"If"})
    /\ LET branch == [this EXCEPT !.break_label = 0, !.continue_label = 0]
       IN Expand(visit(node.condition, self)
                   \o emit(branch_if_zero(label(1)))
                   \o visit_all(node.then_statements, inner)
                   \o emit(jump_to(label(2)) \o <<define(label(1))>>)
                   \o visit_all(node.else_statements, inner + 1)
                   \o emit(<<define(label(2))>>),
                 compilers \o <<branch, branch>>, 2)

VisitIf ==
    /\ Visiting({"If"})
    /\ LET else_begin == label(1)
           if_end == label(2)
       IN Expand(visit(node.condition, self)
                   \o emit(branch_if_zero(else_begin))
                   \o visit_all(node.then_statements, inner)
                   \o emit(jump_to(if_end) \o <<define(else_begin)>>)
                   \o visit_all(node.else_statements, inner + 1)
                   \o emit(<<define(if_end)>>),
                 compilers \o <<this, this>>, 2)

with_break_continue_label(break_label, continue_label) ==
    [this EXCEPT !.break_label = break_label, !.continue_label = continue_label]

(* Mutant: the copy for the body is used, but never made.                  *)
VisitWhileNoScope ==
    /\ Visiting({"While"})
    /\ Expand(visit(node.condition, self) \o visit_all(node.statements, inner),
              compilers, 2)

(* Mutant: the labels of the loop are not counted.                         *)
VisitWhileReuse ==
    /\ Visiting({"While"})
    /\ LET while_begin == label(1)
           while_end == label(2)
       IN Expand(emit(<<define(while_begin)>>)
                   \o visit(node.condition, self)
                   \o emit(branch_if_zero(while_end))
                   \o visit_all(node.statements, inner)
                   \o emit(jump_to(while_begin) \o <<define(while_end)>>),
                 Append(compilers, with_break_continue_label(while_end, while_begin)),
                 0)

VisitWhile ==
    /\ Visiting({"While"})
    /\ LET while_begin == label(1)
           while_end == label(2)
       IN Expand(emit(<<define(while_begin)>>)
                   \o visit(node.condition, self)
                   \o emit(branch_if_zero(while_end))
                   \o visit_all(node.statements, inner)
                   \o emit(jump_to(while_begin) \o <<define(while_end)>>),
                 Append(compilers, with_break_continue_label(while_end, while_begin)),
                 2)

(* Mutant: "continue" goes to the condition instead of the update.         *)
VisitForContinueAtBegin ==
    /\ Visiting({"For"})
    /\ LET body == with_break_continue_label(label(3), label(1))
           offset == next_local_offset(this.localvars)
       IN Expand(emit(<<with_imm("push_imm", 0)>>)
                   \o assign(node.initial, self, node.name, inner)
                   \o emit(<<define(label(1))>>)
                   \o visit(node.condition, inner)
                   \o emit(branch_if_zero(label(3)))
                   \o visit_all(node.statements, inner)
                   \o assign(node.update, inner, node.name, inner)
                   \o emit(jump_to(label(1)) \o <<define(label(3)), line("pop_eax")>>),
                 Append(compilers,
                        [body EXCEPT !.localvars = Bind(@, node.name, offset)]),
                 3)

VisitFor ==
    /\ Visiting({"For"})
    /\ LET for_begin == label(1)
           for_continue == label(2)
           for_end == label(3)
           body == with_break_continue_label(for_end, for_continue)
           offset == next_local_offset(this.localvars)
       IN Expand(emit(<<with_imm("push_imm", 0)>>)
                   \o assign(node.initial, self, node.name, inner)
                   \o emit(<<define(for_begin)>>)
                   \o visit(node.condition, inner)
                   \o emit(branch_if_zero(for_end))
                   \o visit_all(node.statements, inner)
                   \o emit(<<define(for_continue)>>)
                   \o assign(node.update, inner, node.name, inner)
                   \o emit(jump_to(for_begin) \o <<define(for_end), line("pop_eax")>>),
                 Append(compilers,
                        [body EXCEPT !.localvars = Bind(@, node.name, offset)]),
                 3)

-----------------------------------------------------------------------------
(* Globals and functions.                                                  *)

VisitGlobalVar ==
    /\ Visiting({"GlobalVar"})
    /\ LET var_begin == label(1)
           var_end == label(2)
       IN Expand(emit(jump_to(var_end)
                        \o <<define(var_begin), zero_word, define(var_end)>>)
                   \o visit(node.value, self)
                   \o emit(lines(<<"pop_ebx">>) \o store_label(var_begin)),
                 [compilers EXCEPT ![self].globalvars = Bind(@, node.name, var_begin)],
                 2)

(* Mutant: the epilogue leaves the variables of the function on the stack. *)
VisitFunctionKeepsLocals ==
    /\ Visiting({"Function"})
    /\ LET outer == [this EXCEPT !.globalvars = Bind(@, node.name, label(1)),
                                 !.localvars = argument_offsets(node.arguments)]
       IN Expand(emit(jump_to(label(2))
                        \o <<define(label(1)), zero_word, define(label(3))>>
                        \o lines(<<"push_ebp", "mov_ebp_esp">>))
                   \o visit_all(node.statements, inner)
                   \o emit(<<with_imm("push_imm", 0), define(label(4))>>
                             \o lines(<<"pop_eax", "pop_ebp", "ret">>)
                             \o <<define(label(2)), with_label("mov_eax_imm", label(3)),
                                  line("mov_ebx_eax")>>
                             \o store_label(label(1))),
                 Append([compilers EXCEPT ![self] = outer],
                        [outer EXCEPT !.return_label = label(4)]),
                 4)

(* A function is called through the word at its begin label, which the     *)
(* code after its body fills in.                                           *)
VisitFunction ==
    /\ Visiting({"Function"})
    /\ LET fun_begin == label(1)
           fun_end == label(2)
           fun_entry == label(3)
           fun_return == label(4)
           outer == [this EXCEPT !.globalvars = Bind(@, node.name, fun_begin),
                                 !.localvars = argument_offsets(node.arguments)]
       IN Expand(emit(jump_to(fun_end)
                        \o <<define(fun_begin), zero_word, define(fun_entry)>>
                        \o lines(<<"push_ebp", "mov_ebp_esp">>))
                   \o visit_all(node.statements, inner)
                   \o emit(<<with_imm("push_imm", 0), define(fun_return)>>
                             \o lines(<<"pop_eax", "mov_esp_ebp", "pop_ebp", "ret">>)
                             \o <<define(fun_end), with_label("mov_eax_imm", fun_entry),
                                  line("mov_ebx_eax")>>
                             \o store_label(fun_begin)),
                 Append([compilers EXCEPT ![self] = outer],
                        [outer EXCEPT !.return_label = fun_return]),
                 4)

(* The end of the handler of Program: call main and pass its value to the  *)
(* exit system call.  operator[] yields the empty label for a missing main.*)
VisitProgramEnd ==
    /\ outcome = "compiling"
    /\ work = <<>>
    /\ LET globalvars == compilers[1].globalvars
           main == IF "main" \in DOMAIN globalvars THEN globalvars["main"] ELSE 0
       IN Write(<<with_label("mov_eax_imm", main)>>
                  \o lines(<<"call_ref_eax", "mov_ebx_eax">>)
                  \o <<with_imm("mov_eax_imm", 1), line("int_80")>>)
    /\ outcome' = "done"
    /\ UNCHANGED <<program, work, compilers, next_unique_id>>

-----------------------------------------------------------------------------
Start ==
    /\ work = visit_all(program.globalvars, 1) \o visit_all(program.functions, 1)
    /\ compilers = <<[globalvars |-> Nothing, localvars |-> Nothing,
                      return_label |-> 0, break_label |-> 0, continue_label |-> 0]>>
    /\ next_unique_id = 0
    /\ code = <<>>
    /\ outcome = "compiling"

Init == program \in Program /\ Start

Next ==
    \/ Emit
    \/ AddressOf
    \/ VisitAddressOf
    \/ VisitVariable
    \/ VisitNumeral
    \/ VisitString
    \/ VisitBinOp
    \/ VisitUnOp
    \/ VisitCall
    \/ VisitExpressionStatement
    \/ VisitLet
    \/ VisitVar
    \/ VisitReturn
    \/ VisitBreak
    \/ VisitContinue
    \/ VisitIf
    \/ VisitWhile
    \/ VisitFor
    \/ VisitGlobalVar
    \/ VisitFunction
    \/ VisitProgramEnd

Spec == Init /\ [][Next]_vars

-----------------------------------------------------------------------------
IsPartialMap(map, S) == DOMAIN map \subseteq Name /\ map \in [DOMAIN map -> S]

IsCompilerObject(c) ==
    /\ DOMAIN c = {"globalvars", "localvars", "return_label", "break_label",
                   "continue_label"}
    /\ IsPartialMap(c.globalvars, Nat) /\ IsPartialMap(c.localvars, Int)
    /\ {c.return_label, c.break_label, c.continue_label} \subseteq Nat

Task ==
    [task: {"emit"}, out: Seq(Line)]
      \cup [task: {"address_of"}, name: Name, compiler: Nat \ {0}]
      \cup [task: {"visit"}, node: GlobalVar \cup Function \cup Stmt \cup Expr,
            compiler: Nat \ {0}]

(* Every task refers to a Compiler object that exists.                     *)
TypeOK ==
    /\ work \in Seq(Task)
    /\ \A c \in DOMAIN compilers : IsCompilerObject(compilers[c])
    /\ \A i \in DOMAIN work :
          work[i].task # "emit" => work[i].compiler \in DOMAIN compilers
    /\ next_unique_id \in Nat
    /\ code \in Seq(Line)
    /\ outcome \in {"compiling", "done", "terminate"}

(* The variables of one object occupy words of the frame that do not       *)
(* overlap each other, nor the saved ebp and the return address at offsets *)
(* 0 to 7.                                                                 *)
FrameLayout ==
    \A c \in DOMAIN compilers :
        LET localvars == compilers[c].localvars
        IN /\ \A n \in DOMAIN localvars : localvars[n] <= -4 \/ localvars[n] >= 8
           /\ \A m, n \in DOMAIN localvars :
                 m # n => \/ localvars[m] - localvars[n] >= 4
                          \/ localvars[n] - localvars[m] >= 4

(* No label is ever defined twice: every handler uses labels of its own,   *)
(* whatever the recursion of the visitor does between taking a label and   *)
(* defining it.                                                            *)
DefinedOnce ==
    \A i, j \in DOMAIN code :
        code[i].op = "define" /\ code[j].op = "define" /\ code[i].label = code[j].label
            => i = j
=============================================================================
