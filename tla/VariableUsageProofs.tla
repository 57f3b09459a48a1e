------------------------- MODULE VariableUsageProofs -------------------------
(***************************************************************************)
(* Proofs about VariableUsage, for every set of programs.                  *)
(*                                                                         *)
(* First its types, and that no local shadows a global.  NoShadowing is    *)
(* not inductive: a global variable visited while the locals of a function *)
(* are still in place would break it.  GlobalsFirst says why that does not *)
(* happen.                                                                 *)
(*                                                                         *)
(* Then its verdict, which is that of the rules in Scoping.  The invariant *)
(* VInv says of a check that is still under way that the program obeys the *)
(* rules if and only if every task in todo does, in the scope that its     *)
(* object will have when its turn comes.                                   *)
(***************************************************************************)
EXTENDS VariableUsage, ScopingProofs, SequenceTheorems

IsGlobalVar(i) == todo[i].node.kind = "GlobalVar"

GlobalsFirst ==
    \A i \in DOMAIN todo :
        IsGlobalVar(i) =>
            /\ todo[i].visitor = 1
            /\ visitors[1].locals = {}
            /\ \A j \in 1 .. i : IsGlobalVar(j)

IInv == program \in Program /\ TypeOK /\ NoShadowing /\ GlobalsFirst

-----------------------------------------------------------------------------
(* The kinds of the nodes: a statement is never a global variable.         *)
LEMMA StmtKind ==
    ASSUME NEW s \in Stmt
    PROVE  s.kind \notin {"GlobalVar", "Function"}
  BY AstAssumption, Zenon DEF Statement

(* The tasks of the statements of a block.                                 *)
LEMMA VisitStatements ==
    ASSUME NEW nodes \in Seq(Stmt), NEW v \in Nat \ {0}
    PROVE  /\ visit(nodes, v) \in Seq(Task)
           /\ \A i \in DOMAIN visit(nodes, v) :
                 /\ visit(nodes, v)[i].visitor = v
                 /\ visit(nodes, v)[i].node.kind # "GlobalVar"
  <1> DEFINE tasks == visit(nodes, v)
  <1>1. \A i \in 1 .. Len(nodes) : nodes[i] \in Stmt
    OBVIOUS
  <1>2. /\ tasks = [i \in 1 .. Len(nodes) |-> [node |-> nodes[i], visitor |-> v]]
        /\ DOMAIN tasks = 1 .. Len(nodes)
        /\ Len(nodes) \in Nat
    BY DEF visit
  <1> HIDE DEF tasks
  <1>3. \A i \in 1 .. Len(nodes) :
           /\ tasks[i] = [node |-> nodes[i], visitor |-> v]
           /\ tasks[i].node = nodes[i]
           /\ tasks[i].visitor = v
    BY <1>2
  <1>4. \A i \in 1 .. Len(nodes) : [node |-> nodes[i], visitor |-> v] \in Task
    BY <1>1 DEF Task
  <1>5. tasks \in [1 .. Len(nodes) -> Task]
    BY <1>2, <1>4
  <1>6. tasks \in Seq(Task)
    BY <1>2, <1>5, SeqDef, Zenon
  <1>7. \A i \in 1 .. Len(nodes) : tasks[i].node.kind # "GlobalVar"
    BY <1>1, <1>3, StmtKind, Zenon
  <1>. QED
    BY <1>2, <1>3, <1>6, <1>7, Zenon DEF tasks

(* What every handler but that of a global variable relies on: it leaves   *)
(* no global variable to be visited.                                       *)
LEMMA ContinuePreserves ==
    ASSUME IInv, todo # <<>>, ~IsGlobalVar(1),
           NEW visitors2 \in Seq(Visitor),
           Len(visitors) <= Len(visitors2),
           \A i \in DOMAIN visitors2 : visitors2[i].globals \cap visitors2[i].locals = {},
           NEW nodes \in Seq(Task),
           \A i \in DOMAIN nodes : /\ nodes[i].visitor \in DOMAIN visitors2
                                   /\ nodes[i].node.kind # "GlobalVar",
           Continue(visitors2, nodes)
    PROVE  IInv'
  <1>1. /\ todo' = nodes \o Tail(todo) /\ visitors' = visitors2
        /\ program' = program /\ verdict' = verdict
    BY DEF Continue
  <1>2. /\ todo \in Seq(Task) /\ Len(todo) > 0 /\ visitors \in Seq(Visitor)
        /\ \A i \in DOMAIN todo : todo[i].visitor \in DOMAIN visitors
    BY DEF IInv, TypeOK
  <1>3. \A i \in DOMAIN todo : todo[i].node.kind # "GlobalVar"
    BY <1>2 DEF IInv, GlobalsFirst, IsGlobalVar
  <1>4. Tail(todo) \in Seq(Task) /\ Len(Tail(todo)) = Len(todo) - 1
    BY <1>2
  <1>5. \A i \in 1 .. Len(Tail(todo)) :
           Tail(todo)[i] = todo[i + 1] /\ i + 1 \in DOMAIN todo
    BY <1>2
  <1>6. todo' \in Seq(Task)
    BY <1>1, <1>4
  <1>7. \A i \in DOMAIN todo' : /\ todo'[i].visitor \in DOMAIN visitors2
                                /\ todo'[i].node.kind # "GlobalVar"
    <2> TAKE i \in DOMAIN todo'
    <2>1. CASE i \in DOMAIN nodes
      BY <2>1, <1>1, <1>4
    <2>2. CASE i \notin DOMAIN nodes
      <3>1. i - Len(nodes) \in 1 .. Len(Tail(todo))
        BY <2>2, <1>1, <1>4
      <3>2. todo'[i] = Tail(todo)[i - Len(nodes)]
        BY <2>2, <3>1, <1>1, <1>4
      <3> QED
        BY <3>1, <3>2, <1>2, <1>3, <1>5
    <2> QED
      BY <2>1, <2>2
  <1>8. TypeOK' /\ NoShadowing' /\ GlobalsFirst'
    BY <1>1, <1>6, <1>7 DEF IInv, TypeOK, NoShadowing, GlobalsFirst, IsGlobalVar
  <1>. QED
    BY <1>1, <1>8 DEF IInv

LEMMA InitIInv ==
    Init => IInv
  <1> SUFFICES ASSUME Init PROVE IInv
    OBVIOUS
  <1>1. /\ program \in Program
        /\ program.globalvars \in Seq(GlobalVar)
        /\ program.functions \in Seq(Function)
    BY AstAssumption DEF Init
  <1> DEFINE gs == visit(program.globalvars, 1)
             fs == visit(program.functions, 1)
  <1>2. /\ gs \in Seq(Task) /\ fs \in Seq(Task)
        /\ \A i \in DOMAIN gs : gs[i].visitor = 1 /\ gs[i].node.kind = "GlobalVar"
        /\ \A i \in DOMAIN fs : fs[i].visitor = 1 /\ fs[i].node.kind = "Function"
    <2>1. /\ \A i \in 1 .. Len(program.globalvars) : program.globalvars[i] \in GlobalVar
          /\ \A i \in 1 .. Len(program.functions) : program.functions[i] \in Function
      BY <1>1
    <2>2. /\ gs \in [1 .. Len(program.globalvars) -> Task]
          /\ fs \in [1 .. Len(program.functions) -> Task]
      BY <2>1 DEF visit, Task
    <2>3. gs \in Seq(Task) /\ fs \in Seq(Task)
      <3> HIDE DEF gs, fs
      <3>1. Len(program.globalvars) \in Nat /\ Len(program.functions) \in Nat
        BY <1>1, LenProperties
      <3> QED
        BY <2>2, <3>1, SeqDef
    <2>4. \A i \in DOMAIN gs : gs[i].visitor = 1 /\ gs[i].node.kind = "GlobalVar"
      <3>1. \A x \in GlobalVar : x.kind = "GlobalVar"
        BY DEF GlobalVar
      <3> QED
        BY <2>1, <3>1 DEF visit
    <2>5. \A i \in DOMAIN fs : fs[i].visitor = 1 /\ fs[i].node.kind = "Function"
      <3>1. \A x \in Function : x.kind = "Function"
        BY DEF Function
      <3> QED
        BY <2>1, <3>1 DEF visit
    <2> QED
      BY <2>3, <2>4, <2>5
  <1>3. /\ todo = gs \o fs
        /\ visitors = <<[globals |-> {}, locals |-> {}, inside_loop |-> FALSE]>>
        /\ verdict = "checking"
    BY DEF Init
  <1> HIDE DEF gs, fs
  <1>4. /\ todo \in Seq(Task)
        /\ \A i \in DOMAIN gs : todo[i] = gs[i]
        /\ \A i \in DOMAIN todo : i \notin DOMAIN gs =>
              i - Len(gs) \in DOMAIN fs /\ todo[i] = fs[i - Len(gs)]
    BY <1>2, <1>3
  <1>5. visitors \in Seq(Visitor) /\ visitors[1].locals = {} /\ DOMAIN visitors = {1}
    BY <1>3 DEF Visitor
  <1>6. \A i \in DOMAIN todo : /\ todo[i].visitor = 1
                               /\ IsGlobalVar(i) <=> i \in DOMAIN gs
    BY <1>2, <1>4 DEF IsGlobalVar
  <1>7. TypeOK
    BY <1>3, <1>4, <1>5, <1>6 DEF TypeOK
  <1>8. NoShadowing
    BY <1>3 DEF NoShadowing
  <1>9. GlobalsFirst
    <2> SUFFICES ASSUME NEW i \in DOMAIN todo, IsGlobalVar(i)
                 PROVE  \A j \in 1 .. i : IsGlobalVar(j)
      BY <1>5, <1>6, Zenon DEF GlobalsFirst
    <2>1. /\ DOMAIN gs = 1 .. Len(gs) /\ Len(gs) \in Nat
          /\ DOMAIN todo = 1 .. Len(todo) /\ Len(todo) \in Nat
      BY <1>2, <1>4, LenProperties
    <2>2. i \in 1 .. Len(gs)
      BY <1>6, <2>1
    <2>3. \A j \in 1 .. i : j \in 1 .. Len(gs) /\ j \in 1 .. Len(todo)
      BY <2>1, <2>2
    <2> QED
      BY <1>6, <2>1, <2>3
  <1>. QED
    BY <1>1, <1>7, <1>8, <1>9 DEF IInv

LEMMA Exit1Preserves ==
    ASSUME IInv, Exit1
    PROVE  IInv'
  BY DEF IInv, Exit1, TypeOK, NoShadowing, GlobalsFirst, IsGlobalVar

(* Facts about the node at the head of the list and its visitor.           *)
LEMMA Heads ==
    ASSUME IInv, todo # <<>>
    PROVE  /\ Head(todo) = todo[1] /\ 1 \in DOMAIN todo
           /\ node \in GlobalVar \cup Function \cup Stmt
           /\ Head(todo).visitor \in Nat \ {0}
           /\ Head(todo).visitor \in DOMAIN visitors
           /\ this \in Visitor
           /\ this.globals \cap this.locals = {}
           /\ visitors \in Seq(Visitor)
           /\ Len(visitors) \in Nat /\ DOMAIN visitors = 1 .. Len(visitors)
  <1>1. /\ todo \in Seq(Task) /\ visitors \in Seq(Visitor)
        /\ \A i \in DOMAIN todo : todo[i].visitor \in DOMAIN visitors
    BY DEF IInv, TypeOK
  <1>2. Head(todo) = todo[1] /\ 1 \in DOMAIN todo /\ todo[1] \in Task
    BY <1>1
  <1>3. Head(todo).visitor \in DOMAIN visitors
    BY <1>1, <1>2
  <1>4. this \in Visitor /\ this.globals \cap this.locals = {}
    BY <1>1, <1>3 DEF this, IInv, NoShadowing
  <1> QED
    BY <1>1, <1>2, <1>3, <1>4, LenProperties DEF node, Task

(* The kind at the head picks the class of the node.                       *)
LEMMA StatementFields ==
    ASSUME IInv, todo # <<>>
    PROVE  /\ node.kind = "GlobalVar" => node \in GlobalVar
           /\ node.kind = "Function" => node \in Function
           /\ node.kind \in {"Var", "For"} => node.name \in Name
           /\ node.kind \in {"While", "For"} => node.statements \in Seq(Stmt)
           /\ node.kind = "If" => /\ node.then_statements \in Seq(Stmt)
                                  /\ node.else_statements \in Seq(Stmt)
  <1>1. node \in GlobalVar \cup Function \cup Stmt
    BY Heads
  <1>2. CASE node \in GlobalVar
    BY <1>2 DEF GlobalVar
  <1>3. CASE node \in Function
    BY <1>3 DEF Function
  <1>4. CASE node \in Stmt
    <2>1. node \in Statement(Expr, Stmt)
      BY <1>4, AstAssumption
    <2> QED
      BY <2>1 DEF Statement
  <1> QED
    BY <1>1, <1>2, <1>3, <1>4

(* Replacing one object keeps the sequence of objects well formed.         *)
LEMMA UpdateOK ==
    ASSUME IInv, todo # <<>>, NEW v \in Visitor, v.globals \cap v.locals = {}
    PROVE  /\ Update(v) \in Seq(Visitor)
           /\ Len(Update(v)) = Len(visitors)
           /\ DOMAIN Update(v) = DOMAIN visitors
           /\ \A i \in DOMAIN Update(v) :
                 Update(v)[i].globals \cap Update(v)[i].locals = {}
  <1> DEFINE h == Head(todo).visitor
  <1>1. visitors \in Seq(Visitor) /\ h \in DOMAIN visitors
    BY Heads
  <1>2. \A i \in DOMAIN visitors : visitors[i].globals \cap visitors[i].locals = {}
    BY DEF IInv, NoShadowing
  <1>3. Update(v) = [visitors EXCEPT ![h] = v]
    BY DEF Update
  <1> HIDE DEF h
  <1>4. \A i \in DOMAIN visitors : Update(v)[i] = IF i = h THEN v ELSE visitors[i]
    BY <1>1, <1>3
  <1>5. /\ Update(v) \in Seq(Visitor) /\ Len(Update(v)) = Len(visitors)
        /\ DOMAIN Update(v) = DOMAIN visitors
    BY <1>1, <1>3
  <1> QED
    BY <1>2, <1>4, <1>5

(* Every handler preserves the invariant, whether its checks hold or not.  *)
LEMMA HandlePreserves ==
    ASSUME IInv, todo # <<>>, ~IsGlobalVar(1),
           NEW ok, NEW visitors2, NEW nodes,
           ok \in BOOLEAN,
           ok => /\ visitors2 \in Seq(Visitor)
                 /\ Len(visitors) <= Len(visitors2)
                 /\ \A i \in DOMAIN visitors2 :
                       visitors2[i].globals \cap visitors2[i].locals = {}
                 /\ nodes \in Seq(Task)
                 /\ \A i \in DOMAIN nodes :
                       /\ nodes[i].visitor \in DOMAIN visitors2
                       /\ nodes[i].node.kind # "GlobalVar",
           Handle(ok, visitors2, nodes)
    PROVE  IInv'
  <1>1. CASE ok /\ Continue(visitors2, nodes)
    BY <1>1, ContinuePreserves
  <1>2. CASE Exit1
    BY <1>2, Exit1Preserves
  <1> QED
    BY <1>1, <1>2 DEF Handle

LEMMA GlobalVarPreserves ==
    ASSUME IInv, VisitGlobalVar
    PROVE  IInv'
  <1>1. todo # <<>> /\ node.kind = "GlobalVar" /\ node \in GlobalVar
    BY StatementFields DEF VisitGlobalVar, Visiting
  <1> DEFINE v == [this EXCEPT !.globals = @ \cup {node.name}]
  <1>2. /\ Head(todo).visitor = 1 /\ this.locals = {}
    BY <1>1, Heads DEF node, this, IInv, GlobalsFirst, IsGlobalVar
  <1>3. /\ v \in Visitor /\ v.locals = {} /\ v.globals \cap v.locals = {}
    BY <1>1, <1>2, Heads DEF Visitor, GlobalVar
  <1>4. CASE Continue(Update(v), <<>>)
    <2> HIDE DEF v
    <2>1. /\ todo' = Tail(todo) /\ visitors' = Update(v)
          /\ program' = program /\ verdict' = verdict
      BY <1>4, <1>1, EmptySeq DEF Continue, IInv, TypeOK
    <2>2. /\ todo' \in Seq(Task) /\ Len(todo') = Len(todo) - 1
          /\ DOMAIN todo' = 1 .. Len(todo')
          /\ \A i \in DOMAIN todo' : todo'[i] = todo[i + 1] /\ i + 1 \in DOMAIN todo
      BY <2>1, <1>1 DEF IInv, TypeOK
    <2>3. /\ visitors' \in Seq(Visitor) /\ DOMAIN visitors' = DOMAIN visitors
          /\ \A i \in DOMAIN visitors' :
                visitors'[i].globals \cap visitors'[i].locals = {}
      BY <1>1, <1>3, <2>1, UpdateOK
    <2>4. visitors'[1].locals = {}
      BY <1>1, <1>2, <1>3, <2>1, Heads DEF Update
    <2>5. TypeOK' /\ NoShadowing'
      BY <2>1, <2>2, <2>3 DEF IInv, TypeOK, NoShadowing
    <2>6. GlobalsFirst'
      <3> SUFFICES ASSUME NEW i \in DOMAIN todo', IsGlobalVar(i)'
                   PROVE  todo'[i].visitor = 1 /\ \A j \in 1 .. i : IsGlobalVar(j)'
        BY <2>4 DEF GlobalsFirst
      <3>1. i + 1 \in DOMAIN todo /\ IsGlobalVar(i + 1)
        BY <2>2 DEF IsGlobalVar
      <3>2. /\ todo[i + 1].visitor = 1
            /\ \A j \in 1 .. i + 1 : IsGlobalVar(j)
        BY <3>1 DEF IInv, GlobalsFirst
      <3>3. \A j \in 1 .. i : j \in DOMAIN todo' /\ j + 1 \in 1 .. i + 1
        BY <2>2
      <3> QED
        BY <2>2, <3>1, <3>2, <3>3 DEF IsGlobalVar
    <2> QED
      BY <2>1, <2>5, <2>6 DEF IInv
  <1>5. CASE Exit1
    BY <1>5, Exit1Preserves
  <1> QED
    BY <1>4, <1>5 DEF VisitGlobalVar, Handle

LEMMA FunctionPreserves ==
    ASSUME IInv, VisitFunction
    PROVE  IInv'
  <1>1. /\ todo # <<>> /\ node.kind = "Function" /\ node \in Function
        /\ ~IsGlobalVar(1)
    BY StatementFields, Heads DEF VisitFunction, Visiting, node, IsGlobalVar
  <1> DEFINE arguments == {node.arguments[i] : i \in DOMAIN node.arguments}
             globals == this.globals \cup {node.name}
             v == [this EXCEPT !.globals = globals, !.locals = arguments]
             ok == /\ node.name \notin this.globals
                   /\ arguments \cap globals = {}
                   /\ \A i, j \in DOMAIN node.arguments :
                         node.arguments[i] = node.arguments[j] => i = j
             nodes == visit(node.statements, Head(todo).visitor)
  <1>2. Handle(ok, Update(v), nodes)
    BY DEF VisitFunction, is_unique_global
  <1>3. /\ node.name \in Name /\ node.arguments \in Seq(Name)
        /\ node.statements \in Seq(Stmt)
    BY <1>1 DEF Function
  <1>4. v \in Visitor /\ (ok => v.globals \cap v.locals = {})
    <2>1. arguments \subseteq Name /\ globals \subseteq Name /\ this \in Visitor
      BY <1>1, <1>3, Heads DEF Visitor
    <2> HIDE DEF arguments, globals
    <2> QED
      BY <2>1 DEF Visitor
  <1>5. /\ nodes \in Seq(Task)
        /\ \A i \in DOMAIN nodes : /\ nodes[i].visitor = Head(todo).visitor
                                   /\ nodes[i].node.kind # "GlobalVar"
    BY <1>1, <1>3, Heads, VisitStatements
  <1> HIDE DEF v, ok, nodes
  <1>6. ok =>
          /\ Update(v) \in Seq(Visitor)
          /\ Len(visitors) <= Len(Update(v))
          /\ DOMAIN Update(v) = DOMAIN visitors
          /\ \A i \in DOMAIN Update(v) :
                Update(v)[i].globals \cap Update(v)[i].locals = {}
    BY <1>1, <1>4, UpdateOK, Heads
  <1>7. ok \in BOOLEAN
    BY DEF ok
  <1> QED
    BY <1>1, <1>2, <1>5, <1>6, <1>7, Heads, HandlePreserves

(* Handlers that have no nested statements.                                *)
LEMMA LeafPreserves ==
    ASSUME IInv, todo # <<>>, ~IsGlobalVar(1), NEW ok \in BOOLEAN,
           NEW visitors2,
           ok => /\ visitors2 \in Seq(Visitor)
                 /\ Len(visitors) <= Len(visitors2)
                 /\ \A i \in DOMAIN visitors2 :
                       visitors2[i].globals \cap visitors2[i].locals = {},
           Handle(ok, visitors2, <<>>)
    PROVE  IInv'
  <1>1. <<>> \in Seq(Task)
    OBVIOUS
  <1>2. \A i \in DOMAIN <<>> : FALSE
    OBVIOUS
  <1>3. CASE ok /\ Continue(visitors2, <<>>)
    <2> DEFINE nodes == <<>>
    <2>1. /\ nodes \in Seq(Task)
          /\ \A i \in DOMAIN nodes : /\ nodes[i].visitor \in DOMAIN visitors2
                                     /\ nodes[i].node.kind # "GlobalVar"
      BY <1>1, <1>2
    <2>2. Continue(visitors2, nodes)
      BY <1>3
    <2> HIDE DEF nodes
    <2> QED
      BY <1>3, <2>1, <2>2, ContinuePreserves
  <1>4. CASE Exit1
    BY <1>4, Exit1Preserves
  <1> QED
    BY <1>3, <1>4 DEF Handle

(* Handlers that leave the objects alone as well.                          *)
LEMMA LookupPreserves ==
    ASSUME IInv, todo # <<>>, ~IsGlobalVar(1), NEW ok \in BOOLEAN,
           Handle(ok, visitors, <<>>)
    PROVE  IInv'
  <1>1. /\ Len(visitors) <= Len(visitors)
        /\ \A i \in DOMAIN visitors : visitors[i].globals \cap visitors[i].locals = {}
    BY Heads DEF IInv, NoShadowing
  <1> QED
    BY <1>1, Heads, LeafPreserves

LEMMA VarPreserves ==
    ASSUME IInv, VisitVar
    PROVE  IInv'
  <1>1. /\ todo # <<>> /\ node.kind = "Var" /\ node.name \in Name
        /\ ~IsGlobalVar(1)
    BY StatementFields, Heads DEF VisitVar, Visiting, node, IsGlobalVar
  <1> DEFINE ok == /\ check_variables(names_in[node.expression], this)
                   /\ is_unique(node.name, this)
             v == add_local(node.name, this)
  <1>2. Handle(ok, Update(v), <<>>) /\ ok \in BOOLEAN
    BY DEF VisitVar, is_unique, check_variables
  <1>3. ok => v \in Visitor /\ v.globals \cap v.locals = {}
    BY <1>1, Heads DEF Visitor, add_local, is_unique
  <1> HIDE DEF v, ok
  <1>4. ok =>
          /\ Update(v) \in Seq(Visitor)
          /\ Len(visitors) <= Len(Update(v))
          /\ DOMAIN Update(v) = DOMAIN visitors
          /\ \A i \in DOMAIN Update(v) :
                Update(v)[i].globals \cap Update(v)[i].locals = {}
    BY <1>1, <1>3, UpdateOK, Heads
  <1> QED
    BY <1>1, <1>2, <1>4, LeafPreserves

(* Handlers that make one copy for a block and visit the block with it.    *)
LEMMA BlockPreserves ==
    ASSUME IInv, todo # <<>>, ~IsGlobalVar(1), NEW ok \in BOOLEAN,
           NEW v, ok => v \in Visitor /\ v.globals \cap v.locals = {},
           NEW statements \in Seq(Stmt),
           Handle(ok, Append(visitors, v), visit(statements, inner))
    PROVE  IInv'
  <1> DEFINE vs == Append(visitors, v)
             nodes == visit(statements, inner)
  <1>1. inner = Len(visitors) + 1 /\ inner \in Nat \ {0}
    BY Heads DEF inner
  <1>2. /\ nodes \in Seq(Task)
        /\ \A i \in DOMAIN nodes : /\ nodes[i].visitor = inner
                                   /\ nodes[i].node.kind # "GlobalVar"
    BY <1>1, VisitStatements
  <1>3. \A i \in DOMAIN visitors : visitors[i].globals \cap visitors[i].locals = {}
    BY DEF IInv, NoShadowing
  <1>4. ok => /\ vs \in Seq(Visitor) /\ Len(vs) = inner /\ DOMAIN vs = 1 .. inner
              /\ \A i \in DOMAIN vs : vs[i].globals \cap vs[i].locals = {}
    <2> SUFFICES ASSUME ok
                 PROVE  /\ vs \in Seq(Visitor) /\ Len(vs) = inner /\ DOMAIN vs = 1 .. inner
                        /\ \A i \in DOMAIN vs : vs[i].globals \cap vs[i].locals = {}
      OBVIOUS
    <2>1. /\ vs \in Seq(Visitor) /\ Len(vs) = inner /\ DOMAIN vs = 1 .. inner
          /\ vs[inner] = v /\ \A i \in DOMAIN visitors : vs[i] = visitors[i]
      BY <1>1, Heads
    <2>2. \A i \in 1 .. inner : i = inner \/ i \in DOMAIN visitors
      BY <1>1, Heads
    <2> QED
      BY <1>3, <2>1, <2>2
  <1> HIDE DEF nodes, vs
  <1>5. ok => /\ vs \in Seq(Visitor) /\ Len(visitors) <= Len(vs)
              /\ inner \in DOMAIN vs
    BY <1>1, <1>4, Heads
  <1>6. Handle(ok, vs, nodes)
    BY DEF vs, nodes
  <1> QED
    BY <1>2, <1>4, <1>5, <1>6, HandlePreserves

LEMMA WhilePreserves ==
    ASSUME IInv, VisitWhile
    PROVE  IInv'
  <1>1. /\ todo # <<>> /\ node.kind = "While" /\ node.statements \in Seq(Stmt)
        /\ ~IsGlobalVar(1)
    BY StatementFields, Heads DEF VisitWhile, Visiting, node, IsGlobalVar
  <1> DEFINE ok == check_variables(names_in[node.condition], this)
             v == with_block_scope(TRUE)
  <1>2. /\ ok \in BOOLEAN
        /\ Handle(ok, Append(visitors, v), visit(node.statements, inner))
    BY DEF VisitWhile, check_variables
  <1>3. v \in Visitor /\ v.globals \cap v.locals = {}
    BY <1>1, Heads DEF Visitor, with_block_scope
  <1> HIDE DEF ok, v
  <1> QED
    BY <1>1, <1>2, <1>3, BlockPreserves

LEMMA ForPreserves ==
    ASSUME IInv, VisitFor
    PROVE  IInv'
  <1>1. /\ todo # <<>> /\ node.kind = "For" /\ node.statements \in Seq(Stmt)
        /\ node.name \in Name
        /\ ~IsGlobalVar(1)
    BY StatementFields, Heads DEF VisitFor, Visiting, node, IsGlobalVar
  <1> DEFINE v == add_local(node.name, with_block_scope(TRUE))
             ok == /\ check_variables(names_in[node.initial], this)
                   /\ is_unique(node.name, this)
                   /\ check_variables(names_in[node.condition], v)
                   /\ check_variables(names_in[node.update], v)
  <1>2. /\ ok \in BOOLEAN
        /\ Handle(ok, Append(visitors, v), visit(node.statements, inner))
    BY DEF VisitFor, check_variables, is_unique
  <1>3. with_block_scope(TRUE) \in Visitor
    BY <1>1, Heads DEF Visitor, with_block_scope
  <1>4. ok => v \in Visitor /\ v.globals \cap v.locals = {}
    BY <1>1, <1>3, Heads DEF Visitor, with_block_scope, add_local, is_unique
  <1> HIDE DEF ok, v
  <1> QED
    BY <1>1, <1>2, <1>4, BlockPreserves

LEMMA IfPreserves ==
    ASSUME IInv, VisitIf
    PROVE  IInv'
  <1>1. /\ todo # <<>> /\ node.kind = "If" /\ ~IsGlobalVar(1)
        /\ node.then_statements \in Seq(Stmt) /\ node.else_statements \in Seq(Stmt)
    BY StatementFields, Heads DEF VisitIf, Visiting, node, IsGlobalVar
  <1> DEFINE ok == check_variables(names_in[node.condition], this)
             v == with_block_scope(this.inside_loop)
             vs == visitors \o <<v, v>>
             ts == visit(node.then_statements, inner)
             es == visit(node.else_statements, inner + 1)
  <1>2. ok \in BOOLEAN /\ Handle(ok, vs, ts \o es)
    BY Zenon DEF VisitIf, check_variables
  <1>3. v \in Visitor /\ v.globals \cap v.locals = {}
    BY <1>1, Heads DEF Visitor, with_block_scope
  <1>4. inner = Len(visitors) + 1 /\ inner \in Nat \ {0} /\ inner + 1 \in Nat \ {0}
    BY <1>1, Heads DEF inner
  <1>5. /\ ts \in Seq(Task) /\ es \in Seq(Task)
        /\ \A i \in DOMAIN ts : ts[i].visitor = inner /\ ts[i].node.kind # "GlobalVar"
        /\ \A i \in DOMAIN es : es[i].visitor = inner + 1 /\ es[i].node.kind # "GlobalVar"
    <2>1. /\ node.then_statements \in Seq(Stmt) /\ inner \in Nat \ {0}
          /\ node.else_statements \in Seq(Stmt) /\ inner + 1 \in Nat \ {0}
      BY <1>1, <1>4
    <2>2. /\ ts \in Seq(Task)
          /\ \A i \in DOMAIN ts : ts[i].visitor = inner /\ ts[i].node.kind # "GlobalVar"
      BY <2>1, VisitStatements
    <2> DEFINE second == inner + 1
    <2>3. second \in Nat \ {0}
      BY <2>1
    <2> HIDE DEF second
    <2>4. LET tasks == visit(node.else_statements, second)
          IN /\ tasks \in Seq(Task)
             /\ \A i \in DOMAIN tasks :
                   tasks[i].visitor = second /\ tasks[i].node.kind # "GlobalVar"
      BY <2>1, <2>3, VisitStatements
    <2> QED
      BY <2>2, <2>4 DEF second
  <1>6. \A i \in DOMAIN visitors : visitors[i].globals \cap visitors[i].locals = {}
    BY DEF IInv, NoShadowing
  <1> HIDE DEF ok, v, ts, es
  <1>7. /\ vs \in Seq(Visitor) /\ Len(vs) = Len(visitors) + 2
        /\ DOMAIN vs = 1 .. Len(visitors) + 2
    BY <1>1, <1>3, Heads
  <1>8. \A i \in DOMAIN vs : vs[i] = IF i \in DOMAIN visitors THEN visitors[i] ELSE v
    BY <1>1, <1>3, <1>7, Heads
  <1>9. /\ ts \o es \in Seq(Task)
        /\ \A i \in DOMAIN (ts \o es) :
              /\ (ts \o es)[i].visitor \in {inner, inner + 1}
              /\ (ts \o es)[i].node.kind # "GlobalVar"
    BY <1>5, ConcatProperties
  <1> HIDE DEF vs
  <1>10. /\ \A i \in DOMAIN vs : vs[i].globals \cap vs[i].locals = {}
         /\ Len(visitors) <= Len(vs) /\ {inner, inner + 1} \subseteq DOMAIN vs
    BY <1>1, <1>3, <1>4, <1>6, <1>7, <1>8, Heads
  <1> DEFINE nodes == ts \o es
  <1>11. /\ nodes \in Seq(Task)
         /\ \A i \in DOMAIN nodes : /\ nodes[i].visitor \in DOMAIN vs
                                    /\ nodes[i].node.kind # "GlobalVar"
         /\ Handle(ok, vs, nodes)
    BY <1>2, <1>9, <1>10
  <1> HIDE DEF nodes
  <1>12. CASE Continue(vs, nodes)
    <2>1. /\ vs \in Seq(Visitor)
          /\ Len(visitors) <= Len(vs)
          /\ \A i \in DOMAIN vs : vs[i].globals \cap vs[i].locals = {}
          /\ nodes \in Seq(Task)
          /\ \A i \in DOMAIN nodes : /\ nodes[i].visitor \in DOMAIN vs
                                     /\ nodes[i].node.kind # "GlobalVar"
      BY <1>7, <1>10, <1>11, Zenon
    <2> QED
      BY <1>1, <1>12, <2>1, ContinuePreserves
  <1>13. CASE Exit1
    BY <1>13, Exit1Preserves
  <1> QED
    BY <1>11, <1>12, <1>13 DEF Handle

LEMMA NextPreserves ==
    ASSUME IInv, [Next]_vars
    PROVE  IInv'
  <1>1. CASE VisitGlobalVar
    BY <1>1, GlobalVarPreserves
  <1>2. CASE VisitFunction
    BY <1>2, FunctionPreserves
  <1>3. CASE VisitBreakContinue
    <2>1. this.inside_loop \in BOOLEAN /\ todo # <<>> /\ ~IsGlobalVar(1)
      BY <1>3, Heads DEF VisitBreakContinue, Visiting, node, IsGlobalVar, Visitor
    <2> QED
      BY <1>3, <2>1, LookupPreserves DEF VisitBreakContinue
  <1>4. CASE VisitExpressionReturn
    <2>1. todo # <<>> /\ ~IsGlobalVar(1)
      BY <1>4, Heads DEF VisitExpressionReturn, Visiting, node, IsGlobalVar
    <2> DEFINE ok == check_variables(names_in[node.expression], this)
    <2>2. ok \in BOOLEAN /\ Handle(ok, visitors, <<>>)
      BY <1>4 DEF VisitExpressionReturn, check_variables
    <2> HIDE DEF ok
    <2> QED
      BY <2>1, <2>2, LookupPreserves
  <1>5. CASE VisitLet
    <2>1. todo # <<>> /\ ~IsGlobalVar(1)
      BY <1>5, Heads DEF VisitLet, Visiting, node, IsGlobalVar
    <2> DEFINE ok == check_variables({node.name} \cup names_in[node.expression], this)
    <2>2. ok \in BOOLEAN /\ Handle(ok, visitors, <<>>)
      BY <1>5 DEF VisitLet, check_variables
    <2> HIDE DEF ok
    <2> QED
      BY <2>1, <2>2, LookupPreserves
  <1>6. CASE VisitVar
    BY <1>6, VarPreserves
  <1>7. CASE VisitIf
    BY <1>7, IfPreserves
  <1>8. CASE VisitWhile
    BY <1>8, WhilePreserves
  <1>9. CASE VisitFor
    BY <1>9, ForPreserves
  <1>10. CASE VisitProgramEnd
    BY <1>10 DEF VisitProgramEnd, IInv, TypeOK, NoShadowing, GlobalsFirst, IsGlobalVar
  <1>11. CASE UNCHANGED vars
    BY <1>11 DEF vars, IInv, TypeOK, NoShadowing, GlobalsFirst, IsGlobalVar
  <1> QED
    BY <1>1, <1>2, <1>3, <1>4, <1>5, <1>6, <1>7, <1>8, <1>9, <1>10, <1>11 DEF Next

-----------------------------------------------------------------------------
(* Whatever the programs are, the objects stay well formed and every node  *)
(* still to be visited has the object that visits it.                      *)
THEOREM TypeCorrect == Spec => []TypeOK
  <1>1. Init => IInv
    BY InitIInv
  <1>2. IInv /\ [Next]_vars => IInv'
    BY NextPreserves
  <1>3. IInv => TypeOK
    BY DEF IInv
  <1> QED
    BY <1>1, <1>2, <1>3, PTL DEF Spec

(* Whatever the programs are, no VariableUsage object (backend.cpp:15-293) *)
(* ever holds a name both as a local and as a global symbol.               *)
THEOREM NeverShadows == Spec => []NoShadowing
  <1>1. Init => IInv
    BY InitIInv
  <1>2. IInv /\ [Next]_vars => IInv'
    BY NextPreserves
  <1>3. IInv => NoShadowing
    BY DEF IInv
  <1> QED
    BY <1>1, <1>2, <1>3, PTL DEF Spec

-----------------------------------------------------------------------------
IsSymbol(t) == t.node.kind \in {"GlobalVar", "Function"}

(* The locals that some tasks will add to an object, and the globals.      *)
Names(T, c) == {t.node.name : t \in {u \in T : u.visitor = c /\ u.node.kind = "Var"}}

SymbolNames(T) == {t.node.name : t \in {u \in T : IsSymbol(u)}}

(* The node of a task that is visited after the tasks T obeys the rules.   *)
TaskOK(t, T, objects) ==
    IF IsSymbol(t)
    THEN SymbolOK(t.node, objects[1].globals \cup SymbolNames(T))
    ELSE <<t.node, With(Names(T, t.visitor), objects[t.visitor])>> \in WellScoped

Pending(tasks, objects) ==
    \A i \in DOMAIN tasks : TaskOK(tasks[i], First(tasks, i - 1), objects)

HasMain(p) == \E k \in DOMAIN p.functions : p.functions[k].name = "main"

SymbolsLast ==
    \A i \in DOMAIN todo :
        IsSymbol(todo[i]) => /\ todo[i].visitor = 1
                             /\ \A j \in i .. Len(todo) : IsSymbol(todo[j])

VInv ==
    /\ IInv
    /\ SymbolsLast
    /\ ~visitors[1].inside_loop
    /\ verdict = "checking" =>
          (Pending(todo, visitors) /\ HasMain(program) <=> WellScopedProgram(program))
    /\ verdict # "checking" =>
          (verdict = "accepted" <=> WellScopedProgram(program))

(* What the theorem says, as a property.                                   *)
VerdictFollowsRules ==
    verdict # "checking" => (verdict = "accepted" <=> WellScopedProgram(program))

-----------------------------------------------------------------------------
LEMMA NamesUnion ==
    /\ \A A, B, c : Names(A \cup B, c) = Names(A, c) \cup Names(B, c)
    /\ \A c : Names({}, c) = {}
    /\ \A A, B : SymbolNames(A \cup B) = SymbolNames(A) \cup SymbolNames(B)
  BY DEF Names, SymbolNames

LEMMA PendingConcat ==
    ASSUME NEW a \in Seq(Task), NEW b \in Seq(Task), NEW objects
    PROVE  Pending(a \o b, objects) <=>
              /\ Pending(a, objects)
              /\ \A i \in DOMAIN b :
                    TaskOK(b[i], First(a, Len(a)) \cup First(b, i - 1), objects)
  <1> DEFINE c == a \o b
  <1>1. /\ Len(a) \in Nat /\ Len(b) \in Nat
        /\ DOMAIN a = 1 .. Len(a) /\ DOMAIN b = 1 .. Len(b)
        /\ DOMAIN c = 1 .. Len(a) + Len(b)
        /\ \A i \in 1 .. Len(a) : c[i] = a[i]
        /\ \A i \in 1 .. Len(b) : c[Len(a) + i] = b[i]
    OBVIOUS
  <1>2. /\ \A n \in 0 .. Len(a) : First(c, n) = First(a, n)
        /\ \A n \in 0 .. Len(b) : First(c, Len(a) + n) = First(a, Len(a)) \cup First(b, n)
    BY FirstConcat
  <1> HIDE DEF c
  <1>3. \A i \in 1 .. Len(a) :
           TaskOK(c[i], First(c, i - 1), objects) <=> TaskOK(a[i], First(a, i - 1), objects)
    <2> TAKE i \in 1 .. Len(a)
    <2>1. i - 1 \in 0 .. Len(a)
      BY <1>1
    <2> QED
      BY <1>1, <1>2, <2>1
  <1>4. \A i \in 1 .. Len(b) :
           TaskOK(c[Len(a) + i], First(c, Len(a) + i - 1), objects) <=>
           TaskOK(b[i], First(a, Len(a)) \cup First(b, i - 1), objects)
    <2> TAKE i \in 1 .. Len(b)
    <2>1. i - 1 \in 0 .. Len(b) /\ Len(a) + i - 1 = Len(a) + (i - 1)
      BY <1>1
    <2> QED
      BY <1>1, <1>2, <2>1
  <1>5. \A j \in 1 .. Len(a) + Len(b) :
           j \in 1 .. Len(a) \/ \E i \in 1 .. Len(b) : j = Len(a) + i
    <2> SUFFICES ASSUME NEW j \in 1 .. Len(a) + Len(b), j \notin 1 .. Len(a)
                 PROVE  \E i \in 1 .. Len(b) : j = Len(a) + i
      OBVIOUS
    <2>1. j - Len(a) \in 1 .. Len(b) /\ j = Len(a) + (j - Len(a))
      BY <1>1
    <2> QED
      BY <2>1
  <1>6. /\ \A i \in 1 .. Len(a) : i \in 1 .. Len(a) + Len(b)
        /\ \A i \in 1 .. Len(b) : Len(a) + i \in 1 .. Len(a) + Len(b)
    BY <1>1
  <1>7. ASSUME Pending(c, objects)
        PROVE  /\ Pending(a, objects)
               /\ \A i \in DOMAIN b :
                     TaskOK(b[i], First(a, Len(a)) \cup First(b, i - 1), objects)
    <2>1. \A j \in 1 .. Len(a) + Len(b) : TaskOK(c[j], First(c, j - 1), objects)
      BY <1>1, <1>7 DEF Pending
    <2>2. ASSUME NEW i \in 1 .. Len(a)
          PROVE  TaskOK(a[i], First(a, i - 1), objects)
      BY <1>3, <1>6, <2>1
    <2>3. ASSUME NEW i \in 1 .. Len(b)
          PROVE  TaskOK(b[i], First(a, Len(a)) \cup First(b, i - 1), objects)
      <3> DEFINE j == Len(a) + i
      <3>1. j \in 1 .. Len(a) + Len(b)
        BY <1>6
      <3>2. TaskOK(c[j], First(c, j - 1), objects) <=>
            TaskOK(b[i], First(a, Len(a)) \cup First(b, i - 1), objects)
        BY <1>4
      <3> HIDE DEF j
      <3> QED
        BY <2>1, <3>1, <3>2
    <2> QED
      BY <1>1, <2>2, <2>3 DEF Pending
  <1>8. ASSUME Pending(a, objects),
               \A i \in DOMAIN b :
                  TaskOK(b[i], First(a, Len(a)) \cup First(b, i - 1), objects)
        PROVE  Pending(c, objects)
    <2> SUFFICES ASSUME NEW j \in 1 .. Len(a) + Len(b)
                 PROVE  TaskOK(c[j], First(c, j - 1), objects)
      BY <1>1 DEF Pending
    <2>1. CASE j \in 1 .. Len(a)
      <3>1. TaskOK(a[j], First(a, j - 1), objects)
        BY <1>1, <1>8, <2>1 DEF Pending
      <3> QED
        BY <1>3, <2>1, <3>1
    <2>2. CASE \E i \in 1 .. Len(b) : j = Len(a) + i
      <3>1. PICK i \in 1 .. Len(b) : j = Len(a) + i
        BY <2>2
      <3>2. TaskOK(c[Len(a) + i], First(c, Len(a) + i - 1), objects)
        BY <1>1, <1>4, <1>8
      <3> QED
        BY <3>1, <3>2
    <2> QED
      BY <1>5, <2>1, <2>2
  <1> QED
    BY <1>7, <1>8 DEF c

LEMMA PendingTail ==
    ASSUME NEW s \in Seq(Task), s # <<>>, NEW objects
    PROVE  Pending(s, objects) <=>
              /\ TaskOK(Head(s), {}, objects)
              /\ \A i \in DOMAIN Tail(s) :
                    TaskOK(Tail(s)[i], {Head(s)} \cup First(Tail(s), i - 1), objects)
  <1> DEFINE t == Tail(s)
  <1>1. /\ Len(s) \in Nat /\ Len(s) >= 1 /\ s[1] = Head(s)
        /\ DOMAIN s = 1 .. Len(s) /\ DOMAIN t = 1 .. Len(s) - 1
        /\ \A i \in 1 .. Len(s) - 1 : t[i] = s[i + 1]
    OBVIOUS
  <1>2. /\ \A n \in 0 .. Len(s) - 1 : First(s, n + 1) = {Head(s)} \cup First(t, n)
        /\ First(s, 0) = {}
    BY FirstTail
  <1> HIDE DEF t
  <1>3. s[1] = Head(s) /\ First(s, 1 - 1) = {}
    <2>1. 1 - 1 = 0
      OBVIOUS
    <2> QED
      BY <1>1, <1>2, <2>1
  <1>4. \A i \in 1 .. Len(s) - 1 :
           TaskOK(s[i + 1], First(s, i + 1 - 1), objects) <=>
           TaskOK(t[i], {Head(s)} \cup First(t, i - 1), objects)
    <2> TAKE i \in 1 .. Len(s) - 1
    <2>1. i - 1 \in 0 .. Len(s) - 1 /\ i + 1 - 1 = (i - 1) + 1
      BY <1>1
    <2> QED
      BY <1>1, <1>2, <2>1
  <1>5. \A j \in 1 .. Len(s) : j = 1 \/ \E i \in 1 .. Len(s) - 1 : j = i + 1
    <2> SUFFICES ASSUME NEW j \in 1 .. Len(s), j # 1
                 PROVE  \E i \in 1 .. Len(s) - 1 : j = i + 1
      OBVIOUS
    <2>1. j - 1 \in 1 .. Len(s) - 1 /\ j = (j - 1) + 1
      BY <1>1
    <2> QED
      BY <2>1
  <1>6. 1 \in 1 .. Len(s) /\ \A i \in 1 .. Len(s) - 1 : i + 1 \in 1 .. Len(s)
    BY <1>1
  <1>7. ASSUME Pending(s, objects)
        PROVE  /\ TaskOK(Head(s), {}, objects)
               /\ \A i \in DOMAIN t :
                     TaskOK(t[i], {Head(s)} \cup First(t, i - 1), objects)
    <2>1. \A j \in 1 .. Len(s) : TaskOK(s[j], First(s, j - 1), objects)
      BY <1>1, <1>7 DEF Pending
    <2>2. TaskOK(s[1], First(s, 1 - 1), objects)
      BY <1>6, <2>1
    <2>3. ASSUME NEW i \in 1 .. Len(s) - 1
          PROVE  TaskOK(t[i], {Head(s)} \cup First(t, i - 1), objects)
      <3>1. TaskOK(s[i + 1], First(s, i + 1 - 1), objects)
        BY <1>6, <2>1
      <3> QED
        BY <1>4, <3>1
    <2>4. TaskOK(Head(s), {}, objects)
      BY <1>3, <2>2
    <2> QED
      BY <1>1, <2>3, <2>4
  <1>8. ASSUME TaskOK(Head(s), {}, objects),
               \A i \in DOMAIN t : TaskOK(t[i], {Head(s)} \cup First(t, i - 1), objects)
        PROVE  Pending(s, objects)
    <2> SUFFICES ASSUME NEW j \in 1 .. Len(s)
                 PROVE  TaskOK(s[j], First(s, j - 1), objects)
      BY <1>1 DEF Pending
    <2>1. CASE j = 1
      <3>1. TaskOK(s[1], First(s, 1 - 1), objects)
        BY <1>3, <1>8
      <3> QED
        BY <2>1, <3>1
    <2>2. CASE \E i \in 1 .. Len(s) - 1 : j = i + 1
      <3>1. PICK i \in 1 .. Len(s) - 1 : j = i + 1
        BY <2>2
      <3>2. TaskOK(s[i + 1], First(s, i + 1 - 1), objects)
        BY <1>1, <1>4, <1>8
      <3> QED
        BY <3>1, <3>2
    <2> QED
      BY <1>5, <2>1, <2>2
  <1> QED
    BY <1>7, <1>8 DEF t

(* A step that replaces the first task by others leaves the scopes of the  *)
(* tasks after it as they were.                                            *)
LEMMA PendingStep ==
    ASSUME NEW s \in Seq(Task), s # <<>>, NEW nodes \in Seq(Task),
           NEW objects, NEW objects2, NEW ok \in BOOLEAN,
           TaskOK(Head(s), {}, objects) <=> ok /\ Pending(nodes, objects2),
           ok => \A i \in DOMAIN Tail(s), T \in SUBSET Task :
              TaskOK(Tail(s)[i], First(nodes, Len(nodes)) \cup T, objects2) <=>
              TaskOK(Tail(s)[i], {Head(s)} \cup T, objects)
    PROVE  Pending(s, objects) <=> ok /\ Pending(nodes \o Tail(s), objects2)
  <1> DEFINE t == Tail(s)
  <1>1. t \in Seq(Task) /\ \A i \in DOMAIN t : First(t, i - 1) \in SUBSET Task
    <2>1. t \in Seq(Task)
      OBVIOUS
    <2> HIDE DEF t
    <2>2. \A i \in DOMAIN t : \A j \in 1 .. i - 1 : t[j] \in Task
      BY <2>1
    <2> QED
      BY <2>1, <2>2 DEF First
  <1>2. Pending(nodes \o t, objects2) <=>
           /\ Pending(nodes, objects2)
           /\ \A i \in DOMAIN t :
                 TaskOK(t[i], First(nodes, Len(nodes)) \cup First(t, i - 1), objects2)
    BY <1>1, PendingConcat
  <1>3. Pending(s, objects) <=>
              /\ TaskOK(Head(s), {}, objects)
              /\ \A i \in DOMAIN t :
                    TaskOK(t[i], {Head(s)} \cup First(t, i - 1), objects)
    BY PendingTail
  <1>4. ok => \A i \in DOMAIN t :
           TaskOK(t[i], First(nodes, Len(nodes)) \cup First(t, i - 1), objects2) <=>
           TaskOK(t[i], {Head(s)} \cup First(t, i - 1), objects)
    BY <1>1
  <1> HIDE DEF t
  <1> QED
    BY <1>2, <1>3, <1>4 DEF t

(* The statements of a block that is visited with the object c.            *)
LEMMA PendingBlock ==
    ASSUME NEW nodes \in Seq(Stmt), NEW c \in Nat \ {0}, NEW objects
    PROVE  /\ Pending(visit(nodes, c), objects) <=>
                 BlockIn(nodes, objects[c], WellScoped)
           /\ \A i \in DOMAIN visit(nodes, c) : ~IsSymbol(visit(nodes, c)[i])
           /\ DOMAIN visit(nodes, c) = DOMAIN nodes
  <1> DEFINE ts == visit(nodes, c)
  <1>1. /\ DOMAIN ts = 1 .. Len(nodes) /\ DOMAIN nodes = 1 .. Len(nodes)
        /\ Len(nodes) \in Nat
        /\ \A i \in 1 .. Len(nodes) : ts[i] = [node |-> nodes[i], visitor |-> c]
    BY DEF visit
  <1> HIDE DEF ts
  <1>2. \A i \in 1 .. Len(nodes) : nodes[i] \in Stmt /\ ~IsSymbol(ts[i])
    BY <1>1, StmtKind DEF IsSymbol
  <1>3. ASSUME NEW i \in 1 .. Len(nodes)
        PROVE  Names(First(ts, i - 1), c) = Declared(nodes, i - 1)
    <2>0. \A j \in 1 .. i - 1 : j \in 1 .. Len(nodes)
      BY <1>1
    <2>1. ASSUME NEW x \in Names(First(ts, i - 1), c)
          PROVE  x \in Declared(nodes, i - 1)
      <3>1. PICK t \in First(ts, i - 1) : t.visitor = c /\ t.node.kind = "Var"
                                            /\ x = t.node.name
        BY <2>1 DEF Names
      <3>2. PICK j \in 1 .. i - 1 : t = ts[j]
        BY <3>1 DEF First
      <3>3. t.node = nodes[j]
        BY <2>0, <3>2, <1>1
      <3> QED
        BY <3>1, <3>3 DEF Declared
    <2>2. ASSUME NEW x \in Declared(nodes, i - 1)
          PROVE  x \in Names(First(ts, i - 1), c)
      <3>1. PICK j \in 1 .. i - 1 : nodes[j].kind = "Var" /\ x = nodes[j].name
        BY <2>2 DEF Declared
      <3>2. ts[j] \in First(ts, i - 1)
        BY DEF First
      <3>3. ts[j].node = nodes[j] /\ ts[j].visitor = c
        BY <2>0, <1>1
      <3> QED
        BY <3>1, <3>2, <3>3 DEF Names
    <2> QED
      BY <2>1, <2>2
  <1>4. ASSUME NEW i \in 1 .. Len(nodes)
        PROVE  TaskOK(ts[i], First(ts, i - 1), objects) <=>
               <<nodes[i], With(Declared(nodes, i - 1), objects[c])>> \in WellScoped
    <2>1. ts[i].node = nodes[i] /\ ts[i].visitor = c
      BY <1>1
    <2> QED
      BY <1>2, <1>3, <2>1 DEF TaskOK
  <1> QED
    BY <1>1, <1>2, <1>4 DEF Pending, BlockIn, ts

-----------------------------------------------------------------------------
LEMMA SomeObject ==
    ASSUME IInv, todo # <<>>
    PROVE  1 \in DOMAIN visitors /\ Visitor = Scope
  <1>1. /\ Head(todo).visitor \in DOMAIN visitors
        /\ DOMAIN visitors = 1 .. Len(visitors) /\ Len(visitors) \in Nat
    BY Heads
  <1> QED
    BY <1>1 DEF Visitor, Scope

LEMMA NamesTyped ==
    ASSUME NEW T \in SUBSET Task, NEW c
    PROVE  Names(T, c) \in SUBSET Name
  <1> SUFFICES ASSUME NEW t \in T, t.node.kind = "Var"
               PROVE  t.node.name \in Name
    BY DEF Names
  <1>1. t.node \in GlobalVar \cup Function \cup Stmt
    BY DEF Task
  <1>2. t.node \in Stmt
    BY <1>1 DEF GlobalVar, Function
  <1>3. t.node \in Statement(Expr, Stmt)
    BY <1>2, AstAssumption
  <1> QED
    BY <1>3 DEF Statement

LEMMA NothingDeclared ==
    ASSUME NEW nodes \in Seq(Task), NEW c,
           \A i \in DOMAIN nodes : ~IsSymbol(nodes[i]) /\ nodes[i].visitor # c
    PROVE  /\ SymbolNames(First(nodes, Len(nodes))) = {}
           /\ Names(First(nodes, Len(nodes)), c) = {}
  <1>1. \A t \in First(nodes, Len(nodes)) : ~IsSymbol(t) /\ t.visitor # c
    BY DEF First
  <1> QED
    BY <1>1 DEF SymbolNames, Names

LEMMA NoSymbols ==
    ASSUME NEW nodes \in Seq(Task), \A i \in DOMAIN nodes : ~IsSymbol(nodes[i])
    PROVE  SymbolNames(First(nodes, Len(nodes))) = {}
  <1>1. \A t \in First(nodes, Len(nodes)) : ~IsSymbol(t)
    BY DEF First
  <1> QED
    BY <1>1 DEF SymbolNames

LEMMA Tails ==
    ASSUME IInv, todo # <<>>
    PROVE  /\ Tail(todo) \in Seq(Task) /\ todo \in Seq(Task)
           /\ DOMAIN Tail(todo) = 1 .. Len(todo) - 1
           /\ \A i \in DOMAIN Tail(todo) : /\ Tail(todo)[i] = todo[i + 1]
                                           /\ i + 1 \in DOMAIN todo
                                           /\ Tail(todo)[i] \in Task
                                           /\ Tail(todo)[i].visitor \in DOMAIN visitors
  <1>1. /\ todo \in Seq(Task) /\ \A i \in DOMAIN todo : todo[i].visitor \in DOMAIN visitors
    BY DEF IInv, TypeOK
  <1>2. /\ Tail(todo) \in Seq(Task) /\ DOMAIN Tail(todo) = 1 .. Len(todo) - 1
        /\ \A i \in DOMAIN Tail(todo) : /\ Tail(todo)[i] = todo[i + 1]
                                        /\ i + 1 \in DOMAIN todo
    BY <1>1
  <1> QED
    BY <1>1, <1>2

LEMMA StatementShift ==
    ASSUME IInv, todo # <<>>, ~IsSymbol(Head(todo)),
           NEW nodes \in Seq(Task), NEW objects2,
           \A i \in DOMAIN nodes : /\ ~IsSymbol(nodes[i])
                                   /\ nodes[i].visitor \notin DOMAIN visitors,
           \A d \in DOMAIN visitors :
              objects2[d] = With(Names({Head(todo)}, d), visitors[d])
    PROVE  \A i \in DOMAIN Tail(todo), T \in SUBSET Task :
              TaskOK(Tail(todo)[i], First(nodes, Len(nodes)) \cup T, objects2) <=>
              TaskOK(Tail(todo)[i], {Head(todo)} \cup T, visitors)
  <1> SUFFICES ASSUME NEW i \in DOMAIN Tail(todo), NEW T \in SUBSET Task
               PROVE  TaskOK(Tail(todo)[i], First(nodes, Len(nodes)) \cup T, objects2) <=>
                      TaskOK(Tail(todo)[i], {Head(todo)} \cup T, visitors)
    OBVIOUS
  <1> DEFINE t == Tail(todo)[i]
             h == Head(todo)
             N == First(nodes, Len(nodes))
             c == t.visitor
  <1>1. t \in Task /\ c \in DOMAIN visitors /\ h \in Task
    BY Tails, Heads
  <1>2. Visitor = Scope /\ visitors[1] \in Scope /\ visitors[c] \in Scope /\ 1 \in DOMAIN visitors
    BY <1>1, SomeObject, Heads
  <1>3. SymbolNames(N) = {} /\ Names(N, c) = {}
    <2>1. \A j \in DOMAIN nodes : ~IsSymbol(nodes[j]) /\ nodes[j].visitor # c
      BY <1>1
    <2> HIDE DEF c
    <2> QED
      BY <2>1, NothingDeclared
  <1>4. SymbolNames({h}) = {}
    BY DEF SymbolNames
  <1>5. CASE IsSymbol(t)
    <2>1. objects2[1].globals = visitors[1].globals
      <3>1. objects2[1] = With(Names({h}, 1), visitors[1])
        BY <1>2
      <3> QED
        BY <1>2, <3>1 DEF With, Scope
    <2>2. SymbolNames(N \cup T) = SymbolNames({h} \cup T)
      <3>1. /\ SymbolNames(N \cup T) = SymbolNames(N) \cup SymbolNames(T)
            /\ SymbolNames({h} \cup T) = SymbolNames({h}) \cup SymbolNames(T)
        BY NamesUnion, Zenon
      <3> HIDE DEF N, h
      <3> QED
        BY <1>3, <1>4, <3>1
    <2> QED
      BY <1>5, <2>1, <2>2 DEF TaskOK
  <1>6. CASE ~IsSymbol(t)
    <2> DEFINE A == Names({h}, c)
               B == Names(T, c)
    <2>1. A \in SUBSET Name /\ B \in SUBSET Name
      BY <1>1, NamesTyped
    <2>2. Names(N \cup T, c) = B /\ Names({h} \cup T, c) = A \cup B
      <3> DEFINE H == {h}
      <3> HIDE DEF N, h, c, H
      <3>1. Names(N \cup T, c) = Names(N, c) \cup Names(T, c)
        BY NamesUnion
      <3>2. Names(H \cup T, c) = Names(H, c) \cup Names(T, c)
        BY NamesUnion
      <3>3. \A X : {} \cup X = X
        OBVIOUS
      <3>4. Names(N, c) = {}
        BY <1>3
      <3> QED
        BY <3>1, <3>2, <3>3, <3>4 DEF H
    <2>3. objects2[c] = With(A, visitors[c])
      BY <1>1
    <2> HIDE DEF A, B, c
    <2>4. With(B, With(A, visitors[c])) = With(A \cup B, visitors[c])
      BY <1>2, <2>1, WithMore
    <2> QED
      BY <1>6, <2>2, <2>3, <2>4 DEF TaskOK, c
  <1> QED
    BY <1>5, <1>6

LEMMA SymbolShift ==
    ASSUME IInv, SymbolsLast, todo # <<>>, IsSymbol(Head(todo)),
           NEW nodes \in Seq(Task), NEW objects2,
           \A i \in DOMAIN nodes : ~IsSymbol(nodes[i]),
           objects2[1].globals = visitors[1].globals \cup {node.name}
    PROVE  \A i \in DOMAIN Tail(todo), T \in SUBSET Task :
              TaskOK(Tail(todo)[i], First(nodes, Len(nodes)) \cup T, objects2) <=>
              TaskOK(Tail(todo)[i], {Head(todo)} \cup T, visitors)
  <1> SUFFICES ASSUME NEW i \in DOMAIN Tail(todo), NEW T \in SUBSET Task
               PROVE  TaskOK(Tail(todo)[i], First(nodes, Len(nodes)) \cup T, objects2) <=>
                      TaskOK(Tail(todo)[i], {Head(todo)} \cup T, visitors)
    OBVIOUS
  <1> DEFINE h == Head(todo)
             N == First(nodes, Len(nodes))
  <1>1. IsSymbol(Tail(todo)[i])
    <2>1. /\ Tail(todo)[i] = todo[i + 1] /\ i + 1 \in DOMAIN todo /\ i \in 1 .. Len(todo) - 1
          /\ todo \in Seq(Task)
      BY Tails
    <2>2. \A j \in 1 .. Len(todo) : IsSymbol(todo[j])
      BY Heads DEF SymbolsLast
    <2> QED
      BY <2>1, <2>2
  <1>2. SymbolNames(N) = {}
    BY NoSymbols
  <1>3. SymbolNames({h}) = {node.name}
    BY DEF SymbolNames, node
  <1>4. objects2[1].globals \cup SymbolNames(N \cup T)
           = visitors[1].globals \cup SymbolNames({h} \cup T)
    <2>1. /\ SymbolNames(N \cup T) = SymbolNames(N) \cup SymbolNames(T)
          /\ SymbolNames({h} \cup T) = SymbolNames({h}) \cup SymbolNames(T)
      BY NamesUnion, Zenon
    <2> HIDE DEF N, h
    <2> QED
      BY <1>2, <1>3, <2>1
  <1> QED
    BY <1>1, <1>4 DEF TaskOK

(* A handler that decides as the rules do preserves the invariant.         *)
LEMMA HandleFollowsRules ==
    ASSUME VInv, IInv', verdict = "checking", todo # <<>>,
           NEW ok \in BOOLEAN, NEW visitors2, NEW nodes \in Seq(Task),
           Handle(ok, visitors2, nodes),
           TaskOK(Head(todo), {}, visitors) <=> ok /\ Pending(nodes, visitors2),
           \A i \in DOMAIN nodes : ~IsSymbol(nodes[i]),
           ok => /\ ~visitors2[1].inside_loop
                 /\ \A i \in DOMAIN Tail(todo), T \in SUBSET Task :
                       TaskOK(Tail(todo)[i], First(nodes, Len(nodes)) \cup T, visitors2) <=>
                       TaskOK(Tail(todo)[i], {Head(todo)} \cup T, visitors)
    PROVE  VInv'
  <1>1. todo \in Seq(Task) /\ Tail(todo) \in Seq(Task)
    BY Tails DEF VInv
  <1>2. Pending(todo, visitors) <=> ok /\ Pending(nodes \o Tail(todo), visitors2)
    BY <1>1, PendingStep
  <1>3. Pending(todo, visitors) /\ HasMain(program) <=> WellScopedProgram(program)
    BY DEF VInv
  <1>4. CASE ok /\ Continue(visitors2, nodes)
    <2>1. /\ visitors' = visitors2 /\ todo' = nodes \o Tail(todo)
          /\ program' = program /\ verdict' = "checking"
      BY <1>4 DEF Continue
    <2>2. Pending(todo', visitors') /\ HasMain(program') <=> WellScopedProgram(program')
      BY <1>2, <1>3, <1>4, <2>1
    <2>3. SymbolsLast'
      <3> SUFFICES ASSUME NEW i \in DOMAIN todo', IsSymbol(todo'[i])
                   PROVE  /\ todo'[i].visitor = 1
                          /\ \A j \in i .. Len(todo') : IsSymbol(todo'[j])
        BY DEF SymbolsLast
      <3> DEFINE n == Len(nodes)
                 t == Tail(todo)
      <3>1. /\ n \in Nat /\ Len(t) \in Nat /\ Len(todo') = n + Len(t)
            /\ DOMAIN todo' = 1 .. n + Len(t)
            /\ \A j \in 1 .. n : todo'[j] = nodes[j] /\ j \in DOMAIN nodes
            /\ \A j \in n + 1 .. n + Len(t) : todo'[j] = t[j - n]
        BY <1>1, <2>1
      <3>2. /\ \A j \in 1 .. Len(t) : t[j] = todo[j + 1]
            /\ Len(todo) = Len(t) + 1 /\ DOMAIN todo = 1 .. Len(todo)
        BY <1>1
      <3> HIDE DEF n, t
      <3>3. i \in n + 1 .. n + Len(t)
        BY <3>1
      <3>4. i - n \in 1 .. Len(t) /\ (i - n) + 1 \in DOMAIN todo
            /\ todo'[i] = todo[(i - n) + 1]
        <4>1. i - n \in 1 .. Len(t) /\ (i - n) + 1 \in 1 .. Len(todo)
          BY <3>1, <3>2, <3>3
        <4>2. todo'[i] = t[i - n]
          BY <3>1, <3>3
        <4> QED
          BY <3>2, <4>1, <4>2
      <3>5. /\ todo[(i - n) + 1].visitor = 1
            /\ \A j \in (i - n) + 1 .. Len(todo) : IsSymbol(todo[j])
        BY <3>4 DEF VInv, SymbolsLast
      <3>6. ASSUME NEW j \in i .. Len(todo')
            PROVE  IsSymbol(todo'[j])
        <4>1. j \in n + 1 .. n + Len(t) /\ j - n \in 1 .. Len(t)
              /\ (j - n) + 1 \in (i - n) + 1 .. Len(todo)
          BY <3>1, <3>2, <3>3
        <4>2. todo'[j] = todo[(j - n) + 1]
          BY <3>1, <3>2, <4>1
        <4> QED
          BY <3>5, <4>1, <4>2
      <3> QED
        BY <3>4, <3>5, <3>6
    <2> QED
      BY <1>4, <2>1, <2>2, <2>3 DEF VInv
  <1>5. CASE ~ok /\ Exit1
    <2>1. /\ visitors' = visitors /\ todo' = todo
          /\ program' = program /\ verdict' = "exit(1)"
      BY <1>5 DEF Exit1
    <2>2. ~WellScopedProgram(program)
      BY <1>2, <1>3, <1>5
    <2> QED
      BY <2>1, <2>2 DEF VInv, SymbolsLast
  <1> QED
    BY <1>4, <1>5 DEF Handle

(* Statements.                                                             *)
LEMMA HeadStatement ==
    ASSUME IInv, todo # <<>>, node.kind \notin {"GlobalVar", "Function"}
    PROVE  /\ ~IsSymbol(Head(todo)) /\ node \in Stmt /\ this \in Scope
           /\ TaskOK(Head(todo), {}, visitors) <=>
                 /\ Obeys(node, this)
                 /\ \A b \in Blocks(node, this) : BlockIn(b[1], b[2], WellScoped)
  <1>1. ~IsSymbol(Head(todo)) /\ node \in Stmt
    BY Heads DEF IsSymbol, node, GlobalVar, Function
  <1>2. this \in Scope
    BY SomeObject, Heads
  <1>3. Names({}, Head(todo).visitor) = {}
    BY NamesUnion
  <1>4. With({}, this) = this
    BY <1>2, WithMore
  <1>5. TaskOK(Head(todo), {}, visitors) <=> <<node, this>> \in WellScoped
    BY <1>1, <1>3, <1>4 DEF TaskOK, node, this
  <1> QED
    BY <1>1, <1>2, <1>5, Unfold

LEMMA HeadDeclares ==
    ASSUME IInv, todo # <<>>, NEW d \in DOMAIN visitors
    PROVE  Names({Head(todo)}, d) =
              IF node.kind = "Var" /\ d = Head(todo).visitor THEN {node.name} ELSE {}
  BY DEF Names, node

(* A handler that only looks names up.                                     *)
LEMMA LookupFollowsRules ==
    ASSUME VInv, IInv', verdict = "checking", todo # <<>>,
           node.kind \notin {"GlobalVar", "Function", "Var", "If", "While", "For"},
           NEW ok \in BOOLEAN, Handle(ok, visitors, <<>>), ok <=> Obeys(node, this)
    PROVE  VInv'
  <1> DEFINE nodes == <<>>
  <1>1. IInv /\ ~visitors[1].inside_loop
    BY DEF VInv
  <1>2. nodes \in Seq(Task) /\ \A i \in DOMAIN nodes : FALSE
    OBVIOUS
  <1>3. Blocks(node, this) = {}
    BY DEF Blocks
  <1>4. Handle(ok, visitors, nodes)
    OBVIOUS
  <1> HIDE DEF nodes
  <1>5. TaskOK(Head(todo), {}, visitors) <=> ok /\ Pending(nodes, visitors)
    BY <1>1, <1>2, <1>3, HeadStatement DEF Pending
  <1>6. \A d \in DOMAIN visitors : visitors[d] = With(Names({Head(todo)}, d), visitors[d])
    <2> TAKE d \in DOMAIN visitors
    <2>1. Names({Head(todo)}, d) = {}
      BY <1>1, HeadDeclares
    <2>2. visitors[d] \in Scope
      BY <1>1, Heads, SomeObject
    <2>3. With({}, visitors[d]) = visitors[d]
      BY <2>2, WithMore
    <2> QED
      BY <2>1, <2>3
  <1>7. \A i \in DOMAIN Tail(todo), T \in SUBSET Task :
           TaskOK(Tail(todo)[i], First(nodes, Len(nodes)) \cup T, visitors) <=>
           TaskOK(Tail(todo)[i], {Head(todo)} \cup T, visitors)
    BY <1>1, <1>2, <1>6, HeadStatement, StatementShift
  <1> QED
    BY <1>1, <1>2, <1>4, <1>5, <1>7, HandleFollowsRules

LEMMA VarFollowsRules ==
    ASSUME VInv, IInv', VisitVar
    PROVE  VInv'
  <1> DEFINE ok == /\ check_variables(names_in[node.expression], this)
                   /\ is_unique(node.name, this)
             v == add_local(node.name, this)
             nodes == <<>>
             h == Head(todo).visitor
  <1>1. /\ IInv /\ ~visitors[1].inside_loop /\ verdict = "checking" /\ todo # <<>>
        /\ node.kind = "Var"
    BY DEF VisitVar, Visiting, VInv
  <1>2. Handle(ok, Update(v), nodes) /\ ok \in BOOLEAN
    BY DEF VisitVar, is_unique, check_variables
  <1>3. ok <=> Obeys(node, this)
    BY <1>1 DEF Obeys, Sees, IsNew, check_variables, is_unique
  <1>4. nodes \in Seq(Task) /\ \A i \in DOMAIN nodes : FALSE
    OBVIOUS
  <1>5. Blocks(node, this) = {}
    BY <1>1 DEF Blocks
  <1>6. this \in Scope /\ node.name \in Name
    BY <1>1, HeadStatement, StatementFields
  <1>7. v = With({node.name}, this)
    BY DEF add_local, With
  <1>8. /\ h \in DOMAIN visitors /\ this = visitors[h] /\ visitors \in Seq(Visitor)
        /\ Update(v) = [visitors EXCEPT ![h] = v]
        /\ 1 \in DOMAIN visitors /\ \A d \in DOMAIN visitors : visitors[d] \in Scope
    BY <1>1, Heads, SomeObject DEF this, Update
  <1> HIDE DEF ok, nodes, h, v
  <1>9. TaskOK(Head(todo), {}, visitors) <=> ok /\ Pending(nodes, Update(v))
    BY <1>1, <1>3, <1>4, <1>5, HeadStatement DEF Pending
  <1>10. \A d \in DOMAIN visitors :
            Update(v)[d] = With(Names({Head(todo)}, d), visitors[d])
    <2> TAKE d \in DOMAIN visitors
    <2>1. Names({Head(todo)}, d) = IF d = h THEN {node.name} ELSE {}
      BY <1>1, HeadDeclares DEF h
    <2>2. With({}, visitors[d]) = visitors[d]
      BY <1>8, WithMore
    <2>3. Update(v)[d] = IF d = h THEN v ELSE visitors[d]
      BY <1>8
    <2> QED
      BY <1>7, <1>8, <2>1, <2>2, <2>3
  <1>11. ~Update(v)[1].inside_loop
    <2>1. Update(v)[1] = With(Names({Head(todo)}, 1), visitors[1])
      BY <1>8, <1>10
    <2> QED
      BY <1>1, <1>8, <2>1 DEF With, Scope
  <1>12. \A i \in DOMAIN Tail(todo), T \in SUBSET Task :
           TaskOK(Tail(todo)[i], First(nodes, Len(nodes)) \cup T, Update(v)) <=>
           TaskOK(Tail(todo)[i], {Head(todo)} \cup T, visitors)
    BY <1>1, <1>4, <1>10, HeadStatement, StatementShift
  <1> QED
    BY <1>1, <1>2, <1>4, <1>9, <1>11, <1>12, HandleFollowsRules

(* A handler that makes copies for the blocks of its statement: the        *)
(* existing objects are left alone.                                        *)
LEMMA BlocksFollowRules ==
    ASSUME VInv, IInv', verdict = "checking", todo # <<>>,
           node.kind \in {"If", "While", "For"},
           NEW ok \in BOOLEAN, NEW visitors2, NEW nodes \in Seq(Task),
           Handle(ok, visitors2, nodes),
           \A d \in DOMAIN visitors : visitors2[d] = visitors[d],
           \A i \in DOMAIN nodes : /\ ~IsSymbol(nodes[i])
                                   /\ nodes[i].visitor > Len(visitors),
           ok /\ Pending(nodes, visitors2) <=>
              /\ Obeys(node, this)
              /\ \A b \in Blocks(node, this) : BlockIn(b[1], b[2], WellScoped)
    PROVE  VInv'
  <1>1. IInv /\ ~visitors[1].inside_loop
    BY DEF VInv
  <1>2. /\ DOMAIN visitors = 1 .. Len(visitors) /\ Len(visitors) \in Nat
        /\ 1 \in DOMAIN visitors /\ \A d \in DOMAIN visitors : visitors[d] \in Scope
    BY <1>1, Heads, SomeObject
  <1>3. \A d \in DOMAIN visitors :
           visitors2[d] = With(Names({Head(todo)}, d), visitors[d])
    <2> TAKE d \in DOMAIN visitors
    <2>1. Names({Head(todo)}, d) = {}
      BY <1>1, HeadDeclares
    <2>2. With({}, visitors[d]) = visitors[d]
      BY <1>2, WithMore
    <2> QED
      BY <2>1, <2>2
  <1>4. ~visitors2[1].inside_loop
    BY <1>1, <1>2
  <1>5. \A i \in DOMAIN nodes : /\ ~IsSymbol(nodes[i])
                                /\ nodes[i].visitor \notin DOMAIN visitors
    BY <1>2
  <1>6. \A i \in DOMAIN Tail(todo), T \in SUBSET Task :
           TaskOK(Tail(todo)[i], First(nodes, Len(nodes)) \cup T, visitors2) <=>
           TaskOK(Tail(todo)[i], {Head(todo)} \cup T, visitors)
    BY <1>1, <1>3, <1>5, HeadStatement, StatementShift
  <1>7. TaskOK(Head(todo), {}, visitors) <=> ok /\ Pending(nodes, visitors2)
    BY <1>1, HeadStatement
  <1> QED
    BY <1>1, <1>4, <1>5, <1>6, <1>7, HandleFollowsRules

(* One block, visited with one copy.                                       *)
LEMMA BlockFollowsRules ==
    ASSUME VInv, IInv', verdict = "checking", todo # <<>>,
           node.kind \in {"While", "For"},
           NEW ok \in BOOLEAN, NEW v,
           Handle(ok, Append(visitors, v), visit(node.statements, inner)),
           ok <=> Obeys(node, this),
           Blocks(node, this) = {<<node.statements, v>>}
    PROVE  VInv'
  <1> DEFINE vs == Append(visitors, v)
             nodes == visit(node.statements, inner)
  <1>1. /\ IInv /\ node.statements \in Seq(Stmt) /\ visitors \in Seq(Visitor)
        /\ inner = Len(visitors) + 1 /\ Len(visitors) \in Nat
        /\ DOMAIN visitors = 1 .. Len(visitors)
    BY StatementFields, Heads DEF VInv, inner
  <1>2. vs[inner] = v /\ \A d \in DOMAIN visitors : vs[d] = visitors[d]
    BY <1>1
  <1> DEFINE c == inner
  <1>3. c \in Nat \ {0} /\ c > Len(visitors)
    BY <1>1
  <1>4. /\ nodes \in Seq(Task)
        /\ \A i \in DOMAIN nodes : nodes[i].visitor = c /\ ~IsSymbol(nodes[i])
        /\ Pending(nodes, vs) <=> BlockIn(node.statements, vs[c], WellScoped)
    <2> HIDE DEF c, vs
    <2> DEFINE ts == visit(node.statements, c)
    <2>1. /\ ts \in Seq(Task)
          /\ \A i \in DOMAIN ts : ts[i].visitor = c
          /\ \A i \in DOMAIN ts : ~IsSymbol(ts[i])
          /\ Pending(ts, vs) <=> BlockIn(node.statements, vs[c], WellScoped)
      BY <1>1, <1>3, VisitStatements, PendingBlock
    <2>2. ts = nodes
      BY DEF c
    <2> HIDE DEF ts, nodes
    <2> QED
      BY <2>1, <2>2
  <1> HIDE DEF vs, nodes
  <1>5. ok /\ Pending(nodes, vs) <=>
           /\ Obeys(node, this)
           /\ \A b \in Blocks(node, this) : BlockIn(b[1], b[2], WellScoped)
    BY <1>2, <1>4
  <1>6. Handle(ok, vs, nodes)
    BY DEF vs, nodes
  <1>7. \A i \in DOMAIN nodes : ~IsSymbol(nodes[i]) /\ nodes[i].visitor > Len(visitors)
    BY <1>3, <1>4
  <1> QED
    BY <1>2, <1>4, <1>5, <1>6, <1>7, BlocksFollowRules

LEMMA WhileFollowsRules ==
    ASSUME VInv, IInv', VisitWhile
    PROVE  VInv'
  <1> DEFINE ok == check_variables(names_in[node.condition], this)
             v == with_block_scope(TRUE)
  <1>1. verdict = "checking" /\ todo # <<>> /\ node.kind = "While"
    BY DEF VisitWhile, Visiting
  <1>2. /\ ok \in BOOLEAN
        /\ Handle(ok, Append(visitors, v), visit(node.statements, inner))
    BY DEF VisitWhile, check_variables
  <1>3. ok <=> Obeys(node, this)
    BY <1>1 DEF Obeys, Sees, check_variables
  <1>4. Blocks(node, this) = {<<node.statements, v>>}
    BY <1>1 DEF Blocks, Inside, with_block_scope
  <1> HIDE DEF ok, v
  <1> QED
    BY <1>1, <1>2, <1>3, <1>4, BlockFollowsRules

LEMMA ForFollowsRules ==
    ASSUME VInv, IInv', VisitFor
    PROVE  VInv'
  <1> DEFINE v == add_local(node.name, with_block_scope(TRUE))
             ok == /\ check_variables(names_in[node.initial], this)
                   /\ is_unique(node.name, this)
                   /\ check_variables(names_in[node.condition], v)
                   /\ check_variables(names_in[node.update], v)
  <1>1. verdict = "checking" /\ todo # <<>> /\ node.kind = "For"
    BY DEF VisitFor, Visiting
  <1>2. /\ ok \in BOOLEAN
        /\ Handle(ok, Append(visitors, v), visit(node.statements, inner))
    BY DEF VisitFor, check_variables, is_unique
  <1>3. v = With({node.name}, Inside(this))
    BY DEF Inside, With, with_block_scope, add_local
  <1>4. this \in Scope /\ node.name \in Name
    BY <1>1, HeadStatement, StatementFields DEF VInv
  <1>5. v.globals = this.globals /\ v.locals = this.locals \cup {node.name}
    BY <1>3, <1>4 DEF With, Inside, Scope
  <1>6. /\ With({node.name}, this).globals = this.globals
        /\ With({node.name}, this).locals = this.locals \cup {node.name}
    BY <1>4 DEF With, Scope
  <1> HIDE DEF v
  <1>7. ok <=> Obeys(node, this)
    BY <1>1, <1>5, <1>6 DEF Obeys, Sees, IsNew, check_variables, is_unique
  <1>8. Blocks(node, this) = {<<node.statements, v>>}
    BY <1>1, <1>3 DEF Blocks
  <1> HIDE DEF ok
  <1> QED
    BY <1>1, <1>2, <1>7, <1>8, BlockFollowsRules

LEMMA IfFollowsRules ==
    ASSUME VInv, IInv', VisitIf
    PROVE  VInv'
  <1> DEFINE ok == check_variables(names_in[node.condition], this)
             v == with_block_scope(this.inside_loop)
             vs == visitors \o <<v, v>>
             second == inner + 1
             ts == visit(node.then_statements, inner)
             es == visit(node.else_statements, second)
             nodes == ts \o es
  <1>1. verdict = "checking" /\ todo # <<>> /\ node.kind = "If" /\ IInv
    BY DEF VisitIf, Visiting, VInv
  <1>2. ok \in BOOLEAN /\ Handle(ok, vs, nodes)
    BY Zenon DEF VisitIf, check_variables
  <1>3. this \in Scope /\ v = this
    <2>1. this \in Scope
      BY <1>1, HeadStatement
    <2> QED
      BY <2>1 DEF with_block_scope, Scope
  <1>4. ok <=> Obeys(node, this)
    BY <1>1 DEF Obeys, Sees, check_variables
  <1>5. Blocks(node, this) =
           {<<node.then_statements, this>>, <<node.else_statements, this>>}
    BY <1>1 DEF Blocks
  <1>6. /\ visitors \in Seq(Visitor) /\ Len(visitors) \in Nat
        /\ DOMAIN visitors = 1 .. Len(visitors)
        /\ inner = Len(visitors) + 1 /\ second = inner + 1
        /\ inner \in Nat \ {0} /\ second \in Nat \ {0}
        /\ node.then_statements \in Seq(Stmt) /\ node.else_statements \in Seq(Stmt)
        /\ this \in Visitor
    BY <1>1, Heads, StatementFields DEF inner
  <1> HIDE DEF v
  <1>7. /\ \A d \in DOMAIN visitors : vs[d] = visitors[d]
        /\ vs[inner] = this /\ vs[second] = this
    BY <1>3, <1>6
  <1> HIDE DEF second, vs, ok
  <1>8. /\ ts \in Seq(Task) /\ es \in Seq(Task)
        /\ \A i \in DOMAIN ts : ts[i].visitor = inner /\ ~IsSymbol(ts[i])
        /\ \A i \in DOMAIN es : es[i].visitor = second /\ ~IsSymbol(es[i])
        /\ Pending(ts, vs) <=> BlockIn(node.then_statements, this, WellScoped)
        /\ Pending(es, vs) <=> BlockIn(node.else_statements, this, WellScoped)
    <2>1. /\ ts \in Seq(Task)
          /\ \A i \in DOMAIN ts : ts[i].visitor = inner
          /\ \A i \in DOMAIN ts : ~IsSymbol(ts[i])
          /\ Pending(ts, vs) <=> BlockIn(node.then_statements, this, WellScoped)
      BY <1>6, <1>7, VisitStatements, PendingBlock
    <2>2. /\ es \in Seq(Task)
          /\ \A i \in DOMAIN es : es[i].visitor = second
          /\ \A i \in DOMAIN es : ~IsSymbol(es[i])
          /\ Pending(es, vs) <=> BlockIn(node.else_statements, this, WellScoped)
      BY <1>6, <1>7, VisitStatements, PendingBlock
    <2> HIDE DEF ts, es
    <2> QED
      BY <2>1, <2>2
  <1> HIDE DEF ts, es
  <1>9. Pending(nodes, vs) <=> Pending(ts, vs) /\ Pending(es, vs)
    <2>1. Names(First(ts, Len(ts)), second) = {}
      <3>1. \A i \in DOMAIN ts : ~IsSymbol(ts[i]) /\ ts[i].visitor # second
        BY <1>6, <1>8
      <3> QED
        BY <1>8, <3>1, NothingDeclared
    <2>2. ASSUME NEW i \in DOMAIN es
          PROVE  TaskOK(es[i], First(ts, Len(ts)) \cup First(es, i - 1), vs) <=>
                 TaskOK(es[i], First(es, i - 1), vs)
      <3> DEFINE A == First(ts, Len(ts))
                 B == First(es, i - 1)
      <3>1. Names(A \cup B, second) = Names(A, second) \cup Names(B, second)
        BY NamesUnion
      <3>2. Names(A \cup B, second) = Names(B, second)
        BY <2>1, <3>1
      <3> HIDE DEF A, B
      <3>3. ~IsSymbol(es[i]) /\ es[i].visitor = second
        BY <1>8
      <3>4. TaskOK(es[i], A \cup B, vs) <=> TaskOK(es[i], B, vs)
        BY <3>2, <3>3 DEF TaskOK
      <3> QED
        BY <3>4 DEF A, B
    <2>3. Pending(nodes, vs) <=>
             /\ Pending(ts, vs)
             /\ \A i \in DOMAIN es :
                   TaskOK(es[i], First(ts, Len(ts)) \cup First(es, i - 1), vs)
      BY <1>8, PendingConcat
    <2> QED
      BY <2>2, <2>3 DEF Pending
  <1>10. /\ nodes \in Seq(Task)
         /\ \A i \in DOMAIN nodes : ~IsSymbol(nodes[i]) /\ nodes[i].visitor > Len(visitors)
    <2>1. /\ nodes \in Seq(Task)
          /\ \A i \in DOMAIN nodes :
                \/ i \in DOMAIN ts /\ nodes[i] = ts[i]
                \/ i - Len(ts) \in DOMAIN es /\ nodes[i] = es[i - Len(ts)]
      BY <1>8
    <2>2. /\ \A i \in DOMAIN ts : ~IsSymbol(ts[i]) /\ ts[i].visitor > Len(visitors)
          /\ \A i \in DOMAIN es : ~IsSymbol(es[i]) /\ es[i].visitor > Len(visitors)
      BY <1>6, <1>8
    <2> HIDE DEF nodes
    <2>3. ASSUME NEW i \in DOMAIN nodes
          PROVE  ~IsSymbol(nodes[i]) /\ nodes[i].visitor > Len(visitors)
      <3>1. CASE i \in DOMAIN ts /\ nodes[i] = ts[i]
        BY <2>2, <3>1
      <3>2. CASE i - Len(ts) \in DOMAIN es /\ nodes[i] = es[i - Len(ts)]
        BY <2>2, <3>2
      <3> QED
        BY <2>1, <3>1, <3>2
    <2> QED
      BY <2>1, <2>3
  <1> HIDE DEF nodes
  <1>11. ok /\ Pending(nodes, vs) <=>
           /\ Obeys(node, this)
           /\ \A b \in Blocks(node, this) : BlockIn(b[1], b[2], WellScoped)
    BY <1>4, <1>5, <1>8, <1>9
  <1> QED
    BY <1>1, <1>2, <1>7, <1>10, <1>11, BlocksFollowRules

(* Symbols.                                                                *)
LEMMA HeadSymbol ==
    ASSUME VInv, todo # <<>>, node.kind \in {"GlobalVar", "Function"}
    PROVE  /\ IsSymbol(Head(todo)) /\ Head(todo).visitor = 1 /\ this = visitors[1]
           /\ this \in Visitor /\ ~this.inside_loop
           /\ Update(this) = visitors
           /\ \A v \in Visitor : Update(v)[1] = v
           /\ TaskOK(Head(todo), {}, visitors) <=> SymbolOK(node, this.globals)
  <1>1. IsSymbol(Head(todo)) /\ IInv
    BY DEF IsSymbol, node, VInv
  <1>2. Head(todo).visitor = 1
    BY <1>1, Heads DEF VInv, SymbolsLast
  <1>3. this = visitors[1] /\ this \in Visitor /\ 1 \in DOMAIN visitors
        /\ visitors \in Seq(Visitor)
    BY <1>1, <1>2, Heads, SomeObject DEF this
  <1>4. SymbolNames({}) = {}
    BY DEF SymbolNames
  <1>5. visitors[1].globals \cup {} = this.globals
    BY <1>3
  <1>6. TaskOK(Head(todo), {}, visitors) <=> SymbolOK(node, this.globals)
    BY <1>1, <1>4, <1>5 DEF TaskOK, node
  <1>7. Update(this) = visitors /\ \A v \in Visitor : Update(v)[1] = v
    BY <1>2, <1>3 DEF Update
  <1> QED
    BY <1>1, <1>2, <1>3, <1>6, <1>7 DEF VInv

LEMMA GlobalVarFollowsRules ==
    ASSUME VInv, IInv', VisitGlobalVar
    PROVE  VInv'
  <1> DEFINE ok == is_unique_global(node.name, this)
             v == [this EXCEPT !.globals = @ \cup {node.name}]
             nodes == <<>>
  <1>1. /\ IInv /\ SymbolsLast /\ verdict = "checking" /\ todo # <<>>
        /\ node.kind = "GlobalVar"
    BY DEF VisitGlobalVar, Visiting, VInv
  <1>2. Handle(ok, Update(v), nodes) /\ ok \in BOOLEAN
    BY DEF VisitGlobalVar, is_unique_global
  <1>3. nodes \in Seq(Task) /\ \A i \in DOMAIN nodes : FALSE
    OBVIOUS
  <1>4. /\ this \in Visitor /\ this = visitors[1] /\ ~this.inside_loop /\ node.name \in Name
        /\ IsSymbol(Head(todo))
        /\ TaskOK(Head(todo), {}, visitors) <=> SymbolOK(node, this.globals)
    BY <1>1, HeadSymbol, StatementFields DEF GlobalVar
  <1>5. v \in Visitor /\ v.globals = this.globals \cup {node.name} /\ ~v.inside_loop
    BY <1>4 DEF Visitor
  <1> HIDE DEF v, nodes
  <1>6. Update(v)[1] = v
    BY <1>1, <1>5, HeadSymbol
  <1>7. SymbolOK(node, this.globals) <=> ok
    BY <1>1 DEF SymbolOK, is_unique_global
  <1> HIDE DEF ok
  <1>8. TaskOK(Head(todo), {}, visitors) <=> ok /\ Pending(nodes, Update(v))
    BY <1>3, <1>4, <1>7 DEF Pending
  <1>9. Update(v)[1].globals = visitors[1].globals \cup {node.name}
    BY <1>4, <1>5, <1>6
  <1>10. \A i \in DOMAIN Tail(todo), T \in SUBSET Task :
           TaskOK(Tail(todo)[i], First(nodes, Len(nodes)) \cup T, Update(v)) <=>
           TaskOK(Tail(todo)[i], {Head(todo)} \cup T, visitors)
    BY <1>1, <1>3, <1>4, <1>9, SymbolShift
  <1> QED
    BY <1>1, <1>2, <1>3, <1>5, <1>6, <1>8, <1>10, HandleFollowsRules

LEMMA ReplacedNames ==
    ASSUME NEW v \in Visitor, NEW G \in SUBSET Name, NEW L \in SUBSET Name
    PROVE  [v EXCEPT !.globals = G, !.locals = L] =
              [globals |-> G, locals |-> L, inside_loop |-> v.inside_loop]
  <1> DEFINE w == [v EXCEPT !.globals = G, !.locals = L]
             u == [globals |-> G, locals |-> L, inside_loop |-> v.inside_loop]
  <1>1. w \in Visitor
    BY DEF Visitor
  <1>2. w.globals = G /\ w.locals = L /\ w.inside_loop = v.inside_loop
    BY DEF Visitor
  <1> HIDE DEF w
  <1>3. w = [globals |-> w.globals, locals |-> w.locals, inside_loop |-> w.inside_loop]
    BY <1>1 DEF Visitor
  <1>4. w = u
    BY <1>2, <1>3
  <1> QED
    BY <1>4 DEF w, u

LEMMA FunctionFollowsRules ==
    ASSUME VInv, IInv', VisitFunction
    PROVE  VInv'
  <1> DEFINE arguments == {node.arguments[i] : i \in DOMAIN node.arguments}
             globals == this.globals \cup {node.name}
             v == [this EXCEPT !.globals = globals, !.locals = arguments]
             distinct == \A i, j \in DOMAIN node.arguments :
                            node.arguments[i] = node.arguments[j] => i = j
             ok == /\ is_unique_global(node.name, this)
                   /\ arguments \cap globals = {}
                   /\ distinct
             nodes == visit(node.statements, 1)
  <1>1. /\ IInv /\ SymbolsLast /\ verdict = "checking" /\ todo # <<>>
        /\ node.kind = "Function"
    BY DEF VisitFunction, Visiting, VInv
  <1>2. /\ this \in Visitor /\ this = visitors[1] /\ ~this.inside_loop
        /\ node \in Function /\ IsSymbol(Head(todo)) /\ Head(todo).visitor = 1
        /\ TaskOK(Head(todo), {}, visitors) <=> SymbolOK(node, this.globals)
    BY <1>1, HeadSymbol, StatementFields
  <1>3. Handle(ok, Update(v), nodes) /\ ok \in BOOLEAN
    BY <1>2, Zenon DEF VisitFunction, is_unique_global
  <1>4. /\ node.name \in Name /\ node.arguments \in Seq(Name)
        /\ node.statements \in Seq(Stmt)
    BY <1>2 DEF Function
  <1>5. /\ arguments \in SUBSET Name /\ globals \in SUBSET Name
    BY <1>2, <1>4 DEF Visitor
  <1> DEFINE scope == [globals |-> globals, locals |-> arguments, inside_loop |-> FALSE]
  <1>6. SymbolOK(node, this.globals) <=>
           /\ node.name \notin this.globals
           /\ arguments \cap globals = {}
           /\ distinct
           /\ BlockIn(node.statements, scope, WellScoped)
    BY <1>1, Zenon DEF SymbolOK
  <1> HIDE DEF arguments, globals, distinct
  <1>7. v \in Visitor /\ v = scope /\ ~v.inside_loop /\ v.globals = globals
    <2>1. this.inside_loop = FALSE
      BY <1>2 DEF Visitor
    <2>2. v = [globals |-> globals, locals |-> arguments, inside_loop |-> this.inside_loop]
      BY <1>2, <1>5, ReplacedNames
    <2>3. v = scope
      BY <2>1, <2>2
    <2> HIDE DEF v
    <2>4. v \in Visitor
      BY <1>5, <2>3 DEF Visitor
    <2>5. ~v.inside_loop /\ v.globals = globals
      BY <2>3
    <2> QED
      BY <2>3, <2>4, <2>5
  <1> HIDE DEF v, scope
  <1>8. Update(v)[1] = v
    BY <1>1, <1>7, HeadSymbol
  <1>9. /\ nodes \in Seq(Task)
        /\ \A i \in DOMAIN nodes : ~IsSymbol(nodes[i])
        /\ Pending(nodes, Update(v)) <=> BlockIn(node.statements, v, WellScoped)
    <2> DEFINE c == 1
               ts == visit(node.statements, c)
               vs == Update(v)
    <2>1. c \in Nat \ {0} /\ vs[c] = v
      BY <1>8
    <2> HIDE DEF c, vs
    <2>2. /\ ts \in Seq(Task)
          /\ \A i \in DOMAIN ts : ~IsSymbol(ts[i])
          /\ Pending(ts, vs) <=> BlockIn(node.statements, vs[c], WellScoped)
      BY <1>4, <2>1, VisitStatements, PendingBlock
    <2>3. ts = nodes
      BY DEF c
    <2> HIDE DEF ts, nodes
    <2> QED
      BY <2>1, <2>2, <2>3 DEF vs
  <1> HIDE DEF nodes
  <1>10. TaskOK(Head(todo), {}, visitors) <=> ok /\ Pending(nodes, Update(v))
    BY <1>2, <1>6, <1>7, <1>9 DEF is_unique_global
  <1>11. Update(v)[1].globals = visitors[1].globals \cup {node.name}
    BY <1>2, <1>7, <1>8 DEF globals
  <1>12. \A i \in DOMAIN Tail(todo), T \in SUBSET Task :
           TaskOK(Tail(todo)[i], First(nodes, Len(nodes)) \cup T, Update(v)) <=>
           TaskOK(Tail(todo)[i], {Head(todo)} \cup T, visitors)
    BY <1>1, <1>2, <1>9, <1>11, SymbolShift
  <1> HIDE DEF ok
  <1>13. ~Update(v)[1].inside_loop
    BY <1>7, <1>8
  <1> QED
    BY <1>1, <1>3, <1>9, <1>10, <1>12, <1>13, HandleFollowsRules

-----------------------------------------------------------------------------
LEMMA VisitSymbols ==
    ASSUME NEW nodes \in Seq(GlobalVar \cup Function)
    PROVE  /\ visit(nodes, 1) \in Seq(Task)
           /\ DOMAIN visit(nodes, 1) = 1 .. Len(nodes)
           /\ Len(visit(nodes, 1)) = Len(nodes)
           /\ \A i \in 1 .. Len(nodes) : /\ visit(nodes, 1)[i].node = nodes[i]
                                         /\ visit(nodes, 1)[i].visitor = 1
                                         /\ IsSymbol(visit(nodes, 1)[i])
  <1> DEFINE tasks == visit(nodes, 1)
  <1>1. Len(nodes) \in Nat /\ \A i \in 1 .. Len(nodes) : nodes[i] \in GlobalVar \cup Function
    OBVIOUS
  <1>2. /\ DOMAIN tasks = 1 .. Len(nodes)
        /\ tasks = [i \in 1 .. Len(nodes) |-> [node |-> nodes[i], visitor |-> 1]]
        /\ \A i \in 1 .. Len(nodes) : tasks[i] = [node |-> nodes[i], visitor |-> 1]
    BY DEF visit
  <1> HIDE DEF tasks
  <1>3. \A i \in 1 .. Len(nodes) : tasks[i].node = nodes[i] /\ tasks[i].visitor = 1
    BY <1>2
  <1>4. \A i \in 1 .. Len(nodes) : tasks[i] \in Task
    BY <1>1, <1>2 DEF Task
  <1>5. \A x \in GlobalVar \cup Function : x.kind \in {"GlobalVar", "Function"}
    BY DEF GlobalVar, Function
  <1>6. \A i \in 1 .. Len(nodes) : IsSymbol(tasks[i])
    BY <1>1, <1>3, <1>5 DEF IsSymbol
  <1>7. tasks \in [1 .. Len(nodes) -> Task]
    BY <1>2, <1>4
  <1>8. tasks \in Seq(Task)
    BY <1>1, <1>7, SeqDef
  <1>9. Len(tasks) = Len(nodes)
    BY <1>1, <1>2, <1>8
  <1> QED
    BY <1>2, <1>3, <1>6, <1>8, <1>9 DEF tasks

LEMMA InitVInv ==
    Init => VInv
  <1> SUFFICES ASSUME Init PROVE VInv
    OBVIOUS
  <1> DEFINE g == program.globalvars
             f == program.functions
             s == g \o f
             gs == visit(g, 1)
             fs == visit(f, 1)
             n == Len(g) + Len(f)
             X == GlobalVar \cup Function
  <1>1. /\ g \in Seq(GlobalVar) /\ f \in Seq(Function)
        /\ todo = gs \o fs /\ verdict = "checking"
        /\ visitors = <<[globals |-> {}, locals |-> {}, inside_loop |-> FALSE]>>
        /\ Symbols(program) = s
    BY AstAssumption DEF Init, Symbols
  <1>2. g \in Seq(X) /\ f \in Seq(X)
    <2> HIDE DEF g, f
    <2>1. g \in Seq(X)
      BY <1>1
    <2>2. f \in Seq(X)
      BY <1>1
    <2> QED
      BY <2>1, <2>2
  <1> HIDE DEF g, f
  <1>3. /\ gs \in Seq(Task) /\ Len(gs) = Len(g) /\ DOMAIN gs = 1 .. Len(g)
        /\ \A i \in 1 .. Len(g) : gs[i].node = g[i] /\ gs[i].visitor = 1 /\ IsSymbol(gs[i])
        /\ fs \in Seq(Task) /\ Len(fs) = Len(f) /\ DOMAIN fs = 1 .. Len(f)
        /\ \A i \in 1 .. Len(f) : fs[i].node = f[i] /\ fs[i].visitor = 1 /\ IsSymbol(fs[i])
    BY <1>2, VisitSymbols
  <1> HIDE DEF gs, fs, X
  <1>4. /\ Len(g) \in Nat /\ Len(f) \in Nat /\ n \in Nat /\ n = Len(g) + Len(f)
        /\ \A i \in 1 .. Len(g) : s[i] = g[i]
        /\ \A i \in 1 .. Len(f) : s[Len(g) + i] = f[i]
        /\ DOMAIN s = 1 .. n
    BY <1>2
  <1>5. /\ DOMAIN todo = 1 .. n /\ Len(todo) = n
        /\ \A i \in 1 .. Len(g) : todo[i] = gs[i]
        /\ \A i \in 1 .. Len(f) : todo[Len(g) + i] = fs[i]
    <2>1. /\ DOMAIN todo = 1 .. Len(gs) + Len(fs) /\ Len(todo) = Len(gs) + Len(fs)
          /\ \A i \in 1 .. Len(gs) : todo[i] = gs[i]
          /\ \A i \in 1 .. Len(fs) : todo[Len(gs) + i] = fs[i]
      <3>1. gs \in Seq(Task) /\ fs \in Seq(Task) /\ todo = gs \o fs
        BY <1>1, <1>3
      <3> QED
        BY <3>1
    <2> QED
      BY <1>3, <2>1
  <1> HIDE DEF s, n
  <1>6. ASSUME NEW i \in 1 .. n
        PROVE  todo[i].node = s[i] /\ todo[i].visitor = 1 /\ IsSymbol(todo[i])
    <2>1. CASE i \in 1 .. Len(g)
      BY <1>3, <1>4, <1>5, <2>1
    <2>2. CASE i \notin 1 .. Len(g)
      <3> DEFINE j == i - Len(g)
      <3>1. j \in 1 .. Len(f) /\ i = Len(g) + j
        BY <1>4, <2>2
      <3> HIDE DEF j
      <3>2. todo[i] = fs[j] /\ s[i] = f[j]
        BY <1>4, <1>5, <3>1
      <3> QED
        BY <1>3, <3>1, <3>2
    <2> QED
      BY <2>1, <2>2
  <1>7. ASSUME NEW i \in 1 .. n
        PROVE  SymbolNames(First(todo, i - 1)) = {s[j].name : j \in 1 .. i - 1}
    <2>1. \A j \in 1 .. i - 1 : j \in 1 .. n
      BY <1>4
    <2>2. \A j \in 1 .. i - 1 : IsSymbol(todo[j]) /\ todo[j].node.name = s[j].name
      BY <1>6, <2>1
    <2> QED
      BY <2>2 DEF SymbolNames, First
  <1> DEFINE before(i) == {s[j].name : j \in 1 .. i - 1}
  <1>8. ASSUME NEW i \in 1 .. n
        PROVE  TaskOK(todo[i], First(todo, i - 1), visitors) <=> SymbolOK(s[i], before(i))
    <2> DEFINE names == before(i)
    <2>1. visitors[1].globals \cup names = names
      BY <1>1
    <2>2. SymbolNames(First(todo, i - 1)) = names
      BY <1>7
    <2>3. todo[i].node = s[i] /\ IsSymbol(todo[i])
      BY <1>6
    <2> HIDE DEF names
    <2>4. TaskOK(todo[i], First(todo, i - 1), visitors) <=> SymbolOK(s[i], names)
      BY <2>1, <2>2, <2>3 DEF TaskOK
    <2> QED
      BY <2>4 DEF names
  <1>9. Pending(todo, visitors) <=> \A k \in DOMAIN s : SymbolOK(s[k], before(k))
    <2> HIDE DEF before
    <2> QED
      BY <1>4, <1>5, <1>8 DEF Pending
  <1>10. WellScopedProgram(program) <=>
            (\A k \in DOMAIN s : SymbolOK(s[k], before(k))) /\ HasMain(program)
    BY <1>1, Zenon DEF WellScopedProgram, HasMain
  <1>11. SymbolsLast
    <2>1. ASSUME NEW i \in DOMAIN todo
          PROVE  todo[i].visitor = 1 /\ \A j \in i .. Len(todo) : IsSymbol(todo[j])
      <3>1. \A j \in i .. Len(todo) : j \in 1 .. n
        BY <1>4, <1>5
      <3> QED
        BY <1>5, <1>6, <3>1
    <2> QED
      BY <2>1 DEF SymbolsLast
  <1>12. ~visitors[1].inside_loop
    BY <1>1
  <1> QED
    BY <1>1, <1>9, <1>10, <1>11, <1>12, InitIInv DEF VInv

LEMMA NextFollowsRules ==
    ASSUME VInv, [Next]_vars
    PROVE  VInv'
  <1>0. IInv /\ IInv'
    BY NextPreserves DEF VInv
  <1>1. CASE VisitGlobalVar
    BY <1>0, <1>1, GlobalVarFollowsRules
  <1>2. CASE VisitFunction
    BY <1>0, <1>2, FunctionFollowsRules
  <1>3. CASE VisitBreakContinue
    <2>1. /\ verdict = "checking" /\ todo # <<>> /\ node.kind \in {"Break", "Continue"}
          /\ Handle(this.inside_loop, visitors, <<>>)
      BY <1>3 DEF VisitBreakContinue, Visiting
    <2>2. this.inside_loop \in BOOLEAN
      BY <1>0, <2>1, Heads DEF Visitor
    <2>3. this.inside_loop <=> Obeys(node, this)
      BY <2>1 DEF Obeys
    <2> QED
      BY <1>0, <2>1, <2>2, <2>3, LookupFollowsRules
  <1>4. CASE VisitExpressionReturn
    <2> DEFINE ok == check_variables(names_in[node.expression], this)
    <2>1. /\ verdict = "checking" /\ todo # <<>>
          /\ node.kind \in {"ExpressionStatement", "Return"}
          /\ ok \in BOOLEAN /\ Handle(ok, visitors, <<>>)
      BY <1>4 DEF VisitExpressionReturn, Visiting, check_variables
    <2>2. ok <=> Obeys(node, this)
      BY <2>1 DEF Obeys, Sees, check_variables
    <2> HIDE DEF ok
    <2> QED
      BY <1>0, <2>1, <2>2, LookupFollowsRules
  <1>5. CASE VisitLet
    <2> DEFINE ok == check_variables({node.name} \cup names_in[node.expression], this)
    <2>1. /\ verdict = "checking" /\ todo # <<>> /\ node.kind = "Let"
          /\ ok \in BOOLEAN /\ Handle(ok, visitors, <<>>)
      BY <1>5 DEF VisitLet, Visiting, check_variables
    <2>2. ok <=> Obeys(node, this)
      BY <2>1 DEF Obeys, Sees, check_variables
    <2> HIDE DEF ok
    <2> QED
      BY <1>0, <2>1, <2>2, LookupFollowsRules
  <1>6. CASE VisitVar
    BY <1>0, <1>6, VarFollowsRules
  <1>7. CASE VisitIf
    BY <1>0, <1>7, IfFollowsRules
  <1>8. CASE VisitWhile
    BY <1>0, <1>8, WhileFollowsRules
  <1>9. CASE VisitFor
    BY <1>0, <1>9, ForFollowsRules
  <1>10. CASE VisitProgramEnd
    <2>1. /\ verdict = "checking" /\ todo = <<>> /\ program' = program /\ todo' = todo
          /\ visitors' = visitors
          /\ verdict' = IF HasMain(program) THEN "accepted" ELSE "exit(1)"
      BY <1>10 DEF VisitProgramEnd, HasMain
    <2>2. Pending(todo, visitors)
      BY <2>1 DEF Pending
    <2>3. HasMain(program) <=> WellScopedProgram(program)
      BY <2>1, <2>2 DEF VInv
    <2> QED
      BY <1>0, <2>1, <2>3 DEF VInv, SymbolsLast
  <1>11. CASE UNCHANGED vars
    BY <1>0, <1>11 DEF vars, VInv, SymbolsLast
  <1> QED
    BY <1>1, <1>2, <1>3, <1>4, <1>5, <1>6, <1>7, <1>8, <1>9, <1>10, <1>11 DEF Next

(* Whatever the program is, when the check is over its verdict is that of  *)
(* the rules: VariableUsage (backend.cpp:15-293), which walks the tree     *)
(* with objects that are copied for every block and changed on the way,    *)
(* accepts a program if and only if each of its statements obeys the rules *)
(* in the scope that the text around it defines.                           *)
THEOREM FollowsRules == Spec => []VerdictFollowsRules
  <1>1. Init => VInv
    BY InitVInv
  <1>2. VInv /\ [Next]_vars => VInv'
    BY NextFollowsRules
  <1>3. VInv => VerdictFollowsRules
    BY DEF VInv, VerdictFollowsRules
  <1> QED
    BY <1>1, <1>2, <1>3, PTL DEF Spec
=============================================================================
