---------------------------- MODULE ScopingProofs ----------------------------
(***************************************************************************)
(* Lemmas about Scoping that the proofs about the two visitors of arabilis *)
(* share: the largest set that is closed under the rules can be unfolded,  *)
(* and what the front of a sequence of tasks declares.                     *)
(***************************************************************************)
EXTENDS Scoping, TLAPS

LEMMA BlocksTyped ==
    ASSUME NEW s \in Stmt, NEW v \in Scope, NEW b \in Blocks(s, v)
    PROVE  b[1] \in Seq(Stmt) /\ b[2] \in Scope
  <1>1. /\ s.kind = "If" => /\ s.then_statements \in Seq(Stmt)
                            /\ s.else_statements \in Seq(Stmt)
        /\ s.kind \in {"While", "For"} => s.statements \in Seq(Stmt)
        /\ s.kind = "For" => s.name \in Name
    <2>1. s \in Statement(Expr, Stmt)
      BY AstAssumption
    <2> QED
      BY <2>1 DEF Statement
  <1>2. Inside(v) \in Scope
    BY DEF Inside, Scope
  <1>3. s.kind = "For" => With({s.name}, Inside(v)) \in Scope
    BY <1>1, <1>2 DEF With, Scope
  <1> QED
    BY <1>1, <1>2, <1>3 DEF Blocks

LEMMA WellScopedTyped ==
    WellScoped \subseteq Stmt \X Scope
  BY DEF WellScoped

(* A statement is well-scoped if and only if it obeys the rules itself and *)
(* the statements of its blocks are well-scoped.                           *)
LEMMA Unfold ==
    ASSUME NEW s \in Stmt, NEW v \in Scope
    PROVE  <<s, v>> \in WellScoped <=>
              /\ Obeys(s, v)
              /\ \A b \in Blocks(s, v) : BlockIn(b[1], b[2], WellScoped)
  <1>1. \A P, Q : P \subseteq Q => \A ss, w : BlockIn(ss, w, P) => BlockIn(ss, w, Q)
    BY DEF BlockIn
  <1>2. ASSUME NEW p \in WellScoped
        PROVE  /\ Obeys(p[1], p[2])
               /\ \A b \in Blocks(p[1], p[2]) : BlockIn(b[1], b[2], WellScoped)
    <2>1. PICK P \in SUBSET (Stmt \X Scope) : Closed(P) /\ p \in P
      BY DEF WellScoped
    <2>2. P \subseteq WellScoped
      BY <2>1 DEF WellScoped
    <2>3. /\ Obeys(p[1], p[2])
          /\ \A b \in Blocks(p[1], p[2]) : BlockIn(b[1], b[2], P)
      BY <2>1 DEF Closed
    <2> QED
      BY <1>1, <2>2, <2>3
  <1>3. ASSUME Obeys(s, v), \A b \in Blocks(s, v) : BlockIn(b[1], b[2], WellScoped)
        PROVE  <<s, v>> \in WellScoped
    <2> DEFINE p == <<s, v>>
               P == WellScoped \cup {p}
    <2>1. P \in SUBSET (Stmt \X Scope) /\ WellScoped \subseteq P /\ p \in P
      BY WellScopedTyped
    <2>2. p[1] = s /\ p[2] = v
      OBVIOUS
    <2> HIDE DEF p
    <2>3. Closed(P)
      <3> SUFFICES ASSUME NEW q \in P
                   PROVE  /\ Obeys(q[1], q[2])
                          /\ \A b \in Blocks(q[1], q[2]) : BlockIn(b[1], b[2], P)
        BY DEF Closed
      <3> HIDE DEF P
      <3>1. CASE q \in WellScoped
        BY <1>1, <1>2, <2>1, <3>1
      <3>2. CASE q = p
        BY <1>1, <1>3, <2>1, <2>2, <3>2
      <3> QED
        BY <3>1, <3>2 DEF P
    <2>4. p \in WellScoped
      <3> HIDE DEF P
      <3> QED
        BY <2>1, <2>3 DEF WellScoped
    <2> QED
      BY <2>4 DEF p
  <1>4. <<s, v>> \in WellScoped =>
           /\ Obeys(s, v)
           /\ \A b \in Blocks(s, v) : BlockIn(b[1], b[2], WellScoped)
    BY <1>2
  <1> QED
    BY <1>3, <1>4

-----------------------------------------------------------------------------
(* The first n elements of a sequence.                                     *)
First(s, n) == {s[j] : j \in 1 .. n}

LEMMA FirstConcat ==
    ASSUME NEW S, NEW a \in Seq(S), NEW b \in Seq(S)
    PROVE  /\ \A n \in 0 .. Len(a) : First(a \o b, n) = First(a, n)
           /\ \A n \in 0 .. Len(b) :
                 First(a \o b, Len(a) + n) = First(a, Len(a)) \cup First(b, n)
  <1> DEFINE c == a \o b
  <1>1. /\ Len(a) \in Nat /\ Len(b) \in Nat
        /\ \A i \in 1 .. Len(a) : c[i] = a[i]
        /\ \A i \in 1 .. Len(b) : c[Len(a) + i] = b[i]
    OBVIOUS
  <1> HIDE DEF c
  <1>2. ASSUME NEW n \in 0 .. Len(a)
        PROVE  First(c, n) = First(a, n)
    <2>1. \A j \in 1 .. n : c[j] = a[j]
      BY <1>1
    <2> QED
      BY <2>1 DEF First
  <1>3. ASSUME NEW n \in 0 .. Len(b)
        PROVE  First(c, Len(a) + n) = First(a, Len(a)) \cup First(b, n)
    <2>1. ASSUME NEW x \in First(c, Len(a) + n)
          PROVE  x \in First(a, Len(a)) \cup First(b, n)
      <3>1. PICK j \in 1 .. Len(a) + n : x = c[j]
        BY <2>1 DEF First
      <3>2. CASE j <= Len(a)
        BY <1>1, <3>1, <3>2 DEF First
      <3>3. CASE j > Len(a)
        <4>1. j - Len(a) \in 1 .. n /\ j - Len(a) \in 1 .. Len(b)
              /\ j = Len(a) + (j - Len(a))
          BY <1>1, <3>3
        <4>2. x = b[j - Len(a)]
          BY <1>1, <3>1, <4>1
        <4> QED
          BY <4>1, <4>2 DEF First
      <3> QED
        BY <1>1, <3>2, <3>3
    <2>2. ASSUME NEW x \in First(a, Len(a))
          PROVE  x \in First(c, Len(a) + n)
      BY <1>1, <2>2 DEF First
    <2>3. ASSUME NEW x \in First(b, n)
          PROVE  x \in First(c, Len(a) + n)
      <3>1. PICK j \in 1 .. n : x = b[j]
        BY <2>3 DEF First
      <3>2. Len(a) + j \in 1 .. Len(a) + n /\ c[Len(a) + j] = x
        BY <1>1, <3>1
      <3> QED
        BY <3>2 DEF First
    <2> QED
      BY <2>1, <2>2, <2>3
  <1> QED
    BY <1>2, <1>3 DEF c

LEMMA FirstTail ==
    ASSUME NEW S, NEW s \in Seq(S), s # <<>>
    PROVE  /\ \A n \in 0 .. Len(s) - 1 :
                 First(s, n + 1) = {Head(s)} \cup First(Tail(s), n)
           /\ First(s, 0) = {}
  <1> DEFINE t == Tail(s)
  <1>1. /\ Len(s) \in Nat /\ s[1] = Head(s)
        /\ \A i \in 1 .. Len(s) - 1 : t[i] = s[i + 1]
    OBVIOUS
  <1> HIDE DEF t
  <1>2. ASSUME NEW n \in 0 .. Len(s) - 1
        PROVE  First(s, n + 1) = {Head(s)} \cup First(t, n)
    <2>1. ASSUME NEW x \in First(s, n + 1)
          PROVE  x \in {Head(s)} \cup First(t, n)
      <3>1. PICK j \in 1 .. n + 1 : x = s[j]
        BY <2>1 DEF First
      <3>2. CASE j = 1
        BY <1>1, <3>1, <3>2
      <3>3. CASE j # 1
        <4>1. j - 1 \in 1 .. n /\ j - 1 \in 1 .. Len(s) - 1 /\ (j - 1) + 1 = j
          BY <1>1, <3>3
        <4>2. x = t[j - 1]
          BY <1>1, <3>1, <4>1
        <4> QED
          BY <4>1, <4>2 DEF First
      <3> QED
        BY <3>2, <3>3
    <2>2. ASSUME NEW x \in First(t, n)
          PROVE  x \in First(s, n + 1)
      <3>1. PICK j \in 1 .. n : x = t[j]
        BY <2>2 DEF First
      <3>2. j + 1 \in 1 .. n + 1 /\ s[j + 1] = x
        BY <1>1, <3>1
      <3> QED
        BY <3>2 DEF First
    <2>3. Head(s) \in First(s, n + 1)
      BY <1>1 DEF First
    <2> QED
      BY <2>1, <2>2, <2>3
  <1>3. First(s, 0) = {}
    BY DEF First
  <1> QED
    BY <1>2, <1>3 DEF t

(* Scopes that grow.                                                       *)
LEMMA WithMore ==
    ASSUME NEW v \in Scope, NEW A \in SUBSET Name, NEW B \in SUBSET Name
    PROVE  /\ With(A, v) \in Scope
           /\ With({}, v) = v
           /\ With(B, With(A, v)) = With(A \cup B, v)
  BY DEF With, Scope
-----------------------------------------------------------------------------
(* The equation of names_in has a solution, its least one, so names_in     *)
(* satisfies it: the names in an expression are those of the node and of   *)
(* the expressions below it.                                               *)
NamesStep(f, e) ==
    CASE e.kind \in {"AddressOf", "Variable"} -> {e.name}
      [] e.kind = "BinOp" -> f[e.lhs] \cup f[e.rhs]
      [] e.kind = "Call" -> {e.name} \cup UNION {f[e.arguments[i]] : i \in DOMAIN e.arguments}
      [] e.kind = "UnOp" -> f[e.rhs]
      [] OTHER -> {}

LEMMA Operands ==
    ASSUME NEW e \in Expr
    PROVE  /\ e.kind \in {"AddressOf", "Variable", "Call"} => e.name \in Name
           /\ e.kind = "BinOp" => e.lhs \in Expr /\ e.rhs \in Expr
           /\ e.kind = "UnOp" => e.rhs \in Expr
           /\ e.kind = "Call" => \A i \in DOMAIN e.arguments : e.arguments[i] \in Expr
  <1>1. e \in Expression(Expr)
    BY AstAssumption
  <1> QED
    BY <1>1 DEF Expression

LEMMA NamesStepGrows ==
    ASSUME NEW f \in [Expr -> SUBSET Name], NEW g \in [Expr -> SUBSET Name],
           \A e \in Expr : f[e] \subseteq g[e],
           NEW e \in Expr
    PROVE  NamesStep(f, e) \in SUBSET Name /\ NamesStep(f, e) \subseteq NamesStep(g, e)
  <1>1. CASE e.kind \in {"AddressOf", "Variable"}
    BY <1>1, Operands DEF NamesStep
  <1>2. CASE e.kind = "BinOp"
    BY <1>2, Operands DEF NamesStep
  <1>3. CASE e.kind = "UnOp"
    BY <1>3, Operands DEF NamesStep
  <1>4. CASE e.kind = "Call"
    <2>1. e.name \in Name /\ \A i \in DOMAIN e.arguments : e.arguments[i] \in Expr
      BY <1>4, Operands
    <2>2. /\ NamesStep(f, e) = {e.name} \cup UNION {f[e.arguments[i]] : i \in DOMAIN e.arguments}
          /\ NamesStep(g, e) = {e.name} \cup UNION {g[e.arguments[i]] : i \in DOMAIN e.arguments}
      BY <1>4 DEF NamesStep
    <2>3. \A i \in DOMAIN e.arguments : /\ f[e.arguments[i]] \subseteq g[e.arguments[i]]
                                        /\ f[e.arguments[i]] \subseteq Name
      BY <2>1
    <2> QED
      BY <2>1, <2>2, <2>3
  <1>5. CASE e.kind \notin {"AddressOf", "Variable", "BinOp", "UnOp", "Call"}
    BY <1>5 DEF NamesStep
  <1> QED
    BY <1>1, <1>2, <1>3, <1>4, <1>5

LEMMA NamesUnfold ==
    names_in = [e \in Expr |-> NamesStep(names_in, e)]
  <1> DEFINE T == [Expr -> SUBSET Name]
             F == {f \in T : \A e \in Expr : NamesStep(f, e) \subseteq f[e]}
             least == [e \in Expr |-> {x \in Name : \A f \in F : x \in f[e]}]
             next == [e \in Expr |-> NamesStep(least, e)]
  <1>1. least \in T /\ \A f \in F, e \in Expr : least[e] \subseteq f[e]
    OBVIOUS
  <1>2. ASSUME NEW e \in Expr
        PROVE  NamesStep(least, e) \in SUBSET Name /\ NamesStep(least, e) \subseteq least[e]
    <2>1. NamesStep(least, e) \in SUBSET Name
      <3> HIDE DEF least
      <3> QED
        BY <1>1, NamesStepGrows
    <2>2. ASSUME NEW f \in F
          PROVE  NamesStep(least, e) \subseteq f[e]
      <3> HIDE DEF least
      <3>1. NamesStep(least, e) \subseteq NamesStep(f, e)
        BY <1>1, NamesStepGrows
      <3> QED
        BY <3>1
    <2> HIDE DEF F
    <2> QED
      BY <2>1, <2>2
  <1>3. next \in T /\ \A e \in Expr : next[e] = NamesStep(least, e)
    BY <1>2
  <1>4. next \in F
    <2>1. ASSUME NEW e \in Expr
          PROVE  NamesStep(next, e) \subseteq next[e]
      <3> HIDE DEF least, next
      <3> QED
        BY <1>1, <1>2, <1>3, NamesStepGrows
    <2> HIDE DEF next
    <2> QED
      BY <1>3, <2>1
  <1>5. \A e \in Expr : least[e] = NamesStep(least, e)
    <2> HIDE DEF least, next, F
    <2> QED
      BY <1>1, <1>2, <1>3, <1>4
  <1>6. least = [e \in Expr |-> NamesStep(least, e)]
    <2> DEFINE D == Expr
    <2>1. least = [e \in D |-> least[e]]
      OBVIOUS
    <2> HIDE DEF least, F
    <2> QED
      BY <1>5, <2>1
  <1>7. \E f : f = [e \in Expr |-> NamesStep(f, e)]
    BY <1>6
  <1> QED
    BY <1>7 DEF names_in, NamesStep

(* What a visitor looks up below a node it looks up in the node.           *)
LEMMA NamesBelow ==
    ASSUME NEW e \in Expr
    PROVE  /\ e.kind \in {"AddressOf", "Variable", "Call"} => e.name \in names_in[e]
           /\ e.kind = "BinOp" => names_in[e.lhs] \cup names_in[e.rhs] \subseteq names_in[e]
           /\ e.kind = "UnOp" => names_in[e.rhs] \subseteq names_in[e]
           /\ e.kind = "Call" =>
                 \A i \in DOMAIN e.arguments : names_in[e.arguments[i]] \subseteq names_in[e]
           /\ e.kind \in {"Numeral", "String"} => names_in[e] = {}
  <1> DEFINE N == names_in
  <1>1. N[e] = NamesStep(N, e)
    BY NamesUnfold
  <1> HIDE DEF N
  <1>2. /\ e.kind \in {"AddressOf", "Variable", "Call"} => e.name \in N[e]
        /\ e.kind = "BinOp" => N[e.lhs] \cup N[e.rhs] \subseteq N[e]
        /\ e.kind = "UnOp" => N[e.rhs] \subseteq N[e]
        /\ e.kind = "Call" => \A i \in DOMAIN e.arguments : N[e.arguments[i]] \subseteq N[e]
        /\ e.kind \in {"Numeral", "String"} => N[e] = {}
    BY <1>1 DEF NamesStep
  <1> QED
    BY <1>2 DEF N
=============================================================================
