---------------------------- MODULE CompilerProofs ----------------------------
(***************************************************************************)
(* Proofs about Compiler, for every set of programs.                       *)
(*                                                                         *)
(* First its types, and that no two variables of a Compiler object share a *)
(* word of the stack frame.  next_local_offset takes the minimum of the    *)
(* offsets handed out so far; LowestOffset, that there is one, is carried  *)
(* along as an invariant.                                                  *)
(*                                                                         *)
(* Then that no label is defined twice.  What is carried along is where    *)
(* the labels are: those of the lines written so far were taken from       *)
(* next_unique_id, and no task that is still to run defines one of them or *)
(* one that another task defines.                                          *)
(*                                                                         *)
(* Then that it looks up only names that it has, for every program that    *)
(* obeys the scoping rules.  What is carried along is that every task      *)
(* still to run obeys them in the scope that its object will have when its *)
(* turn comes: the maps of the object, and the variables that tasks before *)
(* it declare.                                                             *)
(*                                                                         *)
(* Last, that what a line refers to is defined by a line before it, or by  *)
(* a task that is still to run.                                            *)
(***************************************************************************)
EXTENDS Compiler, ScopingProofs, SequenceTheorems, WellFoundedInduction, TLAPS

PartialMap(S) == UNION {[D -> S] : D \in SUBSET Name}

CompilerObject ==
    [globalvars: PartialMap(Nat), localvars: PartialMap(Int),
     return_label: Nat, break_label: Nat, continue_label: Nat]

Offsets(localvars) == {0} \cup {localvars[n] : n \in DOMAIN localvars}

LowestOffset(localvars) ==
    \E m \in Offsets(localvars) : \A o \in Offsets(localvars) : m =< o

Apart(localvars) ==
    /\ \A n \in DOMAIN localvars : localvars[n] <= -4 \/ localvars[n] >= 8
    /\ \A m, n \in DOMAIN localvars :
          m # n => \/ localvars[m] - localvars[n] >= 4
                   \/ localvars[n] - localvars[m] >= 4

Frame(localvars) ==
    localvars \in PartialMap(Int) /\ LowestOffset(localvars) /\ Apart(localvars)

-----------------------------------------------------------------------------
(* Partial maps.                                                           *)
LEMMA PartialMapElements ==
    ASSUME NEW S, NEW map \in PartialMap(S)
    PROVE  /\ DOMAIN map \subseteq Name
           /\ map \in [DOMAIN map -> S]
           /\ \A n \in DOMAIN map : map[n] \in S
  BY DEF PartialMap

LEMMA BindMap ==
    ASSUME NEW S, NEW map \in PartialMap(S), NEW name \in Name, NEW value \in S
    PROVE  /\ Bind(map, name, value) \in PartialMap(S)
           /\ DOMAIN Bind(map, name, value) = DOMAIN map \cup {name}
           /\ Bind(map, name, value)[name] = value
           /\ \A n \in DOMAIN map \ {name} : Bind(map, name, value)[n] = map[n]
  <1> DEFINE D == DOMAIN map \cup {name}
  <1>1. \A n \in DOMAIN map : map[n] \in S
    BY PartialMapElements
  <1>2. Bind(map, name, value) \in [D -> S]
    BY <1>1 DEF Bind
  <1>3. D \in SUBSET Name
    BY PartialMapElements
  <1> QED
    BY <1>2, <1>3 DEF PartialMap, Bind

(* A new offset lies a word or more below 0 and below every other.         *)
LEMMA NextOffset ==
    ASSUME NEW localvars, Frame(localvars)
    PROVE  /\ next_local_offset(localvars) \in Int
           /\ \A o \in Offsets(localvars) : next_local_offset(localvars) + 4 =< o
           /\ next_local_offset(localvars) <= -4
  <1> DEFINE S == Offsets(localvars)
             m == Min(S)
  <1>1. \A o \in S : o \in Int
    BY PartialMapElements DEF Frame, Offsets
  <1>2. m \in S /\ \A o \in S : m =< o
    BY DEF Frame, LowestOffset, Min
  <1>3. next_local_offset(localvars) = m - 4
    BY DEF next_local_offset, Offsets
  <1>4. 0 \in S
    BY DEF Offsets
  <1> HIDE DEF S, m
  <1> QED
    BY <1>1, <1>2, <1>3, <1>4 DEF S

LEMMA BindFrame ==
    ASSUME NEW localvars, Frame(localvars), NEW name \in Name
    PROVE  Frame(Bind(localvars, name, next_local_offset(localvars)))
  <1> DEFINE offset == next_local_offset(localvars)
             map == Bind(localvars, name, offset)
  <1>1. /\ offset \in Int /\ offset <= -4
        /\ \A o \in Offsets(localvars) : offset + 4 =< o
    BY NextOffset
  <1>2. localvars \in PartialMap(Int) /\ \A n \in DOMAIN localvars : localvars[n] \in Int
    BY PartialMapElements DEF Frame
  <1> HIDE DEF offset
  <1>3. /\ map \in PartialMap(Int)
        /\ DOMAIN map = DOMAIN localvars \cup {name}
        /\ map[name] = offset
        /\ \A n \in DOMAIN localvars \ {name} : map[n] = localvars[n]
    BY <1>1, <1>2, BindMap
  <1> HIDE DEF map
  <1>4. \A n \in DOMAIN map : map[n] \in Int /\ (n # name => map[n] - offset >= 4)
    BY <1>1, <1>2, <1>3 DEF Offsets
  <1>5. LowestOffset(map)
    <2>1. offset \in Offsets(map)
      BY <1>3 DEF Offsets
    <2>2. \A o \in Offsets(map) : offset =< o
      BY <1>1, <1>3, <1>4 DEF Offsets
    <2> QED
      BY <2>1, <2>2 DEF LowestOffset
  <1>6. Apart(map)
    BY <1>1, <1>2, <1>3, <1>4 DEF Frame, Apart
  <1> QED
    BY <1>3, <1>5, <1>6 DEF Frame, map, offset

(* A nonempty set of indices has a largest element.                        *)
LEMMA MaxIndex ==
    ASSUME NEW n \in Nat, NEW S \in SUBSET (1 .. n), S # {}
    PROVE  Max(S) \in S /\ \A i \in S : Max(S) >= i
  <1> DEFINE T == {n - i : i \in S}
             R == OpToRel(<, Nat)
  <1>1. T \subseteq Nat /\ T # {}
    <2>1. PICK i \in S : TRUE
      OBVIOUS
    <2>2. n - i \in T
      BY <2>1
    <2>3. \A j \in S : n - j \in Nat
      OBVIOUS
    <2> QED
      BY <2>2, <2>3
  <1>2. IsWellFoundedOn(R, Nat)
    BY NatLessThanWellFounded
  <1> HIDE DEF R, T
  <1>3. PICK x \in T : \A y \in T : ~(<<y, x>> \in R)
    BY <1>1, <1>2, WFMin
  <1>4. PICK m \in S : x = n - m
    BY <1>3 DEF T
  <1>5. \A i \in S : m >= i
    <2> TAKE i \in S
    <2>1. n - i \in T /\ n - i \in Nat /\ x \in Nat
      BY <1>1, <1>3 DEF T
    <2>2. ~(n - i < x)
      BY <1>3, <2>1 DEF R, OpToRel
    <2> QED
      BY <1>4, <2>1, <2>2
  <1>6. m \in S /\ \A i \in S : m >= i
    BY <1>5
  <1> QED
    BY <1>6 DEF Max

LEMMA ArgumentFrame ==
    ASSUME NEW arguments \in Seq(Name)
    PROVE  Frame(argument_offsets(arguments))
  <1> DEFINE D == {arguments[i] : i \in DOMAIN arguments}
             last(n) == Max(positions(arguments, n))
             map == argument_offsets(arguments)
  <1>1. /\ map = [n \in D |-> 4 + 4 * last(n)]
        /\ D \subseteq Name
        /\ DOMAIN arguments = 1 .. Len(arguments) /\ Len(arguments) \in Nat
    BY DEF argument_offsets
  <1>2. \A n \in D : last(n) \in positions(arguments, n)
    <2> TAKE n \in D
    <2>1. /\ positions(arguments, n) \in SUBSET (1 .. Len(arguments))
          /\ positions(arguments, n) # {}
      BY <1>1 DEF positions
    <2> QED
      BY <1>1, <2>1, MaxIndex
  <1>3. \A n \in D : last(n) \in 1 .. Len(arguments) /\ arguments[last(n)] = n
    BY <1>1, <1>2 DEF positions
  <1> HIDE DEF D, last, map
  <1>4. \A m, n \in D : m # n => last(m) # last(n)
    BY <1>3
  <1>5. \A n \in D : last(n) \in Int /\ last(n) >= 1
    BY <1>1, <1>3
  <1>6. DOMAIN map = D /\ \A n \in D : map[n] = 4 + 4 * last(n)
    BY <1>1
  <1>8. map \in [D -> Int]
    <2>1. \A n \in D : 4 + 4 * last(n) \in Int
      BY <1>5
    <2> QED
      BY <1>1, <2>1
  <1>7. \A n \in D : map[n] \in Int /\ map[n] >= 8
    BY <1>5, <1>6
  <1>9. map \in PartialMap(Int)
    BY <1>1, <1>8 DEF PartialMap
  <1>10. LowestOffset(map)
    BY <1>6, <1>7 DEF LowestOffset, Offsets
  <1>11. Apart(map)
    <2>1. ASSUME NEW m \in D, NEW n \in D, m # n
          PROVE  map[m] - map[n] >= 4 \/ map[n] - map[m] >= 4
      <3>1. /\ last(m) \in Int /\ last(n) \in Int /\ last(m) # last(n)
            /\ map[m] = 4 + 4 * last(m) /\ map[n] = 4 + 4 * last(n)
        BY <2>1, <1>4, <1>5, <1>6
      <3> QED
        BY <3>1
    <2> QED
      BY <1>6, <1>7, <2>1 DEF Apart
  <1> QED
    BY <1>9, <1>10, <1>11 DEF Frame, map

-----------------------------------------------------------------------------
(* Lines and tasks.                                                        *)
Node == GlobalVar \cup Function \cup Stmt \cup Expr

GoodTasks(tasks, n) ==
    /\ tasks \in Seq(Task)
    /\ \A i \in DOMAIN tasks : tasks[i].task # "emit" => tasks[i].compiler \in 1 .. n

LEMMA LineType ==
    /\ \A op \in Macro \cup Data : line(op) \in Line
    /\ \A op \in Macro \cup Data, imm \in Int : with_imm(op, imm) \in Line
    /\ \A op \in Macro \cup Data, l \in Nat : with_label(op, l) \in Line
    /\ \A l \in Nat : define(l) \in Line
    /\ zero_word \in Line
  <1>1. \A op \in Macro \cup Data : line(op) \in Line
    BY DEF Line, line
  <1>2. \A op \in Macro \cup Data, imm \in Int : with_imm(op, imm) \in Line
    BY <1>1 DEF Line, line, with_imm
  <1>3. \A op \in Macro \cup Data, l \in Nat : with_label(op, l) \in Line
    BY <1>1 DEF Line, line, with_label
  <1>4. "define" \in Data /\ "word" \in Data
    BY DEF Data
  <1> QED
    BY <1>1, <1>2, <1>3, <1>4 DEF define, zero_word

(* Lines that define no label.                                             *)
Plain == {l \in Line : l.op # "define"}

LEMMA PlainType ==
    /\ \A op \in Macro \cup {"word", "data"} : line(op) \in Plain
    /\ \A op \in Macro, imm \in Int : with_imm(op, imm) \in Plain
    /\ \A op \in Macro, l \in Nat : with_label(op, l) \in Plain
    /\ Seq(Plain) \subseteq Seq(Line)
  <1>1. \A op \in Macro \cup {"word", "data"} : op \in Macro \cup Data /\ op # "define"
    BY DEF Macro, Data
  <1>2. \A op \in Macro \cup {"word", "data"} : line(op) \in Plain
    BY <1>1, LineType DEF Plain, line
  <1>3. \A op \in Macro, imm \in Int : with_imm(op, imm) \in Plain
    BY <1>1, LineType DEF Plain, line, with_imm
  <1>4. \A op \in Macro, l \in Nat : with_label(op, l) \in Plain
    BY <1>1, LineType DEF Plain, line, with_label
  <1>5. Seq(Plain) \subseteq Seq(Line)
    <2>1. Plain \subseteq Line
      BY DEF Plain
    <2> QED
      BY <2>1, SeqMonotonic
  <1> QED
    BY <1>2, <1>3, <1>4, <1>5

(* Lines without a label: macros that take none, or not that one.          *)
Unlabelled == Macro \ {"mov_eax_imm"}

Mute == {l \in Plain : l.op # "mov_eax_imm" /\ l.label = 0}

LEMMA MuteType ==
    /\ \A op \in Unlabelled \cup {"word", "data"} : line(op) \in Mute
    /\ \A op \in Unlabelled, imm \in Int : with_imm(op, imm) \in Mute
    /\ Seq(Mute) \subseteq Seq(Plain)
  <1>1. \A op \in Unlabelled \cup {"word", "data"} : line(op) \in Mute
    BY PlainType DEF Mute, Unlabelled, line
  <1>2. \A op \in Unlabelled, imm \in Int : with_imm(op, imm) \in Mute
    BY PlainType DEF Mute, Unlabelled, line, with_imm
  <1>3. Seq(Mute) \subseteq Seq(Plain)
    <2>1. Mute \subseteq Plain
      BY DEF Mute
    <2> QED
      BY <2>1, SeqMonotonic
  <1> QED
    BY <1>1, <1>2, <1>3

LEMMA LinesMute ==
    ASSUME NEW ops \in Seq(Unlabelled)
    PROVE  lines(ops) \in Seq(Mute)
  <1>1. \A i \in 1 .. Len(ops) : line(ops[i]) \in Mute
    BY MuteType
  <1>2. lines(ops) = [i \in 1 .. Len(ops) |-> line(ops[i])] /\ Len(ops) \in Nat
    BY DEF lines
  <1>3. lines(ops) \in [1 .. Len(ops) -> Mute]
    BY <1>1, <1>2
  <1> QED
    BY <1>2, <1>3, SeqDef

LEMMA JumpPlain ==
    ASSUME NEW l \in Nat
    PROVE  /\ jump_to(l) \in Seq(Plain)
           /\ store_label(l) \in Seq(Plain)
           /\ branch_if_zero(l) \in Seq(Plain)
  <1>1. /\ "mov_eax_imm" \in Macro /\ "jmp_eax" \in Macro /\ "mov_ref_eax_ebx" \in Macro
        /\ "pop_eax" \in Macro /\ "cmp_eax_imm" \in Macro /\ "hop_ne" \in Macro
    BY DEF Macro
  <1>2. /\ with_label("mov_eax_imm", l) \in Plain /\ line("jmp_eax") \in Plain
        /\ line("mov_ref_eax_ebx") \in Plain
    BY <1>1, PlainType
  <1>3. jump_to(l) \in Seq(Plain) /\ store_label(l) \in Seq(Plain)
    BY <1>2 DEF jump_to, store_label
  <1>4. <<"pop_eax", "cmp_eax_imm", "hop_ne">> \in Seq(Unlabelled)
    BY <1>1 DEF Unlabelled
  <1>5. lines(<<"pop_eax", "cmp_eax_imm", "hop_ne">>) \in Seq(Plain)
    BY <1>4, LinesMute, MuteType
  <1> QED
    BY <1>3, <1>5 DEF branch_if_zero

LEMMA JumpType ==
    ASSUME NEW l \in Nat
    PROVE  /\ jump_to(l) \in Seq(Line)
           /\ store_label(l) \in Seq(Line)
           /\ branch_if_zero(l) \in Seq(Line)
  BY JumpPlain, PlainType

LEMMA GoodConcat ==
    ASSUME NEW a, NEW b, NEW n, GoodTasks(a, n), GoodTasks(b, n)
    PROVE  GoodTasks(a \o b, n)
  <1>1. a \in Seq(Task) /\ b \in Seq(Task)
    BY DEF GoodTasks
  <1>2. a \o b \in Seq(Task) /\ Len(a \o b) = Len(a) + Len(b)
    BY <1>1
  <1>3. \A i \in DOMAIN (a \o b) :
            \/ i \in DOMAIN a /\ (a \o b)[i] = a[i]
            \/ i - Len(a) \in DOMAIN b /\ (a \o b)[i] = b[i - Len(a)]
    BY <1>1
  <1> QED
    BY <1>2, <1>3 DEF GoodTasks

LEMMA GoodEmit ==
    ASSUME NEW out \in Seq(Line), NEW n
    PROVE  GoodTasks(emit(out), n)
  BY DEF GoodTasks, emit, Task

LEMMA GoodAddressOf ==
    ASSUME NEW name \in Name, NEW n \in Nat, NEW c \in 1 .. n
    PROVE  GoodTasks(address_of(name, c), n)
  BY DEF GoodTasks, address_of, Task

LEMMA GoodVisit ==
    ASSUME NEW x \in Node, NEW n \in Nat, NEW c \in 1 .. n
    PROVE  GoodTasks(visit(x, c), n)
  BY DEF GoodTasks, visit, Task, Node

LEMMA GoodVisitAll ==
    ASSUME NEW nodes \in Seq(Node), NEW n \in Nat, NEW c \in 1 .. n
    PROVE  /\ GoodTasks(visit_all(nodes, c), n)
           /\ GoodTasks(visit_reversed(nodes, c), n)
  <1> DEFINE T(x) == [task |-> "visit", node |-> x, compiler |-> c]
             all == visit_all(nodes, c)
             rev == visit_reversed(nodes, c)
  <1>1. \A x \in Node : T(x) \in Task /\ T(x).compiler \in 1 .. n
    BY DEF Task, Node
  <1>2. all = [i \in 1 .. Len(nodes) |-> T(nodes[i])] /\ Len(nodes) \in Nat
    BY DEF visit_all
  <1>3. rev = [i \in 1 .. Len(nodes) |-> all[Len(nodes) + 1 - i]]
    BY DEF visit_reversed
  <1>4. \A i \in 1 .. Len(nodes) : Len(nodes) + 1 - i \in 1 .. Len(nodes)
    BY <1>2
  <1> HIDE DEF T, all, rev
  <1>5. \A i \in 1 .. Len(nodes) : T(nodes[i]) \in Task /\ T(nodes[i]).compiler \in 1 .. n
    BY <1>1
  <1>6. \A i \in 1 .. Len(nodes) : all[i] \in Task /\ all[i].compiler \in 1 .. n
    BY <1>2, <1>5
  <1>7. \A i \in 1 .. Len(nodes) : rev[i] \in Task /\ rev[i].compiler \in 1 .. n
    BY <1>3, <1>4, <1>6
  <1>8. all \in [1 .. Len(nodes) -> Task]
    BY <1>2, <1>5
  <1>9. rev \in [1 .. Len(nodes) -> Task]
    BY <1>3, <1>4, <1>6
  <1>10. all \in Seq(Task) /\ rev \in Seq(Task)
    <2>1. Len(nodes) \in Nat
      BY <1>2
    <2>2. \A s : s \in [1 .. Len(nodes) -> Task] => s \in Seq(Task)
      BY <2>1, SeqDef
    <2> QED
      BY <1>8, <1>9, <2>2, Zenon
  <1>11. GoodTasks(all, n)
    BY <1>6, <1>8, <1>10 DEF GoodTasks
  <1>12. GoodTasks(rev, n)
    BY <1>7, <1>9, <1>10 DEF GoodTasks
  <1> QED
    BY <1>11, <1>12, Zenon DEF all, rev

(* The fixed pieces of code that the handlers write.                       *)
LEMMA PiecesMute ==
    /\ lines(<<"push_eax">>) \in Seq(Mute)
    /\ lines(<<"mov_eax_ref_eax", "push_eax">>) \in Seq(Mute)
    /\ lines(<<"push_ebx">>) \in Seq(Mute)
    /\ lines(<<"pop_ebx", "pop_eax">>) \in Seq(Mute)
    /\ lines(<<"pop_ebx", "push_eax">>) \in Seq(Mute)
    /\ lines(<<"pop_eax">>) \in Seq(Mute)
    /\ lines(<<"pop_ebx">>) \in Seq(Mute)
    /\ lines(<<"mov_ref_eax_ebx", "pop_ebx">>) \in Seq(Mute)
    /\ lines(<<"push_ebp", "mov_ebp_esp">>) \in Seq(Mute)
    /\ lines(<<"pop_eax", "mov_esp_ebp", "pop_ebp", "ret">>) \in Seq(Mute)
    /\ lines(<<"call_ref_eax", "mov_ebx_eax">>) \in Seq(Mute)
  <1>1. /\ "push_eax" \in Unlabelled /\ "mov_eax_ref_eax" \in Unlabelled /\ "push_ebx" \in Unlabelled
        /\ "pop_ebx" \in Unlabelled /\ "pop_eax" \in Unlabelled /\ "mov_ref_eax_ebx" \in Unlabelled
        /\ "push_ebp" \in Unlabelled /\ "mov_ebp_esp" \in Unlabelled /\ "mov_esp_ebp" \in Unlabelled
        /\ "pop_ebp" \in Unlabelled /\ "ret" \in Unlabelled /\ "call_ref_eax" \in Unlabelled
        /\ "mov_ebx_eax" \in Unlabelled
    BY DEF Macro, Unlabelled
  <1>2. <<"push_eax">> \in Seq(Unlabelled)
    BY <1>1
  <1>3. <<"mov_eax_ref_eax", "push_eax">> \in Seq(Unlabelled)
    BY <1>1
  <1>4. <<"push_ebx">> \in Seq(Unlabelled)
    BY <1>1
  <1>5. <<"pop_ebx", "pop_eax">> \in Seq(Unlabelled)
    BY <1>1
  <1>6. <<"pop_ebx", "push_eax">> \in Seq(Unlabelled)
    BY <1>1
  <1>7. <<"pop_eax">> \in Seq(Unlabelled)
    BY <1>1
  <1>8. <<"pop_ebx">> \in Seq(Unlabelled)
    BY <1>1
  <1>9. <<"mov_ref_eax_ebx", "pop_ebx">> \in Seq(Unlabelled)
    BY <1>1
  <1>10. <<"push_ebp", "mov_ebp_esp">> \in Seq(Unlabelled)
    BY <1>1
  <1>11. <<"pop_eax", "mov_esp_ebp", "pop_ebp", "ret">> \in Seq(Unlabelled)
    BY <1>1
  <1>12. <<"call_ref_eax", "mov_ebx_eax">> \in Seq(Unlabelled)
    BY <1>1
  <1> QED
    BY <1>2, <1>3, <1>4, <1>5, <1>6, <1>7, <1>8, <1>9, <1>10, <1>11, <1>12, LinesMute

LEMMA PiecesPlain ==
    /\ lines(<<"push_eax">>) \in Seq(Plain)
    /\ lines(<<"mov_eax_ref_eax", "push_eax">>) \in Seq(Plain)
    /\ lines(<<"push_ebx">>) \in Seq(Plain)
    /\ lines(<<"pop_ebx", "pop_eax">>) \in Seq(Plain)
    /\ lines(<<"pop_ebx", "push_eax">>) \in Seq(Plain)
    /\ lines(<<"pop_eax">>) \in Seq(Plain)
    /\ lines(<<"pop_ebx">>) \in Seq(Plain)
    /\ lines(<<"mov_ref_eax_ebx", "pop_ebx">>) \in Seq(Plain)
    /\ lines(<<"push_ebp", "mov_ebp_esp">>) \in Seq(Plain)
    /\ lines(<<"pop_eax", "mov_esp_ebp", "pop_ebp", "ret">>) \in Seq(Plain)
    /\ lines(<<"call_ref_eax", "mov_ebx_eax">>) \in Seq(Plain)
  BY PiecesMute, MuteType

LEMMA PiecesType ==
    /\ lines(<<"push_eax">>) \in Seq(Line)
    /\ lines(<<"mov_eax_ref_eax", "push_eax">>) \in Seq(Line)
    /\ lines(<<"push_ebx">>) \in Seq(Line)
    /\ lines(<<"pop_ebx", "pop_eax">>) \in Seq(Line)
    /\ lines(<<"pop_ebx", "push_eax">>) \in Seq(Line)
    /\ lines(<<"pop_eax">>) \in Seq(Line)
    /\ lines(<<"pop_ebx">>) \in Seq(Line)
    /\ lines(<<"mov_ref_eax_ebx", "pop_ebx">>) \in Seq(Line)
    /\ lines(<<"push_ebp", "mov_ebp_esp">>) \in Seq(Line)
    /\ lines(<<"pop_eax", "mov_esp_ebp", "pop_ebp", "ret">>) \in Seq(Line)
    /\ lines(<<"call_ref_eax", "mov_ebx_eax">>) \in Seq(Line)
  BY PiecesPlain, PlainType

LEMMA OperationMute ==
    /\ \A t \in BinaryToken : operation[t] \in Seq(Mute)
    /\ \A t \in UnaryToken : unary_operation[t] \in Seq(Mute)
  <1>1. /\ as_boolean \o <<"and_eax_ebx">> \in Seq(Unlabelled)
        /\ as_boolean \o <<"or_eax_ebx">> \in Seq(Unlabelled)
    <2>1. as_boolean \in Seq(Unlabelled)
      BY DEF as_boolean, Macro, Unlabelled
    <2>2. <<"and_eax_ebx">> \in Seq(Unlabelled) /\ <<"or_eax_ebx">> \in Seq(Unlabelled)
      BY DEF Macro, Unlabelled
    <2> QED
      BY <2>1, <2>2
  <1>2. \A setcc \in Unlabelled : comparison(setcc) \in Seq(Mute)
    <2> TAKE setcc \in Unlabelled
    <2>1. <<"cmp_eax_ebx", setcc, "movzx_eax_al">> \in Seq(Unlabelled)
      BY DEF Macro, Unlabelled
    <2> QED
      BY <2>1, LinesMute DEF comparison
  <1>3. /\ comparison("sete_al") \in Seq(Mute) /\ comparison("setne_al") \in Seq(Mute)
        /\ comparison("setl_al") \in Seq(Mute) /\ comparison("setle_al") \in Seq(Mute)
        /\ comparison("setg_al") \in Seq(Mute) /\ comparison("setge_al") \in Seq(Mute)
    BY <1>2 DEF Macro, Unlabelled
  <1>4. /\ lines(<<"add_eax_ebx">>) \in Seq(Mute) /\ lines(<<"sub_eax_ebx">>) \in Seq(Mute)
        /\ lines(<<"imul_eax_ebx">>) \in Seq(Mute) /\ lines(<<"and_eax_ebx">>) \in Seq(Mute)
        /\ lines(<<"or_eax_ebx">>) \in Seq(Mute) /\ lines(<<"xor_eax_ebx">>) \in Seq(Mute)
    <2>1. /\ <<"add_eax_ebx">> \in Seq(Unlabelled) /\ <<"sub_eax_ebx">> \in Seq(Unlabelled)
          /\ <<"imul_eax_ebx">> \in Seq(Unlabelled) /\ <<"and_eax_ebx">> \in Seq(Unlabelled)
          /\ <<"or_eax_ebx">> \in Seq(Unlabelled) /\ <<"xor_eax_ebx">> \in Seq(Unlabelled)
      BY DEF Macro, Unlabelled
    <2> QED
      BY <2>1, LinesMute
  <1>5. /\ lines(<<"push_edx", "cdq", "idiv_ebx", "pop_edx">>) \in Seq(Mute)
        /\ lines(<<"push_edx", "cdq", "idiv_ebx", "mov_eax_edx", "pop_edx">>) \in Seq(Mute)
    <2>1. /\ <<"push_edx", "cdq", "idiv_ebx", "pop_edx">> \in Seq(Unlabelled)
          /\ <<"push_edx", "cdq", "idiv_ebx", "mov_eax_edx", "pop_edx">> \in Seq(Unlabelled)
      BY DEF Macro, Unlabelled
    <2> QED
      BY <2>1, LinesMute
  <1>6. /\ lines(as_boolean \o <<"and_eax_ebx">>) \in Seq(Mute)
        /\ lines(as_boolean \o <<"or_eax_ebx">>) \in Seq(Mute)
    BY <1>1, LinesMute
  <1>7. \A t \in BinaryToken : operation[t] \in Seq(Mute)
    <2>1. /\ operation["plus"] \in Seq(Mute)
          /\ operation["minus"] \in Seq(Mute)
          /\ operation["multiply"] \in Seq(Mute)
      BY <1>4, SMT DEF operation
    <2>2. /\ operation["divide"] \in Seq(Mute)
          /\ operation["modulo"] \in Seq(Mute)
      BY <1>5, SMT DEF operation
    <2>3. /\ operation["log_and"] \in Seq(Mute)
          /\ operation["log_or"] \in Seq(Mute)
      BY <1>6, SMT DEF operation
    <2>4. /\ operation["bit_and"] \in Seq(Mute)
          /\ operation["bit_or"] \in Seq(Mute)
          /\ operation["bit_xor"] \in Seq(Mute)
      BY <1>4, SMT DEF operation
    <2>5. /\ operation["equal"] \in Seq(Mute)
          /\ operation["notequal"] \in Seq(Mute)
          /\ operation["less"] \in Seq(Mute)
      BY <1>3, SMT DEF operation
    <2>6. /\ operation["lessequal"] \in Seq(Mute)
          /\ operation["greater"] \in Seq(Mute)
          /\ operation["greaterequal"] \in Seq(Mute)
      BY <1>3, SMT DEF operation
    <2> QED
      BY <2>1, <2>2, <2>3, <2>4, <2>5, <2>6, Zenon DEF BinaryToken
  <1>8. /\ lines(<<"neg_eax">>) \in Seq(Mute) /\ lines(<<"not_eax">>) \in Seq(Mute)
        /\ lines(<<"cmp_eax_imm", "sete_al", "movzx_eax_al">>) \in Seq(Mute)
    <2>1. /\ <<"neg_eax">> \in Seq(Unlabelled) /\ <<"not_eax">> \in Seq(Unlabelled)
          /\ <<"cmp_eax_imm", "sete_al", "movzx_eax_al">> \in Seq(Unlabelled)
      BY DEF Macro, Unlabelled
    <2> QED
      BY <2>1, LinesMute
  <1>9. \A t \in UnaryToken : unary_operation[t] \in Seq(Mute)
    <2>1. <<>> \in Seq(Mute)
      OBVIOUS
    <2>2. unary_operation["plus"] = <<>>
      BY DEF unary_operation
    <2>3. unary_operation["minus"] \in Seq(Mute)
      BY <1>8 DEF unary_operation
    <2>4. unary_operation["bit_not"] \in Seq(Mute)
      BY <1>8 DEF unary_operation
    <2>5. unary_operation["log_not"] \in Seq(Mute)
      BY <1>8 DEF unary_operation
    <2> QED
      BY <2>1, <2>2, <2>3, <2>4, <2>5, Zenon DEF UnaryToken
  <1> QED
    BY <1>7, <1>9

LEMMA OperationPlain ==
    /\ \A t \in BinaryToken : operation[t] \in Seq(Plain)
    /\ \A t \in UnaryToken : unary_operation[t] \in Seq(Plain)
  BY OperationMute, MuteType

LEMMA OperationType ==
    /\ \A t \in BinaryToken : operation[t] \in Seq(Line)
    /\ \A t \in UnaryToken : unary_operation[t] \in Seq(Line)
  BY OperationPlain, PlainType

-----------------------------------------------------------------------------
IInv ==
    /\ compilers \in Seq(CompilerObject)
    /\ compilers # <<>>
    /\ \A c \in DOMAIN compilers : Frame(compilers[c].localvars)
    /\ GoodTasks(work, Len(compilers))
    /\ next_unique_id \in Nat
    /\ code \in Seq(Line)
    /\ outcome \in {"compiling", "done", "terminate"}

LEMMA IInvImplies ==
    IInv => TypeOK /\ FrameLayout
  <1> SUFFICES ASSUME IInv PROVE TypeOK /\ FrameLayout
    OBVIOUS
  <1>1. \A c \in DOMAIN compilers : compilers[c] \in CompilerObject
    BY DEF IInv
  <1>2. \A c \in CompilerObject : IsCompilerObject(c)
    <2> TAKE c \in CompilerObject
    <2>1. /\ c.globalvars \in PartialMap(Nat) /\ c.localvars \in PartialMap(Int)
          /\ c.return_label \in Nat /\ c.break_label \in Nat /\ c.continue_label \in Nat
          /\ DOMAIN c = {"globalvars", "localvars", "return_label", "break_label",
                         "continue_label"}
      BY DEF CompilerObject
    <2>2. IsPartialMap(c.globalvars, Nat) /\ IsPartialMap(c.localvars, Int)
      BY <2>1, PartialMapElements DEF IsPartialMap
    <2> QED
      BY <2>1, <2>2 DEF IsCompilerObject
  <1>3. TypeOK
    BY <1>1, <1>2 DEF IInv, TypeOK, GoodTasks
  <1>4. FrameLayout
    BY DEF IInv, Frame, Apart, FrameLayout
  <1> QED
    BY <1>3, <1>4

(* Facts about the task at hand.                                           *)
LEMMA Self ==
    ASSUME IInv, work # <<>>, task.task # "emit"
    PROVE  /\ self \in 1 .. Len(compilers)
           /\ Len(compilers) \in Nat /\ DOMAIN compilers = 1 .. Len(compilers)
           /\ this \in CompilerObject
           /\ Frame(this.localvars)
           /\ task.task = "visit" => node \in Node
           /\ task.task = "address_of" => task.name \in Name
  <1>1. work \in Seq(Task) /\ compilers \in Seq(CompilerObject)
    BY DEF IInv, GoodTasks
  <1>2. task = work[1] /\ 1 \in DOMAIN work /\ work[1] \in Task
    BY <1>1 DEF task
  <1>3. self \in 1 .. Len(compilers)
    BY <1>2 DEF self, IInv, GoodTasks
  <1>4. Len(compilers) \in Nat /\ DOMAIN compilers = 1 .. Len(compilers)
    BY <1>1
  <1>5. this \in CompilerObject /\ Frame(this.localvars)
    BY <1>1, <1>3, <1>4 DEF this, IInv
  <1>6. /\ task.task = "visit" => node \in Node
        /\ task.task = "address_of" => task.name \in Name
    BY <1>2 DEF node, Task, Node
  <1> QED
    BY <1>3, <1>4, <1>5, <1>6

(* The class of a node follows from its kind.                              *)
LEMMA NodeFields ==
    ASSUME NEW x \in Node
    PROVE  /\ x.kind = "GlobalVar" => x.name \in Name /\ x.value \in Expr
           /\ x.kind = "Function" => /\ x.name \in Name
                                     /\ x.arguments \in Seq(Name)
                                     /\ x.statements \in Seq(Stmt)
           /\ x.kind \in {"AddressOf", "Variable"} => x.name \in Name
           /\ x.kind = "Numeral" => x.number \in Int
           /\ x.kind = "BinOp" => /\ x.token \in BinaryToken
                                  /\ x.lhs \in Expr /\ x.rhs \in Expr
           /\ x.kind = "UnOp" => x.token \in UnaryToken /\ x.rhs \in Expr
           /\ x.kind = "Call" => x.name \in Name /\ x.arguments \in Seq(Expr)
           /\ x.kind \in {"ExpressionStatement", "Return"} => x.expression \in Expr
           /\ x.kind \in {"Let", "Var"} => x.name \in Name /\ x.expression \in Expr
           /\ x.kind = "If" => /\ x.condition \in Expr
                               /\ x.then_statements \in Seq(Stmt)
                               /\ x.else_statements \in Seq(Stmt)
           /\ x.kind = "While" => x.condition \in Expr /\ x.statements \in Seq(Stmt)
           /\ x.kind = "For" => /\ x.name \in Name /\ x.initial \in Expr
                                /\ x.condition \in Expr /\ x.update \in Expr
                                /\ x.statements \in Seq(Stmt)
  <1>1. CASE x \in GlobalVar
    BY <1>1 DEF GlobalVar, Constant
  <1>2. CASE x \in Function
    BY <1>2 DEF Function
  <1>3. CASE x \in Stmt
    <2>1. x \in Statement(Expr, Stmt)
      BY <1>3, AstAssumption
    <2> QED
      BY <2>1 DEF Statement
  <1>4. CASE x \in Expr
    <2>1. x \in Expression(Expr)
      BY <1>4, AstAssumption
    <2> QED
      BY <2>1 DEF Expression
  <1> QED
    BY <1>1, <1>2, <1>3, <1>4 DEF Node

LEMMA NodeSequences ==
    /\ Expr \subseteq Node
    /\ Seq(Stmt) \subseteq Seq(Node)
    /\ Seq(Expr) \subseteq Seq(Node)
    /\ Seq(GlobalVar) \subseteq Seq(Node)
    /\ Seq(Function) \subseteq Seq(Node)
  <1>1. /\ Stmt \subseteq Node /\ Expr \subseteq Node
        /\ GlobalVar \subseteq Node /\ Function \subseteq Node
    BY DEF Node
  <1> QED
    BY <1>1, SeqMonotonic

(* What every handler has to show.                                         *)
LEMMA ExpandPreserves ==
    ASSUME IInv, work # <<>>, NEW tasks, NEW compilers2, NEW new_labels \in Nat,
           compilers2 \in Seq(CompilerObject),
           Len(compilers) <= Len(compilers2),
           \A c \in DOMAIN compilers2 : Frame(compilers2[c].localvars),
           GoodTasks(tasks, Len(compilers2)),
           Expand(tasks, compilers2, new_labels)
    PROVE  IInv'
  <1>1. /\ work' = tasks \o Tail(work) /\ compilers' = compilers2
        /\ next_unique_id' = next_unique_id + new_labels
        /\ code' = code /\ outcome' = outcome
    BY DEF Expand
  <1>2. /\ work \in Seq(Task) /\ compilers \in Seq(CompilerObject)
        /\ Len(compilers) \in Nat /\ Len(compilers2) \in Nat
        /\ Len(compilers) > 0
    BY DEF IInv, GoodTasks
  <1>3. GoodTasks(Tail(work), Len(compilers2))
    <2>1. /\ Tail(work) \in Seq(Task) /\ Len(Tail(work)) = Len(work) - 1
          /\ \A i \in 1 .. Len(Tail(work)) : Tail(work)[i] = work[i + 1]
                                              /\ i + 1 \in DOMAIN work
      BY <1>2
    <2>2. \A i \in DOMAIN work : work[i].task # "emit" =>
                                    work[i].compiler \in 1 .. Len(compilers2)
      BY <1>2 DEF IInv, GoodTasks
    <2> QED
      BY <2>1, <2>2 DEF GoodTasks
  <1>4. GoodTasks(work', Len(compilers'))
    BY <1>1, <1>3, GoodConcat
  <1>5. compilers' # <<>>
    BY <1>1, <1>2
  <1> QED
    BY <1>1, <1>4, <1>5 DEF IInv

(* Handlers that leave the objects alone.                                  *)
LEMMA PerformPreserves ==
    ASSUME IInv, work # <<>>, NEW tasks, GoodTasks(tasks, Len(compilers)),
           Perform(tasks)
    PROVE  IInv'
  <1>1. /\ compilers \in Seq(CompilerObject) /\ Len(compilers) <= Len(compilers)
        /\ \A c \in DOMAIN compilers : Frame(compilers[c].localvars)
    BY DEF IInv
  <1>2. Expand(tasks, compilers, 0)
    BY DEF Perform
  <1> QED
    BY <1>1, <1>2, ExpandPreserves

-----------------------------------------------------------------------------
(* One lemma per handler.                                                  *)
LEMMA EmitPreserves ==
    ASSUME IInv, Emit
    PROVE  IInv'
  <1>1. /\ work # <<>> /\ task.task = "emit"
        /\ code' = code \o task.out /\ work' = Tail(work)
        /\ UNCHANGED <<compilers, next_unique_id, outcome>>
    BY DEF Emit, Running, Write
  <1>2. work \in Seq(Task) /\ task = work[1] /\ task \in Task
    BY <1>1 DEF IInv, GoodTasks, task
  <1>3. task.out \in Seq(Line)
    BY <1>1, <1>2 DEF Task
  <1>4. code' \in Seq(Line)
    BY <1>1, <1>3 DEF IInv
  <1>5. GoodTasks(work', Len(compilers))
    BY <1>1, <1>2 DEF IInv, GoodTasks
  <1> QED
    BY <1>1, <1>4, <1>5 DEF IInv

LEMMA AddressOfPreserves ==
    ASSUME IInv, AddressOf
    PROVE  IInv'
  <1>1. /\ work # <<>> /\ task.task = "address_of"
        /\ UNCHANGED <<compilers, next_unique_id>>
    BY DEF AddressOf, Running
  <1>2. /\ this.globalvars \in PartialMap(Nat) /\ this.localvars \in PartialMap(Int)
    BY <1>1, Self DEF CompilerObject
  <1>3. /\ \A n \in DOMAIN this.globalvars : this.globalvars[n] \in Nat
        /\ \A n \in DOMAIN this.localvars : this.localvars[n] \in Int
    BY <1>2, PartialMapElements
  <1>4. "mov_eax_imm" \in Macro /\ "mov_eax_ebp" \in Macro /\ "add_eax_imm" \in Macro
    BY DEF Macro
  <1>5. GoodTasks(Tail(work), Len(compilers))
    BY <1>1 DEF IInv, GoodTasks
  <1>6. CASE /\ task.name \in DOMAIN this.globalvars
             /\ Write(<<with_label("mov_eax_imm", this.globalvars[task.name])>>)
             /\ work' = Tail(work) /\ UNCHANGED outcome
    <2>1. <<with_label("mov_eax_imm", this.globalvars[task.name])>> \in Seq(Line)
      BY <1>3, <1>4, <1>6, LineType
    <2>2. code' \in Seq(Line)
      BY <1>6, <2>1 DEF IInv, Write
    <2> QED
      BY <1>1, <1>5, <1>6, <2>2 DEF IInv
  <1>7. CASE /\ task.name \in DOMAIN this.localvars \ DOMAIN this.globalvars
             /\ Write(<<line("mov_eax_ebp"),
                        with_imm("add_eax_imm", this.localvars[task.name])>>)
             /\ work' = Tail(work) /\ UNCHANGED outcome
    <2>1. /\ line("mov_eax_ebp") \in Line
          /\ with_imm("add_eax_imm", this.localvars[task.name]) \in Line
      BY <1>3, <1>4, <1>7, LineType
    <2>2. code' \in Seq(Line)
      BY <1>7, <2>1 DEF IInv, Write
    <2> QED
      BY <1>1, <1>5, <1>7, <2>2 DEF IInv
  <1>8. CASE outcome' = "terminate" /\ UNCHANGED <<code, work>>
    BY <1>1, <1>8 DEF IInv
  <1> QED
    BY <1>6, <1>7, <1>8 DEF AddressOf

(* The pieces of work that the handlers are put together from, for an      *)
(* object that exists.                                                     *)
LEMMA Pieces ==
    ASSUME NEW n \in Nat, NEW c \in 1 .. n
    PROVE  /\ \A e \in Expr : GoodTasks(visit(e, c), n)
           /\ \A ss \in Seq(Stmt) : GoodTasks(visit_all(ss, c), n)
           /\ \A es \in Seq(Expr) : GoodTasks(visit_reversed(es, c), n)
           /\ \A name \in Name : GoodTasks(address_of(name, c), n)
  BY NodeSequences, GoodVisit, GoodVisitAll, GoodAddressOf

LEMMA AssignPiece ==
    ASSUME NEW n \in Nat, NEW c \in 1 .. n, NEW d \in 1 .. n,
           NEW e \in Expr, NEW name \in Name
    PROVE  GoodTasks(assign(e, c, name, d), n)
  <1>1. GoodTasks(emit(lines(<<"push_ebx">>)), n)
    BY PiecesType, GoodEmit
  <1>2. GoodTasks(emit(lines(<<"pop_ebx">>)), n)
    BY PiecesType, GoodEmit
  <1>3. GoodTasks(emit(lines(<<"mov_ref_eax_ebx", "pop_ebx">>)), n)
    BY PiecesType, GoodEmit
  <1>4. GoodTasks(visit(e, c), n) /\ GoodTasks(address_of(name, d), n)
    BY Pieces
  <1> QED
    BY <1>1, <1>2, <1>3, <1>4, GoodConcat DEF assign

LEMMA SimpleExpressionPreserves ==
    ASSUME IInv, VisitAddressOf \/ VisitVariable \/ VisitNumeral \/ VisitString
    PROVE  IInv'
  <1> DEFINE n == Len(compilers)
  <1>1. /\ work # <<>> /\ self \in 1 .. n /\ n \in Nat /\ node \in Node
    BY Self DEF VisitAddressOf, VisitVariable, VisitNumeral, VisitString,
                Visiting, Running
  <1>2. CASE VisitAddressOf
    <2>1. node.name \in Name
      BY <1>1, <1>2, NodeFields DEF VisitAddressOf, Visiting
    <2>2. GoodTasks(address_of(node.name, self), n)
      BY <1>1, <2>1, Pieces
    <2>3. GoodTasks(emit(lines(<<"push_eax">>)), n)
      BY PiecesType, GoodEmit
    <2> QED
      BY <1>1, <1>2, <2>2, <2>3, GoodConcat, PerformPreserves DEF VisitAddressOf
  <1>3. CASE VisitVariable
    <2>1. node.name \in Name
      BY <1>1, <1>3, NodeFields DEF VisitVariable, Visiting
    <2>2. GoodTasks(address_of(node.name, self), n)
      BY <1>1, <2>1, Pieces
    <2>3. GoodTasks(emit(lines(<<"mov_eax_ref_eax", "push_eax">>)), n)
      BY PiecesType, GoodEmit
    <2> QED
      BY <1>1, <1>3, <2>2, <2>3, GoodConcat, PerformPreserves DEF VisitVariable
  <1>4. CASE VisitNumeral
    <2>1. node.number \in Int /\ "push_imm" \in Macro
      BY <1>1, <1>4, NodeFields DEF VisitNumeral, Visiting, Macro
    <2>2. <<with_imm("push_imm", node.number)>> \in Seq(Line)
      BY <2>1, LineType
    <2> QED
      BY <1>1, <1>4, <2>2, GoodEmit, PerformPreserves DEF VisitNumeral
  <1>5. CASE VisitString
    <2>1. label(1) \in Nat /\ label(2) \in Nat
      BY DEF label, IInv
    <2>2. jump_to(label(2)) \in Seq(Line)
      BY <2>1, JumpType
    <2>3. "push_imm" \in Macro /\ "data" \in Data
      BY DEF Macro, Data
    <2>4. /\ define(label(1)) \in Line /\ define(label(2)) \in Line /\ line("data") \in Line
          /\ with_label("push_imm", label(1)) \in Line
      BY <2>1, <2>3, LineType
    <2>5. jump_to(label(2))
            \o <<define(label(1)), line("data"), define(label(2)),
                 with_label("push_imm", label(1))>> \in Seq(Line)
      BY <2>2, <2>4
    <2>6. /\ compilers \in Seq(CompilerObject) /\ Len(compilers) <= Len(compilers)
          /\ \A c \in DOMAIN compilers : Frame(compilers[c].localvars)
      BY DEF IInv
    <2> QED
      BY <1>1, <1>5, <2>5, <2>6, GoodEmit, ExpandPreserves DEF VisitString
  <1> QED
    BY <1>2, <1>3, <1>4, <1>5

LEMMA OperationPreserves ==
    ASSUME IInv, VisitBinOp \/ VisitUnOp \/ VisitCall
    PROVE  IInv'
  <1> DEFINE n == Len(compilers)
  <1>1. /\ work # <<>> /\ self \in 1 .. n /\ n \in Nat /\ node \in Node
    BY Self DEF VisitBinOp, VisitUnOp, VisitCall, Visiting, Running
  <1>2. CASE VisitBinOp
    <2>1. node.lhs \in Expr /\ node.rhs \in Expr /\ node.token \in BinaryToken
      BY <1>1, <1>2, NodeFields DEF VisitBinOp, Visiting
    <2> DEFINE out == lines(<<"pop_ebx", "pop_eax">>) \o operation[node.token]
                        \o lines(<<"pop_ebx", "push_eax">>)
    <2>2. out \in Seq(Line)
      BY <2>1, PiecesType, OperationType
    <2> HIDE DEF out
    <2>3. GoodTasks(emit(lines(<<"push_ebx">>)), n) /\ GoodTasks(emit(out), n)
      BY <2>2, PiecesType, GoodEmit
    <2>4. GoodTasks(visit(node.lhs, self), n) /\ GoodTasks(visit(node.rhs, self), n)
      BY <1>1, <2>1, Pieces
    <2>5. GoodTasks(emit(lines(<<"push_ebx">>)) \o visit(node.lhs, self)
                      \o visit(node.rhs, self) \o emit(out), n)
      BY <2>3, <2>4, GoodConcat
    <2> QED
      BY <1>1, <1>2, <2>5, PerformPreserves DEF VisitBinOp, out
  <1>3. CASE VisitUnOp
    <2>1. node.rhs \in Expr /\ node.token \in UnaryToken
      BY <1>1, <1>3, NodeFields DEF VisitUnOp, Visiting
    <2> DEFINE out == lines(<<"pop_eax">>) \o unary_operation[node.token]
                        \o lines(<<"push_eax">>)
    <2>2. out \in Seq(Line)
      BY <2>1, PiecesType, OperationType
    <2> HIDE DEF out
    <2>3. GoodTasks(visit(node.rhs, self) \o emit(out), n)
      BY <1>1, <2>1, <2>2, Pieces, GoodEmit, GoodConcat
    <2> QED
      BY <1>1, <1>3, <2>3, PerformPreserves DEF VisitUnOp, out
  <1>4. CASE VisitCall
    <2>1. node.name \in Name /\ node.arguments \in Seq(Expr)
      BY <1>1, <1>4, NodeFields DEF VisitCall, Visiting
    <2> DEFINE out == <<line("call_ref_eax"),
                        with_imm("add_esp_imm", 4 * Len(node.arguments)),
                        line("push_eax")>>
    <2>2. out \in Seq(Line)
      <3>1. /\ "call_ref_eax" \in Macro /\ "add_esp_imm" \in Macro /\ "push_eax" \in Macro
            /\ 4 * Len(node.arguments) \in Int
        BY <2>1 DEF Macro
      <3>2. /\ line("call_ref_eax") \in Line /\ line("push_eax") \in Line
            /\ with_imm("add_esp_imm", 4 * Len(node.arguments)) \in Line
        BY <3>1, LineType
      <3> QED
        BY <3>2
    <2> HIDE DEF out
    <2>3. /\ GoodTasks(visit_reversed(node.arguments, self), n)
          /\ GoodTasks(address_of(node.name, self), n)
          /\ GoodTasks(emit(out), n)
      BY <1>1, <2>1, <2>2, Pieces, GoodEmit
    <2>4. GoodTasks(visit_reversed(node.arguments, self)
                      \o address_of(node.name, self) \o emit(out), n)
      BY <2>3, GoodConcat
    <2> QED
      BY <1>1, <1>4, <2>4, PerformPreserves DEF VisitCall, out
  <1> QED
    BY <1>2, <1>3, <1>4

(* Statements that leave the objects alone.                                *)
LEMMA SimpleStatementPreserves ==
    ASSUME IInv, \/ VisitExpressionStatement \/ VisitLet \/ VisitReturn
                 \/ VisitBreak \/ VisitContinue
    PROVE  IInv'
  <1> DEFINE n == Len(compilers)
  <1>1. /\ work # <<>> /\ self \in 1 .. n /\ n \in Nat /\ node \in Node
        /\ this \in CompilerObject
    BY Self DEF VisitExpressionStatement, VisitLet, VisitReturn, VisitBreak,
                VisitContinue, Visiting, Running
  <1>2. /\ jump_to(this.return_label) \in Seq(Line)
        /\ jump_to(this.break_label) \in Seq(Line)
        /\ jump_to(this.continue_label) \in Seq(Line)
    BY <1>1, JumpType DEF CompilerObject
  <1>3. CASE VisitExpressionStatement
    <2>1. node.expression \in Expr
      BY <1>1, <1>3, NodeFields DEF VisitExpressionStatement, Visiting
    <2>2. GoodTasks(emit(lines(<<"pop_eax">>)), n)
      BY PiecesType, GoodEmit
    <2>3. GoodTasks(visit(node.expression, self) \o emit(lines(<<"pop_eax">>)), n)
      BY <1>1, <2>1, <2>2, Pieces, GoodConcat
    <2> QED
      BY <1>1, <1>3, <2>3, PerformPreserves DEF VisitExpressionStatement
  <1>4. CASE VisitLet
    <2>1. node.name \in Name /\ node.expression \in Expr
      BY <1>1, <1>4, NodeFields DEF VisitLet, Visiting
    <2>2. GoodTasks(assign(node.expression, self, node.name, self), n)
      BY <1>1, <2>1, AssignPiece
    <2> QED
      BY <1>1, <1>4, <2>2, PerformPreserves DEF VisitLet
  <1>5. CASE VisitReturn
    <2>1. node.expression \in Expr
      BY <1>1, <1>5, NodeFields DEF VisitReturn, Visiting
    <2>2. GoodTasks(visit(node.expression, self) \o emit(jump_to(this.return_label)), n)
      BY <1>1, <1>2, <2>1, Pieces, GoodEmit, GoodConcat
    <2> QED
      BY <1>1, <1>5, <2>2, PerformPreserves DEF VisitReturn
  <1>6. CASE VisitBreak
    BY <1>1, <1>2, <1>6, GoodEmit, PerformPreserves DEF VisitBreak
  <1>7. CASE VisitContinue
    BY <1>1, <1>2, <1>7, GoodEmit, PerformPreserves DEF VisitContinue
  <1> QED
    BY <1>3, <1>4, <1>5, <1>6, <1>7

(* Replacing the variables of one object keeps the objects well formed.    *)
LEMMA UpdateObject ==
    ASSUME IInv, NEW c \in DOMAIN compilers,
           NEW object \in CompilerObject, Frame(object.localvars)
    PROVE  /\ [compilers EXCEPT ![c] = object] \in Seq(CompilerObject)
           /\ Len([compilers EXCEPT ![c] = object]) = Len(compilers)
           /\ \A d \in 1 .. Len(compilers) :
                 Frame([compilers EXCEPT ![c] = object][d].localvars)
  <1>1. /\ compilers \in Seq(CompilerObject)
        /\ DOMAIN compilers = 1 .. Len(compilers)
        /\ \A d \in DOMAIN compilers : Frame(compilers[d].localvars)
    BY DEF IInv
  <1> QED
    BY <1>1, ExceptSeq

LEMMA VarPreserves ==
    ASSUME IInv, VisitVar
    PROVE  IInv'
  <1> DEFINE n == Len(compilers)
             map == Bind(this.localvars, node.name, next_local_offset(this.localvars))
             object == [this EXCEPT !.localvars = map]
             cs == [compilers EXCEPT ![self] = object]
  <1>1. /\ work # <<>> /\ self \in 1 .. n /\ n \in Nat /\ node \in Node
        /\ this \in CompilerObject /\ Frame(this.localvars)
        /\ DOMAIN compilers = 1 .. n
    BY Self DEF VisitVar, Visiting, Running
  <1>2. node.name \in Name /\ node.expression \in Expr
    BY <1>1, NodeFields DEF VisitVar, Visiting
  <1>3. Frame(map)
    BY <1>1, <1>2, BindFrame
  <1>4. object \in CompilerObject /\ Frame(object.localvars)
    <2> HIDE DEF map
    <2>1. map \in PartialMap(Int)
      BY <1>3 DEF Frame
    <2> QED
      BY <1>1, <1>3, <2>1 DEF CompilerObject
  <1>5. cs = [compilers EXCEPT ![self].localvars =
                  Bind(@, node.name, next_local_offset(this.localvars))]
    BY DEF this
  <1> HIDE DEF map, object
  <1>6. /\ cs \in Seq(CompilerObject) /\ Len(cs) = n /\ DOMAIN cs = 1 .. n
        /\ \A d \in 1 .. n : Frame(cs[d].localvars)
    BY <1>1, <1>4, UpdateObject
  <1>7. GoodTasks(emit(<<with_imm("push_imm", 0)>>)
                    \o assign(node.expression, self, node.name, self), n)
    <2>1. <<with_imm("push_imm", 0)>> \in Seq(Line)
      <3>1. with_imm("push_imm", 0) \in Line
        BY LineType DEF Macro
      <3> QED
        BY <3>1
    <2> QED
      <3>1. GoodTasks(emit(<<with_imm("push_imm", 0)>>), n)
        BY <2>1, GoodEmit
      <3>2. GoodTasks(assign(node.expression, self, node.name, self), n)
        BY <1>1, <1>2, AssignPiece
      <3> QED
        BY <3>1, <3>2, GoodConcat
  <1>8. Expand(emit(<<with_imm("push_imm", 0)>>)
                 \o assign(node.expression, self, node.name, self), cs, 0)
    BY <1>5 DEF VisitVar
  <1> HIDE DEF cs
  <1> QED
    BY <1>1, <1>6, <1>7, <1>8, ExpandPreserves

(* Objects are added at the end, the ones there are keep their numbers.    *)
LEMMA AppendObject ==
    ASSUME NEW cs \in Seq(CompilerObject),
           \A d \in DOMAIN cs : Frame(cs[d].localvars),
           NEW object \in CompilerObject, Frame(object.localvars)
    PROVE  /\ Append(cs, object) \in Seq(CompilerObject)
           /\ Len(Append(cs, object)) = Len(cs) + 1
           /\ \A d \in DOMAIN Append(cs, object) :
                 Frame(Append(cs, object)[d].localvars)
  <1>1. /\ Append(cs, object) \in Seq(CompilerObject)
        /\ Len(Append(cs, object)) = Len(cs) + 1 /\ Len(cs) \in Nat
        /\ Append(cs, object)[Len(cs) + 1] = object
        /\ \A d \in 1 .. Len(cs) : Append(cs, object)[d] = cs[d]
    OBVIOUS
  <1>2. \A d \in DOMAIN Append(cs, object) : d = Len(cs) + 1 \/ d \in 1 .. Len(cs)
    BY <1>1
  <1> QED
    BY <1>1, <1>2

LEMMA LoopObject ==
    ASSUME NEW c \in CompilerObject, this = c, NEW b \in Nat, NEW k \in Nat
    PROVE  /\ with_break_continue_label(b, k) \in CompilerObject
           /\ with_break_continue_label(b, k).localvars = this.localvars
  BY DEF CompilerObject, with_break_continue_label

LEMMA IfPreserves ==
    ASSUME IInv, VisitIf
    PROVE  IInv'
  <1> DEFINE n == Len(compilers)
             cs == Append(Append(compilers, this), this)
  <1>1. /\ work # <<>> /\ self \in 1 .. n /\ n \in Nat /\ node \in Node
        /\ this \in CompilerObject /\ Frame(this.localvars)
    BY Self DEF VisitIf, Visiting, Running
  <1>2. /\ node.condition \in Expr /\ node.then_statements \in Seq(Stmt)
        /\ node.else_statements \in Seq(Stmt)
    BY <1>1, NodeFields DEF VisitIf, Visiting
  <1>3. compilers \in Seq(CompilerObject) /\ \A d \in DOMAIN compilers : Frame(compilers[d].localvars)
    BY DEF IInv
  <1>4. cs = compilers \o <<this, this>>
    BY <1>1, <1>3
  <1>5. /\ cs \in Seq(CompilerObject) /\ Len(cs) = n + 2
        /\ \A d \in DOMAIN cs : Frame(cs[d].localvars)
    <2> DEFINE cs1 == Append(compilers, this)
    <2>1. /\ cs1 \in Seq(CompilerObject) /\ Len(cs1) = n + 1
          /\ \A d \in DOMAIN cs1 : Frame(cs1[d].localvars)
      BY <1>1, <1>3, AppendObject
    <2> HIDE DEF cs1
    <2>2. /\ Append(cs1, this) \in Seq(CompilerObject)
          /\ Len(Append(cs1, this)) = Len(cs1) + 1
          /\ \A d \in DOMAIN Append(cs1, this) : Frame(Append(cs1, this)[d].localvars)
      BY <1>1, <2>1, AppendObject
    <2> QED
      BY <1>1, <2>1, <2>2 DEF cs1
  <1> HIDE DEF cs
  <1>6. /\ self \in 1 .. n + 2 /\ inner \in 1 .. n + 2 /\ inner + 1 \in 1 .. n + 2
        /\ n + 2 \in Nat
    BY <1>1 DEF inner
  <1>7. label(1) \in Nat /\ label(2) \in Nat
    BY DEF label, IInv
  <1> DEFINE out == jump_to(label(2)) \o <<define(label(1))>>
  <1>8. /\ branch_if_zero(label(1)) \in Seq(Line) /\ out \in Seq(Line)
        /\ <<define(label(2))>> \in Seq(Line)
    <2>1. jump_to(label(2)) \in Seq(Line) /\ branch_if_zero(label(1)) \in Seq(Line)
      BY <1>7, JumpType
    <2>2. define(label(1)) \in Line /\ define(label(2)) \in Line
      BY <1>7, LineType
    <2> QED
      BY <2>1, <2>2
  <1> HIDE DEF out
  <1>9. /\ GoodTasks(visit(node.condition, self), n + 2)
        /\ GoodTasks(visit_all(node.then_statements, inner), n + 2)
        /\ GoodTasks(visit_all(node.else_statements, inner + 1), n + 2)
    BY <1>2, <1>6, Pieces
  <1>10. /\ GoodTasks(emit(branch_if_zero(label(1))), n + 2)
         /\ GoodTasks(emit(out), n + 2)
         /\ GoodTasks(emit(<<define(label(2))>>), n + 2)
    BY <1>8, GoodEmit
  <1> DEFINE tasks == visit(node.condition, self) \o emit(branch_if_zero(label(1)))
                        \o visit_all(node.then_statements, inner) \o emit(out)
                        \o visit_all(node.else_statements, inner + 1)
                        \o emit(<<define(label(2))>>)
  <1>11. GoodTasks(tasks, n + 2)
    BY <1>9, <1>10, GoodConcat
  <1>12. Expand(tasks, cs, 2)
    BY <1>4 DEF VisitIf, out
  <1> HIDE DEF tasks
  <1> QED
    BY <1>1, <1>5, <1>11, <1>12, ExpandPreserves

LEMMA WhilePreserves ==
    ASSUME IInv, VisitWhile
    PROVE  IInv'
  <1> DEFINE n == Len(compilers)
             object == with_break_continue_label(label(2), label(1))
             cs == Append(compilers, object)
  <1>1. /\ work # <<>> /\ self \in 1 .. n /\ n \in Nat /\ node \in Node
        /\ this \in CompilerObject /\ Frame(this.localvars)
    BY Self DEF VisitWhile, Visiting, Running
  <1>2. node.condition \in Expr /\ node.statements \in Seq(Stmt)
    BY <1>1, NodeFields DEF VisitWhile, Visiting
  <1>3. label(1) \in Nat /\ label(2) \in Nat
    BY DEF label, IInv
  <1>4. object \in CompilerObject /\ Frame(object.localvars)
    BY <1>1, <1>3, LoopObject
  <1> HIDE DEF object
  <1>5. /\ cs \in Seq(CompilerObject) /\ Len(cs) = n + 1
        /\ \A d \in DOMAIN cs : Frame(cs[d].localvars)
    BY <1>4, AppendObject DEF IInv
  <1> HIDE DEF cs
  <1>6. self \in 1 .. n + 1 /\ inner \in 1 .. n + 1 /\ n + 1 \in Nat
    BY <1>1 DEF inner
  <1> DEFINE out == jump_to(label(1)) \o <<define(label(2))>>
  <1>7. /\ branch_if_zero(label(2)) \in Seq(Line) /\ out \in Seq(Line)
        /\ <<define(label(1))>> \in Seq(Line)
    <2>1. jump_to(label(1)) \in Seq(Line) /\ branch_if_zero(label(2)) \in Seq(Line)
      BY <1>3, JumpType
    <2>2. define(label(1)) \in Line /\ define(label(2)) \in Line
      BY <1>3, LineType
    <2> QED
      BY <2>1, <2>2
  <1> HIDE DEF out
  <1>8. /\ GoodTasks(visit(node.condition, self), n + 1)
        /\ GoodTasks(visit_all(node.statements, inner), n + 1)
    BY <1>2, <1>6, Pieces
  <1>9. /\ GoodTasks(emit(branch_if_zero(label(2))), n + 1)
        /\ GoodTasks(emit(out), n + 1)
        /\ GoodTasks(emit(<<define(label(1))>>), n + 1)
    BY <1>7, GoodEmit
  <1> DEFINE tasks == emit(<<define(label(1))>>) \o visit(node.condition, self)
                        \o emit(branch_if_zero(label(2)))
                        \o visit_all(node.statements, inner) \o emit(out)
  <1>10. GoodTasks(tasks, n + 1)
    BY <1>8, <1>9, GoodConcat
  <1>11. Expand(tasks, cs, 2)
    BY DEF VisitWhile, out, cs, object
  <1> HIDE DEF tasks
  <1> QED
    BY <1>1, <1>5, <1>10, <1>11, ExpandPreserves

LEMMA ForPreserves ==
    ASSUME IInv, VisitFor
    PROVE  IInv'
  <1> DEFINE n == Len(compilers)
             body == with_break_continue_label(label(3), label(2))
             map == Bind(this.localvars, node.name, next_local_offset(this.localvars))
             object == [body EXCEPT !.localvars = map]
             cs == Append(compilers, object)
  <1>1. /\ work # <<>> /\ self \in 1 .. n /\ n \in Nat /\ node \in Node
        /\ this \in CompilerObject /\ Frame(this.localvars)
    BY Self DEF VisitFor, Visiting, Running
  <1>2. /\ node.name \in Name /\ node.initial \in Expr /\ node.condition \in Expr
        /\ node.update \in Expr /\ node.statements \in Seq(Stmt)
    BY <1>1, NodeFields DEF VisitFor, Visiting
  <1>3. label(1) \in Nat /\ label(2) \in Nat /\ label(3) \in Nat
    BY DEF label, IInv
  <1>4. body \in CompilerObject /\ body.localvars = this.localvars
    BY <1>1, <1>3, LoopObject
  <1>5. Frame(map)
    BY <1>1, <1>2, BindFrame
  <1>6. object = [body EXCEPT !.localvars =
                     Bind(@, node.name, next_local_offset(this.localvars))]
    BY <1>4
  <1> HIDE DEF body, map
  <1>7. object \in CompilerObject /\ Frame(object.localvars)
    <2>1. map \in PartialMap(Int)
      BY <1>5 DEF Frame
    <2> QED
      BY <1>4, <1>5, <2>1 DEF CompilerObject
  <1> HIDE DEF object
  <1>8. /\ cs \in Seq(CompilerObject) /\ Len(cs) = n + 1
        /\ \A d \in DOMAIN cs : Frame(cs[d].localvars)
    BY <1>7, AppendObject DEF IInv
  <1> HIDE DEF cs
  <1>9. self \in 1 .. n + 1 /\ inner \in 1 .. n + 1 /\ n + 1 \in Nat
    BY <1>1 DEF inner
  <1> DEFINE out == jump_to(label(1)) \o <<define(label(3)), line("pop_eax")>>
  <1>10. /\ branch_if_zero(label(3)) \in Seq(Line) /\ out \in Seq(Line)
         /\ <<define(label(1))>> \in Seq(Line) /\ <<define(label(2))>> \in Seq(Line)
         /\ <<with_imm("push_imm", 0)>> \in Seq(Line)
    <2>1. jump_to(label(1)) \in Seq(Line) /\ branch_if_zero(label(3)) \in Seq(Line)
      BY <1>3, JumpType
    <2>2. /\ define(label(1)) \in Line /\ define(label(2)) \in Line
          /\ define(label(3)) \in Line
      BY <1>3, LineType
    <2>3. with_imm("push_imm", 0) \in Line /\ line("pop_eax") \in Line
      BY LineType DEF Macro
    <2> QED
      BY <2>1, <2>2, <2>3
  <1> HIDE DEF out
  <1>11. /\ GoodTasks(assign(node.initial, self, node.name, inner), n + 1)
         /\ GoodTasks(assign(node.update, inner, node.name, inner), n + 1)
         /\ GoodTasks(visit(node.condition, inner), n + 1)
         /\ GoodTasks(visit_all(node.statements, inner), n + 1)
    BY <1>2, <1>9, Pieces, AssignPiece
  <1>12. /\ GoodTasks(emit(<<with_imm("push_imm", 0)>>), n + 1)
         /\ GoodTasks(emit(<<define(label(1))>>), n + 1)
         /\ GoodTasks(emit(branch_if_zero(label(3))), n + 1)
         /\ GoodTasks(emit(<<define(label(2))>>), n + 1)
         /\ GoodTasks(emit(out), n + 1)
    BY <1>10, GoodEmit
  <1> DEFINE front == emit(<<with_imm("push_imm", 0)>>)
                        \o assign(node.initial, self, node.name, inner)
                        \o emit(<<define(label(1))>>)
                        \o visit(node.condition, inner)
             tasks == front
                        \o emit(branch_if_zero(label(3)))
                        \o visit_all(node.statements, inner)
                        \o emit(<<define(label(2))>>)
                        \o assign(node.update, inner, node.name, inner)
                        \o emit(out)
  <1>13. GoodTasks(front, n + 1)
    BY <1>11, <1>12, GoodConcat
  <1>14. GoodTasks(tasks, n + 1)
    <2> HIDE DEF front
    <2> QED
      BY <1>11, <1>12, <1>13, GoodConcat
  <1>15. Expand(tasks, cs, 3)
    BY <1>6 DEF VisitFor, out, cs, body
  <1> HIDE DEF tasks
  <1> QED
    BY <1>1, <1>8, <1>14, <1>15, ExpandPreserves

LEMMA GlobalVarPreserves ==
    ASSUME IInv, VisitGlobalVar
    PROVE  IInv'
  <1> DEFINE n == Len(compilers)
             map == Bind(this.globalvars, node.name, label(1))
             object == [this EXCEPT !.globalvars = map]
             cs == [compilers EXCEPT ![self] = object]
  <1>1. /\ work # <<>> /\ self \in 1 .. n /\ n \in Nat /\ node \in Node
        /\ this \in CompilerObject /\ Frame(this.localvars)
        /\ DOMAIN compilers = 1 .. n
    BY Self DEF VisitGlobalVar, Visiting, Running
  <1>2. node.name \in Name /\ node.value \in Expr
    BY <1>1, NodeFields DEF VisitGlobalVar, Visiting
  <1>3. label(1) \in Nat /\ label(2) \in Nat
    BY DEF label, IInv
  <1>4. map \in PartialMap(Nat)
    BY <1>1, <1>2, <1>3, BindMap DEF CompilerObject
  <1>5. cs = [compilers EXCEPT ![self].globalvars = Bind(@, node.name, label(1))]
    BY DEF this
  <1> HIDE DEF map
  <1>6. object \in CompilerObject /\ Frame(object.localvars)
    BY <1>1, <1>4 DEF CompilerObject
  <1> HIDE DEF object
  <1>7. /\ cs \in Seq(CompilerObject) /\ Len(cs) = n /\ DOMAIN cs = 1 .. n
        /\ \A d \in 1 .. n : Frame(cs[d].localvars)
    BY <1>1, <1>6, UpdateObject
  <1> HIDE DEF cs
  <1> DEFINE out1 == jump_to(label(2)) \o <<define(label(1)), zero_word, define(label(2))>>
             out2 == lines(<<"pop_ebx">>) \o store_label(label(1))
  <1>8. out1 \in Seq(Line) /\ out2 \in Seq(Line)
    <2>1. jump_to(label(2)) \in Seq(Line) /\ store_label(label(1)) \in Seq(Line)
      BY <1>3, JumpType
    <2>2. define(label(1)) \in Line /\ define(label(2)) \in Line /\ zero_word \in Line
      BY <1>3, LineType
    <2> QED
      BY <2>1, <2>2, PiecesType
  <1> HIDE DEF out1, out2
  <1>9. GoodTasks(emit(out1) \o visit(node.value, self) \o emit(out2), n)
    BY <1>1, <1>2, <1>8, GoodEmit, Pieces, GoodConcat
  <1>10. Expand(emit(out1) \o visit(node.value, self) \o emit(out2), cs, 2)
    BY <1>5 DEF VisitGlobalVar, out1, out2
  <1> QED
    BY <1>1, <1>7, <1>9, <1>10, ExpandPreserves

LEMMA FunctionPreserves ==
    ASSUME IInv, VisitFunction
    PROVE  IInv'
  <1> DEFINE n == Len(compilers)
             map == Bind(this.globalvars, node.name, label(1))
             outer == [this EXCEPT !.globalvars = map,
                                   !.localvars = argument_offsets(node.arguments)]
             object == [outer EXCEPT !.return_label = label(4)]
             cs1 == [compilers EXCEPT ![self] = outer]
             cs == Append(cs1, object)
  <1>1. /\ work # <<>> /\ self \in 1 .. n /\ n \in Nat /\ node \in Node
        /\ this \in CompilerObject
        /\ DOMAIN compilers = 1 .. n
    BY Self DEF VisitFunction, Visiting, Running
  <1>2. /\ node.name \in Name /\ node.arguments \in Seq(Name)
        /\ node.statements \in Seq(Stmt)
    BY <1>1, NodeFields DEF VisitFunction, Visiting
  <1>3. label(1) \in Nat /\ label(2) \in Nat /\ label(3) \in Nat /\ label(4) \in Nat
    BY DEF label, IInv
  <1>4. map \in PartialMap(Nat)
    BY <1>1, <1>2, <1>3, BindMap DEF CompilerObject
  <1>5. Frame(argument_offsets(node.arguments))
    BY <1>2, ArgumentFrame
  <1>6. outer = [this EXCEPT !.globalvars = Bind(@, node.name, label(1)),
                             !.localvars = argument_offsets(node.arguments)]
    OBVIOUS
  <1> HIDE DEF map
  <1>7. outer \in CompilerObject /\ Frame(outer.localvars)
    <2>1. argument_offsets(node.arguments) \in PartialMap(Int)
      BY <1>5 DEF Frame
    <2> QED
      BY <1>1, <1>4, <1>5, <2>1 DEF CompilerObject
  <1> HIDE DEF outer
  <1>8. object \in CompilerObject /\ Frame(object.localvars)
    BY <1>3, <1>7 DEF CompilerObject
  <1> HIDE DEF object
  <1>9. /\ cs1 \in Seq(CompilerObject) /\ Len(cs1) = n
        /\ \A d \in DOMAIN cs1 : Frame(cs1[d].localvars)
    BY <1>1, <1>7, UpdateObject
  <1> HIDE DEF cs1
  <1>10. /\ cs \in Seq(CompilerObject) /\ Len(cs) = n + 1
         /\ \A d \in DOMAIN cs : Frame(cs[d].localvars)
    BY <1>8, <1>9, AppendObject
  <1> HIDE DEF cs
  <1>11. inner \in 1 .. n + 1 /\ n + 1 \in Nat
    BY <1>1 DEF inner
  <1> DEFINE out1 == jump_to(label(2))
                       \o <<define(label(1)), zero_word, define(label(3))>>
                       \o lines(<<"push_ebp", "mov_ebp_esp">>)
             out2 == <<with_imm("push_imm", 0), define(label(4))>>
                       \o lines(<<"pop_eax", "mov_esp_ebp", "pop_ebp", "ret">>)
                       \o <<define(label(2)), with_label("mov_eax_imm", label(3)),
                            line("mov_ebx_eax")>>
                       \o store_label(label(1))
  <1>12. out1 \in Seq(Line) /\ out2 \in Seq(Line)
    <2>1. jump_to(label(2)) \in Seq(Line) /\ store_label(label(1)) \in Seq(Line)
      BY <1>3, JumpType
    <2>2. /\ define(label(1)) \in Line /\ define(label(2)) \in Line
          /\ define(label(3)) \in Line /\ define(label(4)) \in Line
          /\ zero_word \in Line
      BY <1>3, LineType
    <2>3. "push_imm" \in Macro /\ "mov_eax_imm" \in Macro /\ "mov_ebx_eax" \in Macro
      BY DEF Macro
    <2>4. /\ with_imm("push_imm", 0) \in Line /\ line("mov_ebx_eax") \in Line
          /\ with_label("mov_eax_imm", label(3)) \in Line
      BY <1>3, <2>3, LineType
    <2>5. /\ <<define(label(1)), zero_word, define(label(3))>> \in Seq(Line)
          /\ <<with_imm("push_imm", 0), define(label(4))>> \in Seq(Line)
          /\ <<define(label(2)), with_label("mov_eax_imm", label(3)),
               line("mov_ebx_eax")>> \in Seq(Line)
      BY <2>2, <2>4
    <2>6. /\ lines(<<"push_ebp", "mov_ebp_esp">>) \in Seq(Line)
          /\ lines(<<"pop_eax", "mov_esp_ebp", "pop_ebp", "ret">>) \in Seq(Line)
      BY PiecesType
    <2> QED
      BY <2>1, <2>5, <2>6
  <1> HIDE DEF out1, out2
  <1>13. GoodTasks(emit(out1) \o visit_all(node.statements, inner) \o emit(out2), n + 1)
    BY <1>2, <1>11, <1>12, GoodEmit, Pieces, GoodConcat
  <1>14. Expand(emit(out1) \o visit_all(node.statements, inner) \o emit(out2), cs, 4)
    BY <1>6 DEF VisitFunction, out1, out2, cs, cs1, object
  <1> QED
    BY <1>1, <1>10, <1>13, <1>14, ExpandPreserves

LEMMA ProgramEndPreserves ==
    ASSUME IInv, VisitProgramEnd
    PROVE  IInv'
  <1> DEFINE globalvars == compilers[1].globalvars
             main == IF "main" \in DOMAIN globalvars THEN globalvars["main"] ELSE 0
             out == <<with_label("mov_eax_imm", main)>>
                      \o lines(<<"call_ref_eax", "mov_ebx_eax">>)
                      \o <<with_imm("mov_eax_imm", 1), line("int_80")>>
  <1>1. globalvars \in PartialMap(Nat)
    <2>1. compilers \in Seq(CompilerObject) /\ 1 \in DOMAIN compilers
      BY DEF IInv
    <2>2. compilers[1] \in CompilerObject
      BY <2>1
    <2> QED
      BY <2>2 DEF CompilerObject
  <1>2. main \in Nat
    BY <1>1, PartialMapElements
  <1> HIDE DEF globalvars, main
  <1>3. out \in Seq(Line)
    <2>1. "mov_eax_imm" \in Macro /\ "int_80" \in Macro
      BY DEF Macro
    <2>2. /\ with_label("mov_eax_imm", main) \in Line /\ line("int_80") \in Line
          /\ with_imm("mov_eax_imm", 1) \in Line
      BY <1>2, <2>1, LineType
    <2> QED
      BY <2>2, PiecesType
  <1>4. code' = code \o out
    BY DEF VisitProgramEnd, Write, main, globalvars
  <1> HIDE DEF out
  <1>5. /\ outcome' = "done" /\ UNCHANGED <<work, compilers, next_unique_id>>
    BY DEF VisitProgramEnd
  <1>6. code' \in Seq(Line)
    BY <1>3, <1>4 DEF IInv
  <1> QED
    BY <1>5, <1>6 DEF IInv

-----------------------------------------------------------------------------
LEMMA InitIInv ==
    Init => IInv
  <1> SUFFICES ASSUME Init PROVE IInv
    OBVIOUS
  <1> DEFINE object == [globalvars |-> Nothing, localvars |-> Nothing,
                        return_label |-> 0, break_label |-> 0, continue_label |-> 0]
  <1>1. program.globalvars \in Seq(GlobalVar) /\ program.functions \in Seq(Function)
    BY AstAssumption DEF Init
  <1>2. program.globalvars \in Seq(Node) /\ program.functions \in Seq(Node)
    BY <1>1, NodeSequences
  <1>3. GoodTasks(work, 1)
    BY <1>2, GoodVisitAll, GoodConcat DEF Init, Start
  <1>4. /\ Nothing \in PartialMap(Nat) /\ Nothing \in PartialMap(Int)
        /\ DOMAIN Nothing = {}
    <2>1. /\ Nothing \in [{} -> Nat] /\ Nothing \in [{} -> Int]
          /\ DOMAIN Nothing = {} /\ {} \in SUBSET Name
      BY DEF Nothing
    <2> QED
      BY <2>1 DEF PartialMap
  <1>5. Frame(Nothing)
    BY <1>4 DEF Frame, LowestOffset, Offsets, Apart
  <1>6. object \in CompilerObject /\ object.localvars = Nothing
    BY <1>4 DEF CompilerObject
  <1>7. compilers = <<object>>
    BY DEF Init, Start
  <1> HIDE DEF object
  <1>8. /\ compilers \in Seq(CompilerObject) /\ Len(compilers) = 1
        /\ compilers # <<>>
        /\ \A c \in DOMAIN compilers : compilers[c] = object
    BY <1>6, <1>7
  <1>9. next_unique_id = 0 /\ code = <<>> /\ outcome = "compiling"
    BY DEF Init, Start
  <1> QED
    BY <1>3, <1>5, <1>6, <1>8, <1>9 DEF IInv

LEMMA NextPreserves ==
    IInv /\ [Next]_vars => IInv'
  <1> SUFFICES ASSUME IInv, [Next]_vars PROVE IInv'
    OBVIOUS
  <1>1. CASE UNCHANGED vars
    BY <1>1 DEF vars, IInv
  <1>2. CASE Next
    BY <1>2, EmitPreserves, AddressOfPreserves, SimpleExpressionPreserves,
       OperationPreserves, SimpleStatementPreserves, VarPreserves, IfPreserves,
       WhilePreserves, ForPreserves, GlobalVarPreserves, FunctionPreserves,
       ProgramEndPreserves DEF Next
  <1> QED
    BY <1>1, <1>2

(* Every task of the recursion names a Compiler object that exists, and    *)
(* the output consists of well-formed lines, whatever the program.         *)
THEOREM TypeCorrect == Spec => []TypeOK
  <1>1. Spec => []IInv
    BY InitIInv, NextPreserves, PTL DEF Spec
  <1> QED
    BY <1>1, IInvImplies, PTL

(* In every function of every program, however its blocks nest, no two     *)
(* variables that are visible together share a word of the stack frame,    *)
(* and none lies on the saved ebp or the return address.                   *)
THEOREM FramesDisjoint == Spec => []FrameLayout
  <1>1. Spec => []IInv
    BY InitIInv, NextPreserves, PTL DEF Spec
  <1> QED
    BY <1>1, IInvImplies, PTL

-----------------------------------------------------------------------------
(* Labels.  The labels that lines define, and that tasks will define.      *)
defined_in(out) == {out[i].label : i \in {j \in DOMAIN out : out[j].op = "define"}}

Distinct(out) ==
    \A i, j \in DOMAIN out :
        out[i].op = "define" /\ out[j].op = "define" /\ out[i].label = out[j].label
            => i = j

defined_by(t) == IF t.task = "emit" THEN defined_in(t.out) ELSE {}

(* Lines, and tasks, that define labels of L, and each of them once.       *)
Writes(out, L) == out \in Seq(Line) /\ Distinct(out) /\ defined_in(out) \subseteq L

Defining(tasks, L) ==
    /\ tasks \in Seq(Task)
    /\ \A k \in DOMAIN tasks : tasks[k].task = "emit" => Distinct(tasks[k].out)
    /\ \A k \in DOMAIN tasks : defined_by(tasks[k]) \subseteq L
    /\ \A k, m \in DOMAIN tasks :
          k # m => defined_by(tasks[k]) \cap defined_by(tasks[m]) = {}

(* Every label was taken from the counter, and what is still to be written *)
(* does not define one that was defined before.                            *)
LabelsTaken ==
    /\ Writes(code, 0 .. next_unique_id)
    /\ Defining(work, (0 .. next_unique_id) \ defined_in(code))

-----------------------------------------------------------------------------
(* What is put together from parts that define different labels.           *)
LEMMA Concatenated ==
    ASSUME NEW S, NEW a \in Seq(S), NEW b \in Seq(S)
    PROVE  /\ a \o b \in Seq(S)
           /\ \A i \in DOMAIN (a \o b) :
                 \/ i \in DOMAIN a /\ (a \o b)[i] = a[i]
                 \/ /\ i \notin DOMAIN a
                    /\ i - Len(a) \in DOMAIN b /\ (a \o b)[i] = b[i - Len(a)]
           /\ DOMAIN (a \o b) \subseteq Nat /\ Len(a) \in Nat
  OBVIOUS

LEMMA WritesConcat ==
    ASSUME NEW a, NEW b, NEW L, NEW M, Writes(a, L), Writes(b, M), L \cap M = {}
    PROVE  Writes(a \o b, L \cup M)
  <1> DEFINE c == a \o b
  <1>1. /\ a \in Seq(Line) /\ b \in Seq(Line)
        /\ Distinct(a) /\ Distinct(b)
        /\ defined_in(a) \subseteq L /\ defined_in(b) \subseteq M
    BY DEF Writes
  <1>2. /\ c \in Seq(Line)
        /\ \A i \in DOMAIN c :
              \/ i \in DOMAIN a /\ c[i] = a[i]
              \/ i \notin DOMAIN a /\ i - Len(a) \in DOMAIN b /\ c[i] = b[i - Len(a)]
        /\ DOMAIN c \subseteq Nat /\ Len(a) \in Nat
    BY <1>1, Concatenated
  <1> HIDE DEF c
  <1>3. \A i \in DOMAIN c : c[i].op = "define" =>
           \/ i \in DOMAIN a /\ c[i] = a[i] /\ c[i].label \in L
           \/ /\ i \notin DOMAIN a
              /\ i - Len(a) \in DOMAIN b /\ c[i] = b[i - Len(a)] /\ c[i].label \in M
    BY <1>1, <1>2 DEF defined_in
  <1>4. Distinct(c)
    <2> SUFFICES ASSUME NEW i \in DOMAIN c, NEW j \in DOMAIN c,
                        c[i].op = "define", c[j].op = "define", c[i].label = c[j].label
                 PROVE  i = j
      BY DEF Distinct
    <2>1. i \in Nat /\ j \in Nat /\ Len(a) \in Nat
      BY <1>2
    <2>2. CASE c[i].label \in L
      <3>1. i \in DOMAIN a /\ c[i] = a[i] /\ j \in DOMAIN a /\ c[j] = a[j]
        BY <1>3, <2>2
      <3> QED
        BY <1>1, <3>1 DEF Distinct
    <2>3. CASE c[i].label \notin L
      <3>1. /\ i - Len(a) \in DOMAIN b /\ c[i] = b[i - Len(a)]
            /\ j - Len(a) \in DOMAIN b /\ c[j] = b[j - Len(a)]
        BY <1>3, <2>3
      <3>2. i - Len(a) = j - Len(a)
        BY <1>1, <3>1 DEF Distinct
      <3> QED
        BY <2>1, <3>2
    <2> QED
      BY <2>2, <2>3
  <1>5. defined_in(c) \subseteq L \cup M
    BY <1>3 DEF defined_in
  <1> QED
    BY <1>2, <1>4, <1>5 DEF Writes, c

LEMMA DefiningConcat ==
    ASSUME NEW a, NEW b, NEW L, NEW M, Defining(a, L), Defining(b, M), L \cap M = {}
    PROVE  Defining(a \o b, L \cup M)
  <1> DEFINE c == a \o b
  <1>1. a \in Seq(Task) /\ b \in Seq(Task)
    BY DEF Defining
  <1>2. /\ c \in Seq(Task)
        /\ \A i \in DOMAIN c :
              \/ i \in DOMAIN a /\ c[i] = a[i]
              \/ i \notin DOMAIN a /\ i - Len(a) \in DOMAIN b /\ c[i] = b[i - Len(a)]
        /\ DOMAIN c \subseteq Nat /\ Len(a) \in Nat
    BY <1>1, Concatenated
  <1> HIDE DEF c
  <1>3. \A k \in DOMAIN c :
           \/ k \in DOMAIN a /\ c[k] = a[k] /\ defined_by(c[k]) \subseteq L
           \/ /\ k \notin DOMAIN a /\ k - Len(a) \in DOMAIN b
              /\ c[k] = b[k - Len(a)] /\ defined_by(c[k]) \subseteq M
    BY <1>2 DEF Defining
  <1>4. \A k \in DOMAIN c : c[k].task = "emit" => Distinct(c[k].out)
    BY <1>2 DEF Defining
  <1>5. ASSUME NEW k \in DOMAIN c, NEW m \in DOMAIN c, k # m
        PROVE  defined_by(c[k]) \cap defined_by(c[m]) = {}
    <2>1. CASE k \in DOMAIN a /\ m \in DOMAIN a
      BY <1>3, <1>5, <2>1 DEF Defining
    <2>2. CASE k \notin DOMAIN a /\ m \notin DOMAIN a
      <3>1. k - Len(a) # m - Len(a)
        BY <1>2, <1>5
      <3> QED
        BY <1>3, <2>2, <3>1 DEF Defining
    <2>3. CASE (k \in DOMAIN a) # (m \in DOMAIN a)
      BY <1>3, <2>3
    <2> QED
      BY <2>1, <2>2, <2>3
  <1>6. \A k \in DOMAIN c : defined_by(c[k]) \subseteq L \cup M
    BY <1>3
  <1> QED
    BY <1>2, <1>4, <1>5, <1>6 DEF Defining, c

LEMMA DefiningMore ==
    ASSUME NEW tasks, NEW L, NEW M, Defining(tasks, L), L \subseteq M
    PROVE  Defining(tasks, M)
  BY DEF Defining

(* The first task, and the others.                                         *)
LEMMA DefiningTail ==
    ASSUME NEW tasks, NEW L, Defining(tasks, L), tasks # <<>>
    PROVE  /\ Defining(Tail(tasks), L \ defined_by(Head(tasks)))
           /\ Head(tasks).task = "emit" =>
                 Writes(Head(tasks).out, L) /\ Head(tasks).out \in Seq(Line)
  <1>1. tasks \in Seq(Task) /\ 1 \in DOMAIN tasks /\ Head(tasks) = tasks[1]
    BY DEF Defining
  <1>2. /\ Tail(tasks) \in Seq(Task)
        /\ \A k \in DOMAIN Tail(tasks) :
              /\ Tail(tasks)[k] = tasks[k + 1]
              /\ k \in Nat /\ k + 1 \in DOMAIN tasks /\ k + 1 # 1
    BY <1>1
  <1>3. Defining(Tail(tasks), L \ defined_by(tasks[1]))
    <2>1. \A k \in DOMAIN Tail(tasks) :
             /\ defined_by(Tail(tasks)[k]) \subseteq L
             /\ defined_by(Tail(tasks)[k]) \cap defined_by(tasks[1]) = {}
             /\ Tail(tasks)[k].task = "emit" => Distinct(Tail(tasks)[k].out)
      BY <1>1, <1>2 DEF Defining
    <2>2. ASSUME NEW k \in DOMAIN Tail(tasks), NEW m \in DOMAIN Tail(tasks), k # m
          PROVE  defined_by(Tail(tasks)[k]) \cap defined_by(Tail(tasks)[m]) = {}
      <3>1. k + 1 # m + 1
        BY <1>2, <2>2
      <3> QED
        BY <1>2, <3>1 DEF Defining
    <2>3. \A k \in DOMAIN Tail(tasks) :
             defined_by(Tail(tasks)[k]) \subseteq L \ defined_by(tasks[1])
      BY <2>1
    <2> QED
      BY <1>2, <2>1, <2>2, <2>3 DEF Defining
  <1>4. tasks[1].task = "emit" => Writes(tasks[1].out, L)
    <2>1. tasks[1].task = "emit" => tasks[1].out \in Seq(Line)
      <3>1. tasks[1] \in Task
        BY <1>1
      <3> QED
        BY <3>1 DEF Task
    <2> QED
      BY <1>1, <2>1 DEF Defining, Writes, defined_by
  <1> QED
    BY <1>1, <1>3, <1>4 DEF Writes

-----------------------------------------------------------------------------
(* Lines that define no label, and tasks that write only such lines, do    *)
(* not matter.                                                             *)
Quiet(tasks) ==
    /\ tasks \in Seq(Task)
    /\ \A k \in DOMAIN tasks : tasks[k].task = "emit" => tasks[k].out \in Seq(Plain)

LEMMA PlainWrites ==
    ASSUME NEW out \in Seq(Plain)
    PROVE  Writes(out, {})
  <1>1. out \in Seq(Line)
    BY PlainType
  <1>2. \A i \in DOMAIN out : out[i].op # "define"
    <2>1. \A i \in DOMAIN out : out[i] \in Plain
      OBVIOUS
    <2> QED
      BY <2>1 DEF Plain
  <1> QED
    BY <1>1, <1>2 DEF Writes, Distinct, defined_in

LEMMA PlainAround ==
    ASSUME NEW out, NEW L, Writes(out, L), NEW a \in Seq(Plain)
    PROVE  Writes(a \o out, L) /\ Writes(out \o a, L)
  <1>1. Writes(a, {})
    BY PlainWrites
  <1>2. Writes(a \o out, {} \cup L) /\ Writes(out \o a, L \cup {})
    BY <1>1, WritesConcat
  <1> QED
    BY <1>2

LEMMA QuietDefines ==
    ASSUME NEW tasks, Quiet(tasks)
    PROVE  Defining(tasks, {})
  <1>1. \A k \in DOMAIN tasks : tasks[k].task = "emit" =>
           Distinct(tasks[k].out) /\ defined_in(tasks[k].out) = {}
    BY PlainWrites DEF Quiet, Writes
  <1> QED
    BY <1>1 DEF Quiet, Defining, defined_by

LEMMA QuietAround ==
    ASSUME NEW tasks, NEW L, Defining(tasks, L), NEW a, Quiet(a)
    PROVE  Defining(a \o tasks, L) /\ Defining(tasks \o a, L)
  <1>1. Defining(a, {})
    BY QuietDefines
  <1>2. Defining(a \o tasks, {} \cup L) /\ Defining(tasks \o a, L \cup {})
    BY <1>1, DefiningConcat
  <1> QED
    BY <1>2

LEMMA QuietConcat ==
    ASSUME NEW a, NEW b, Quiet(a), Quiet(b)
    PROVE  Quiet(a \o b)
  <1>1. a \in Seq(Task) /\ b \in Seq(Task)
    BY DEF Quiet
  <1>2. /\ a \o b \in Seq(Task)
        /\ \A i \in DOMAIN (a \o b) :
              \/ i \in DOMAIN a /\ (a \o b)[i] = a[i]
              \/ i - Len(a) \in DOMAIN b /\ (a \o b)[i] = b[i - Len(a)]
    BY <1>1, Concatenated
  <1> QED
    BY <1>2 DEF Quiet

LEMMA QuietEmit ==
    ASSUME NEW out \in Seq(Plain)
    PROVE  Quiet(emit(out))
  BY PlainType DEF Quiet, emit, Task

(* Only emit writes lines of its own.                                      *)
LEMMA QuietPieces ==
    ASSUME NEW n \in Nat, NEW c \in 1 .. n
    PROVE  /\ \A e \in Expr : Quiet(visit(e, c))
           /\ \A ss \in Seq(Stmt) : Quiet(visit_all(ss, c))
           /\ \A es \in Seq(Expr) : Quiet(visit_reversed(es, c))
           /\ \A name \in Name : Quiet(address_of(name, c))
  <1>1. \A e \in Expr : Quiet(visit(e, c))
    BY Pieces DEF GoodTasks, Quiet, visit
  <1>2. \A name \in Name : Quiet(address_of(name, c))
    BY Pieces DEF GoodTasks, Quiet, address_of
  <1>3. \A nodes : visit_all(nodes, c) \in Seq(Task) => Quiet(visit_all(nodes, c))
    BY DEF Quiet, visit_all
  <1>4. \A ss \in Seq(Stmt) : Quiet(visit_all(ss, c))
    BY <1>3, Pieces DEF GoodTasks
  <1>5. ASSUME NEW es \in Seq(Expr)
        PROVE  Quiet(visit_reversed(es, c))
    <2>1. visit_reversed(es, c) \in Seq(Task)
      BY Pieces DEF GoodTasks
    <2>2. \A k \in 1 .. Len(es) :
             visit_reversed(es, c)[k].task = "visit"
      BY DEF visit_reversed, visit_all
    <2>3. DOMAIN visit_reversed(es, c) = 1 .. Len(es)
      BY DEF visit_reversed
    <2> QED
      BY <2>1, <2>2, <2>3 DEF Quiet
  <1> QED
    BY <1>1, <1>2, <1>4, <1>5

LEMMA QuietAssign ==
    ASSUME NEW n \in Nat, NEW c \in 1 .. n, NEW d \in 1 .. n,
           NEW e \in Expr, NEW name \in Name
    PROVE  Quiet(assign(e, c, name, d))
  <1>1. Quiet(emit(lines(<<"push_ebx">>)))
    BY PiecesPlain, QuietEmit
  <1>2. Quiet(emit(lines(<<"pop_ebx">>)))
    BY PiecesPlain, QuietEmit
  <1>3. Quiet(emit(lines(<<"mov_ref_eax_ebx", "pop_ebx">>)))
    BY PiecesPlain, QuietEmit
  <1>4. Quiet(visit(e, c)) /\ Quiet(address_of(name, d))
    BY QuietPieces
  <1> QED
    BY <1>1, <1>2, <1>3, <1>4, QuietConcat DEF assign

-----------------------------------------------------------------------------
(* The lines that define labels.                                           *)
LEMMA DefineWrites ==
    ASSUME NEW l \in Nat
    PROVE  Writes(<<define(l)>>, {l})
  <1>1. define(l) \in Line /\ define(l).op = "define" /\ define(l).label = l
    BY LineType DEF define, with_label, line
  <1> HIDE DEF define
  <1>2. /\ <<define(l)>> \in Seq(Line)
        /\ DOMAIN <<define(l)>> = {1} /\ <<define(l)>>[1] = define(l)
    BY <1>1
  <1> QED
    BY <1>1, <1>2 DEF Writes, Distinct, defined_in

LEMMA DefiningEmit ==
    ASSUME NEW out, NEW L, Writes(out, L)
    PROVE  Defining(emit(out), L)
  <1>1. emit(out) \in Seq(Task) /\ DOMAIN emit(out) = {1} /\ emit(out)[1].out = out
    BY DEF emit, Task, Writes
  <1> QED
    BY <1>1 DEF Defining, Writes, defined_by, emit

(* What every handler has to show: the labels it defines are new.          *)
LEMMA ExpandLabels ==
    ASSUME IInv, LabelsTaken, work # <<>>, task.task # "emit",
           NEW tasks, NEW cs, NEW m \in Nat,
           Defining(tasks, next_unique_id + 1 .. next_unique_id + m),
           Expand(tasks, cs, m)
    PROVE  LabelsTaken'
  <1> DEFINE id == next_unique_id
             old == (0 .. id) \ defined_in(code)
             new == id + 1 .. id + m
  <1>1. /\ work' = tasks \o Tail(work) /\ next_unique_id' = id + m /\ code' = code
        /\ id \in Nat
    BY DEF Expand, IInv
  <1>2. Writes(code, 0 .. id) /\ Defining(work, old)
    BY DEF LabelsTaken
  <1>3. Defining(Tail(work), old)
    <2>1. Defining(Tail(work), old \ defined_by(task))
      BY <1>2, DefiningTail DEF task
    <2> QED
      BY <2>1, DefiningMore
  <1>4. new \cap old = {}
    BY <1>1
  <1>5. Defining(tasks \o Tail(work), new \cup old)
    BY <1>3, <1>4, DefiningConcat
  <1>6. new \cup old \subseteq (0 .. id + m) \ defined_in(code)
    <2>1. defined_in(code) \subseteq 0 .. id
      BY <1>2 DEF Writes
    <2> QED
      BY <1>1, <2>1
  <1>7. Defining(tasks \o Tail(work), (0 .. id + m) \ defined_in(code))
    BY <1>5, <1>6, DefiningMore
  <1>8. Writes(code, 0 .. id + m)
    BY <1>1, <1>2 DEF Writes
  <1> QED
    BY <1>1, <1>7, <1>8 DEF LabelsTaken

LEMMA PerformLabels ==
    ASSUME IInv, LabelsTaken, work # <<>>, task.task # "emit",
           NEW tasks, Quiet(tasks), NEW cs, Expand(tasks, cs, 0)
    PROVE  LabelsTaken'
  <1>1. Defining(tasks, next_unique_id + 1 .. next_unique_id + 0)
    BY QuietDefines, DefiningMore
  <1> QED
    BY <1>1, ExpandLabels

LEMMA EmitLabels ==
    ASSUME IInv, LabelsTaken, Emit
    PROVE  LabelsTaken'
  <1> DEFINE all == 0 .. next_unique_id
             out == task.out
             left == (all \ defined_in(code)) \ defined_in(out)
  <1>1. /\ work # <<>> /\ task.task = "emit"
        /\ code' = code \o out /\ work' = Tail(work)
        /\ next_unique_id' = next_unique_id
    BY DEF Emit, Running, Write
  <1>2. Writes(code, all) /\ Defining(work, all \ defined_in(code))
    BY DEF LabelsTaken
  <1>3. /\ Defining(Tail(work), left)
        /\ Writes(out, all \ defined_in(code))
    BY <1>1, <1>2, DefiningTail DEF task, defined_by
  <1>4. Writes(code, defined_in(code)) /\ Writes(out, defined_in(out))
    BY <1>2, <1>3 DEF Writes
  <1>5. defined_in(code) \cap defined_in(out) = {}
    BY <1>3 DEF Writes
  <1>6. Writes(code \o out, defined_in(code) \cup defined_in(out))
    BY <1>4, <1>5, WritesConcat
  <1>7. left \subseteq all \ defined_in(code \o out)
    BY <1>6 DEF Writes
  <1>8. Writes(code \o out, all)
    BY <1>2, <1>3, <1>6 DEF Writes
  <1>9. Defining(Tail(work), all \ defined_in(code \o out))
    BY <1>3, <1>7, DefiningMore
  <1> QED
    BY <1>1, <1>8, <1>9 DEF LabelsTaken

(* Writing plain lines defines nothing.                                    *)
LEMMA PlainLabels ==
    ASSUME LabelsTaken, NEW out \in Seq(Plain), code' = code \o out,
           next_unique_id' = next_unique_id, work # <<>> => work' = Tail(work),
           work = <<>> => work' = work
    PROVE  LabelsTaken'
  <1>1. Writes(code, 0 .. next_unique_id)
        /\ Defining(work, (0 .. next_unique_id) \ defined_in(code))
    BY DEF LabelsTaken
  <1>2. Writes(code', 0 .. next_unique_id)
    BY <1>1, PlainAround
  <1>3. defined_in(code') \subseteq defined_in(code)
    <2>1. Writes(code, defined_in(code))
      BY <1>1 DEF Writes
    <2>2. Writes(code \o out, defined_in(code))
      BY <2>1, PlainAround
    <2> QED
      BY <2>2 DEF Writes
  <1> DEFINE L == (0 .. next_unique_id) \ defined_in(code)
             M == (0 .. next_unique_id) \ defined_in(code')
  <1>4. L \subseteq M /\ Defining(work, L)
    BY <1>1, <1>3
  <1>5. Defining(work', L)
    <2> HIDE DEF L
    <2>1. CASE work = <<>>
      BY <1>4, <2>1
    <2>2. CASE work # <<>>
      <3>1. Defining(Tail(work), L \ defined_by(Head(work)))
        BY <1>4, <2>2, DefiningTail
      <3>2. Defining(Tail(work), L)
        BY <3>1, DefiningMore
      <3> QED
        BY <2>2, <3>2
    <2> QED
      BY <2>1, <2>2
  <1>6. Defining(work', M)
    <2> HIDE DEF L, M
    <2> QED
      BY <1>4, <1>5, DefiningMore
  <1> QED
    BY <1>2, <1>6 DEF LabelsTaken

-----------------------------------------------------------------------------
(* One lemma for every group of handlers.                                  *)
LEMMA AddressOfLabels ==
    ASSUME IInv, LabelsTaken, AddressOf
    PROVE  LabelsTaken'
  <1>1. /\ work # <<>> /\ task.task = "address_of" /\ next_unique_id' = next_unique_id
    BY DEF AddressOf, Running
  <1>2. /\ \A n \in DOMAIN this.globalvars : this.globalvars[n] \in Nat
        /\ \A n \in DOMAIN this.localvars : this.localvars[n] \in Int
    <2>1. this.globalvars \in PartialMap(Nat) /\ this.localvars \in PartialMap(Int)
      BY <1>1, Self DEF CompilerObject
    <2> QED
      BY <2>1, PartialMapElements
  <1>3. "mov_eax_imm" \in Macro /\ "mov_eax_ebp" \in Macro /\ "add_eax_imm" \in Macro
    BY DEF Macro
  <1>4. CASE /\ task.name \in DOMAIN this.globalvars
             /\ Write(<<with_label("mov_eax_imm", this.globalvars[task.name])>>)
             /\ work' = Tail(work) /\ UNCHANGED outcome
    <2>1. <<with_label("mov_eax_imm", this.globalvars[task.name])>> \in Seq(Plain)
      BY <1>2, <1>3, <1>4, PlainType
    <2> QED
      BY <1>1, <1>4, <2>1, PlainLabels DEF Write
  <1>5. CASE /\ task.name \in DOMAIN this.localvars \ DOMAIN this.globalvars
             /\ Write(<<line("mov_eax_ebp"),
                        with_imm("add_eax_imm", this.localvars[task.name])>>)
             /\ work' = Tail(work) /\ UNCHANGED outcome
    <2>1. /\ line("mov_eax_ebp") \in Plain
          /\ with_imm("add_eax_imm", this.localvars[task.name]) \in Plain
      BY <1>2, <1>3, <1>5, PlainType
    <2>2. <<line("mov_eax_ebp"), with_imm("add_eax_imm", this.localvars[task.name])>>
             \in Seq(Plain)
      BY <2>1
    <2> QED
      BY <1>1, <1>5, <2>2, PlainLabels DEF Write
  <1>6. CASE outcome' = "terminate" /\ UNCHANGED <<code, work>>
    BY <1>1, <1>6 DEF LabelsTaken
  <1> QED
    BY <1>4, <1>5, <1>6 DEF AddressOf

LEMMA SimpleExpressionLabels ==
    ASSUME IInv, LabelsTaken, VisitAddressOf \/ VisitVariable \/ VisitNumeral
    PROVE  LabelsTaken'
  <1> DEFINE n == Len(compilers)
  <1>1. /\ work # <<>> /\ task.task # "emit"
        /\ self \in 1 .. n /\ n \in Nat /\ node \in Node
    BY Self DEF VisitAddressOf, VisitVariable, VisitNumeral, Visiting, Running
  <1>2. CASE VisitAddressOf
    <2>1. node.name \in Name
      BY <1>1, <1>2, NodeFields DEF VisitAddressOf, Visiting
    <2>2. Quiet(address_of(node.name, self)) /\ Quiet(emit(lines(<<"push_eax">>)))
      BY <1>1, <2>1, QuietPieces, PiecesPlain, QuietEmit
    <2> QED
      BY <1>1, <1>2, <2>2, QuietConcat, PerformLabels DEF VisitAddressOf, Perform
  <1>3. CASE VisitVariable
    <2>1. node.name \in Name
      BY <1>1, <1>3, NodeFields DEF VisitVariable, Visiting
    <2>2. /\ Quiet(address_of(node.name, self))
          /\ Quiet(emit(lines(<<"mov_eax_ref_eax", "push_eax">>)))
      BY <1>1, <2>1, QuietPieces, PiecesPlain, QuietEmit
    <2> QED
      BY <1>1, <1>3, <2>2, QuietConcat, PerformLabels DEF VisitVariable, Perform
  <1>4. CASE VisitNumeral
    <2>1. node.number \in Int /\ "push_imm" \in Macro
      BY <1>1, <1>4, NodeFields DEF VisitNumeral, Visiting, Macro
    <2>2. <<with_imm("push_imm", node.number)>> \in Seq(Plain)
      BY <2>1, PlainType
    <2> QED
      BY <1>1, <1>4, <2>2, QuietEmit, PerformLabels DEF VisitNumeral, Perform
  <1> QED
    BY <1>2, <1>3, <1>4

LEMMA OperationLabels ==
    ASSUME IInv, LabelsTaken, VisitBinOp \/ VisitUnOp \/ VisitCall
    PROVE  LabelsTaken'
  <1> DEFINE n == Len(compilers)
  <1>1. /\ work # <<>> /\ task.task # "emit"
        /\ self \in 1 .. n /\ n \in Nat /\ node \in Node
    BY Self DEF VisitBinOp, VisitUnOp, VisitCall, Visiting, Running
  <1>2. CASE VisitBinOp
    <2>1. node.lhs \in Expr /\ node.rhs \in Expr /\ node.token \in BinaryToken
      BY <1>1, <1>2, NodeFields DEF VisitBinOp, Visiting
    <2> DEFINE out == lines(<<"pop_ebx", "pop_eax">>) \o operation[node.token]
                        \o lines(<<"pop_ebx", "push_eax">>)
    <2>2. out \in Seq(Plain)
      BY <2>1, PiecesPlain, OperationPlain
    <2> HIDE DEF out
    <2>3. Quiet(emit(lines(<<"push_ebx">>))) /\ Quiet(emit(out))
      BY <2>2, PiecesPlain, QuietEmit
    <2>4. Quiet(visit(node.lhs, self)) /\ Quiet(visit(node.rhs, self))
      BY <1>1, <2>1, QuietPieces
    <2>5. Quiet(emit(lines(<<"push_ebx">>)) \o visit(node.lhs, self)
                  \o visit(node.rhs, self) \o emit(out))
      BY <2>3, <2>4, QuietConcat
    <2> QED
      BY <1>1, <1>2, <2>5, PerformLabels DEF VisitBinOp, Perform, out
  <1>3. CASE VisitUnOp
    <2>1. node.rhs \in Expr /\ node.token \in UnaryToken
      BY <1>1, <1>3, NodeFields DEF VisitUnOp, Visiting
    <2> DEFINE out == lines(<<"pop_eax">>) \o unary_operation[node.token]
                        \o lines(<<"push_eax">>)
    <2>2. out \in Seq(Plain)
      BY <2>1, PiecesPlain, OperationPlain
    <2> HIDE DEF out
    <2>3. Quiet(visit(node.rhs, self) \o emit(out))
      BY <1>1, <2>1, <2>2, QuietPieces, QuietEmit, QuietConcat
    <2> QED
      BY <1>1, <1>3, <2>3, PerformLabels DEF VisitUnOp, Perform, out
  <1>4. CASE VisitCall
    <2>1. node.name \in Name /\ node.arguments \in Seq(Expr)
      BY <1>1, <1>4, NodeFields DEF VisitCall, Visiting
    <2> DEFINE out == <<line("call_ref_eax"),
                        with_imm("add_esp_imm", 4 * Len(node.arguments)),
                        line("push_eax")>>
    <2>2. out \in Seq(Plain)
      <3>1. /\ "call_ref_eax" \in Macro /\ "add_esp_imm" \in Macro /\ "push_eax" \in Macro
            /\ 4 * Len(node.arguments) \in Int
        BY <2>1 DEF Macro
      <3>2. /\ line("call_ref_eax") \in Plain /\ line("push_eax") \in Plain
            /\ with_imm("add_esp_imm", 4 * Len(node.arguments)) \in Plain
        BY <3>1, PlainType
      <3> QED
        BY <3>2
    <2> HIDE DEF out
    <2>3. /\ Quiet(visit_reversed(node.arguments, self))
          /\ Quiet(address_of(node.name, self)) /\ Quiet(emit(out))
      BY <1>1, <2>1, <2>2, QuietPieces, QuietEmit
    <2>4. Quiet(visit_reversed(node.arguments, self)
                  \o address_of(node.name, self) \o emit(out))
      BY <2>3, QuietConcat
    <2> QED
      BY <1>1, <1>4, <2>4, PerformLabels DEF VisitCall, Perform, out
  <1> QED
    BY <1>2, <1>3, <1>4

LEMMA SimpleStatementLabels ==
    ASSUME IInv, LabelsTaken, \/ VisitExpressionStatement \/ VisitLet \/ VisitVar
                              \/ VisitReturn \/ VisitBreak \/ VisitContinue
    PROVE  LabelsTaken'
  <1> DEFINE n == Len(compilers)
  <1>1. /\ work # <<>> /\ task.task # "emit"
        /\ self \in 1 .. n /\ n \in Nat /\ node \in Node
        /\ this \in CompilerObject
    BY Self DEF VisitExpressionStatement, VisitLet, VisitVar, VisitReturn, VisitBreak,
                VisitContinue, Visiting, Running
  <1>2. /\ jump_to(this.return_label) \in Seq(Plain)
        /\ jump_to(this.break_label) \in Seq(Plain)
        /\ jump_to(this.continue_label) \in Seq(Plain)
    BY <1>1, JumpPlain DEF CompilerObject
  <1>3. CASE VisitExpressionStatement
    <2>1. node.expression \in Expr
      BY <1>1, <1>3, NodeFields DEF VisitExpressionStatement, Visiting
    <2>2. Quiet(visit(node.expression, self)) /\ Quiet(emit(lines(<<"pop_eax">>)))
      BY <1>1, <2>1, QuietPieces, PiecesPlain, QuietEmit
    <2> QED
      BY <1>1, <1>3, <2>2, QuietConcat, PerformLabels DEF VisitExpressionStatement, Perform
  <1>4. CASE VisitLet
    <2>1. node.name \in Name /\ node.expression \in Expr
      BY <1>1, <1>4, NodeFields DEF VisitLet, Visiting
    <2>2. Quiet(assign(node.expression, self, node.name, self))
      BY <1>1, <2>1, QuietAssign
    <2> QED
      BY <1>1, <1>4, <2>2, PerformLabels DEF VisitLet, Perform
  <1>5. CASE VisitVar
    <2>1. node.name \in Name /\ node.expression \in Expr
      BY <1>1, <1>5, NodeFields DEF VisitVar, Visiting
    <2>2. <<with_imm("push_imm", 0)>> \in Seq(Plain)
      <3>1. with_imm("push_imm", 0) \in Plain
        BY PlainType DEF Macro
      <3> QED
        BY <3>1
    <2>3. Quiet(emit(<<with_imm("push_imm", 0)>>)
                  \o assign(node.expression, self, node.name, self))
      BY <1>1, <2>1, <2>2, QuietEmit, QuietAssign, QuietConcat
    <2> QED
      BY <1>1, <1>5, <2>3, PerformLabels DEF VisitVar
  <1>6. CASE VisitReturn
    <2>1. node.expression \in Expr
      BY <1>1, <1>6, NodeFields DEF VisitReturn, Visiting
    <2>2. Quiet(visit(node.expression, self) \o emit(jump_to(this.return_label)))
      BY <1>1, <1>2, <2>1, QuietPieces, QuietEmit, QuietConcat
    <2> QED
      BY <1>1, <1>6, <2>2, PerformLabels DEF VisitReturn, Perform
  <1>7. CASE VisitBreak
    BY <1>1, <1>2, <1>7, QuietEmit, PerformLabels DEF VisitBreak, Perform
  <1>8. CASE VisitContinue
    BY <1>1, <1>2, <1>8, QuietEmit, PerformLabels DEF VisitContinue, Perform
  <1> QED
    BY <1>3, <1>4, <1>5, <1>6, <1>7, <1>8

LEMMA ProgramEndLabels ==
    ASSUME IInv, LabelsTaken, VisitProgramEnd
    PROVE  LabelsTaken'
  <1> DEFINE globalvars == compilers[1].globalvars
             main == IF "main" \in DOMAIN globalvars THEN globalvars["main"] ELSE 0
             out == <<with_label("mov_eax_imm", main)>>
                      \o lines(<<"call_ref_eax", "mov_ebx_eax">>)
                      \o <<with_imm("mov_eax_imm", 1), line("int_80")>>
  <1>1. main \in Nat
    <2>1. compilers[1] \in CompilerObject
      BY DEF IInv
    <2>2. globalvars \in PartialMap(Nat)
      BY <2>1 DEF CompilerObject
    <2> QED
      BY <2>2, PartialMapElements
  <1> HIDE DEF globalvars, main
  <1>2. out \in Seq(Plain)
    <2>1. "mov_eax_imm" \in Macro /\ "int_80" \in Macro
      BY DEF Macro
    <2>2. /\ with_label("mov_eax_imm", main) \in Plain /\ line("int_80") \in Plain
          /\ with_imm("mov_eax_imm", 1) \in Plain
      BY <1>1, <2>1, PlainType
    <2> QED
      BY <2>2, PiecesPlain
  <1>3. code' = code \o out /\ work = <<>> /\ work' = work
        /\ next_unique_id' = next_unique_id
    BY DEF VisitProgramEnd, Write, main, globalvars
  <1> HIDE DEF out
  <1> QED
    BY <1>2, <1>3, PlainLabels

-----------------------------------------------------------------------------
(* Handlers that define labels.                                            *)
LEMMA NewLabels ==
    ASSUME IInv
    PROVE  /\ label(1) = next_unique_id + 1 /\ label(2) = next_unique_id + 2
           /\ label(3) = next_unique_id + 3 /\ label(4) = next_unique_id + 4
           /\ next_unique_id \in Nat
  BY DEF IInv, label

(* The groups of lines with labels that the handlers write.                *)
LEMMA GroupWrites ==
    ASSUME NEW l \in Nat, NEW m \in Nat, l # m, NEW p \in Plain, NEW q \in Plain
    PROVE  /\ Writes(<<define(l), p>>, {l})
           /\ Writes(<<p, define(l)>>, {l})
           /\ Writes(<<define(l), p, q>>, {l})
           /\ Writes(<<define(l), p, define(m)>>, {l, m})
           /\ Writes(<<define(l), p, define(m), q>>, {l, m})
  <1> DEFINE a == define(l)
             b == define(m)
  <1>1. /\ a \in Line /\ a.op = "define" /\ a.label = l
        /\ b \in Line /\ b.op = "define" /\ b.label = m
    BY LineType DEF define, with_label, line
  <1>2. p \in Line /\ p.op # "define" /\ q \in Line /\ q.op # "define"
    BY DEF Plain
  <1> HIDE DEF a, b
  <1>3. Writes(<<a, p>>, {l})
    <2> DEFINE s == <<a, p>>
    <2>1. /\ s \in Seq(Line) /\ DOMAIN s = 1 .. 2
          /\ s[1] = a /\ s[2] = p
      BY <1>1, <1>2
    <2> HIDE DEF s
    <2>2. \A i \in DOMAIN s : i = 1 \/ i = 2
      BY <2>1
    <2> QED
      BY <1>1, <1>2, <2>1, <2>2 DEF Writes, Distinct, defined_in, s
  <1>4. Writes(<<p, a>>, {l})
    <2> DEFINE s == <<p, a>>
    <2>1. /\ s \in Seq(Line) /\ DOMAIN s = 1 .. 2
          /\ s[1] = p /\ s[2] = a
      BY <1>1, <1>2
    <2> HIDE DEF s
    <2>2. \A i \in DOMAIN s : i = 1 \/ i = 2
      BY <2>1
    <2> QED
      BY <1>1, <1>2, <2>1, <2>2 DEF Writes, Distinct, defined_in, s
  <1>5. Writes(<<a, p, q>>, {l})
    <2> DEFINE s == <<a, p, q>>
    <2>1. /\ s \in Seq(Line) /\ DOMAIN s = 1 .. 3
          /\ s[1] = a /\ s[2] = p /\ s[3] = q
      BY <1>1, <1>2
    <2> HIDE DEF s
    <2>2. \A i \in DOMAIN s : i = 1 \/ i = 2 \/ i = 3
      BY <2>1
    <2> QED
      BY <1>1, <1>2, <2>1, <2>2 DEF Writes, Distinct, defined_in, s
  <1>6. Writes(<<a, p, b>>, {l, m})
    <2> DEFINE s == <<a, p, b>>
    <2>1. /\ s \in Seq(Line) /\ DOMAIN s = 1 .. 3
          /\ s[1] = a /\ s[2] = p /\ s[3] = b
      BY <1>1, <1>2
    <2> HIDE DEF s
    <2>2. \A i \in DOMAIN s : i = 1 \/ i = 2 \/ i = 3
      BY <2>1
    <2> QED
      BY <1>1, <1>2, <2>1, <2>2 DEF Writes, Distinct, defined_in, s
  <1>7. Writes(<<a, p, b, q>>, {l, m})
    <2> DEFINE s == <<a, p, b, q>>
    <2>1. /\ s \in Seq(Line) /\ DOMAIN s = 1 .. 4
          /\ s[1] = a /\ s[2] = p /\ s[3] = b /\ s[4] = q
      BY <1>1, <1>2
    <2> HIDE DEF s
    <2>2. \A i \in DOMAIN s : i = 1 \/ i = 2 \/ i = 3 \/ i = 4
      BY <2>1
    <2> QED
      BY <1>1, <1>2, <2>1, <2>2 DEF Writes, Distinct, defined_in, s
  <1> QED
    BY <1>3, <1>4, <1>5, <1>6, <1>7 DEF a, b

LEMMA StringLabels ==
    ASSUME IInv, LabelsTaken, VisitString
    PROVE  LabelsTaken'
  <1> DEFINE new == next_unique_id + 1 .. next_unique_id + 2
             out == jump_to(label(2))
                      \o <<define(label(1)), line("data"), define(label(2)),
                           with_label("push_imm", label(1))>>
  <1>1. work # <<>> /\ task.task # "emit"
    BY DEF VisitString, Visiting, Running
  <1>2. /\ label(1) \in Nat /\ label(2) \in Nat /\ label(1) # label(2)
        /\ {label(1), label(2)} \subseteq new
    BY NewLabels
  <1>3. with_label("push_imm", label(1)) \in Plain /\ line("data") \in Plain
    BY <1>2, PlainType DEF Macro
  <1>4. Writes(out, {label(1), label(2)})
    BY <1>2, <1>3, GroupWrites, JumpPlain, PlainAround
  <1> HIDE DEF out
  <1>5. Defining(emit(out), new)
    <2>1. Defining(emit(out), {label(1), label(2)})
      BY <1>4, DefiningEmit
    <2> HIDE DEF new
    <2> QED
      BY <1>2, <2>1, DefiningMore
  <1>6. Expand(emit(out), compilers, 2)
    BY DEF VisitString, out
  <1> QED
    BY <1>1, <1>5, <1>6, ExpandLabels

LEMMA IfLabels ==
    ASSUME IInv, LabelsTaken, VisitIf
    PROVE  LabelsTaken'
  <1> DEFINE n == Len(compilers)
             out == jump_to(label(2)) \o <<define(label(1))>>
             front == visit(node.condition, self) \o emit(branch_if_zero(label(1)))
                        \o visit_all(node.then_statements, inner)
             tasks == front \o emit(out) \o visit_all(node.else_statements, inner + 1)
                        \o emit(<<define(label(2))>>)
  <1>1. /\ work # <<>> /\ task.task # "emit"
        /\ self \in 1 .. n + 2 /\ inner \in 1 .. n + 2 /\ inner + 1 \in 1 .. n + 2
        /\ n + 2 \in Nat /\ node \in Node
    BY Self DEF VisitIf, Visiting, Running, inner
  <1>2. /\ node.condition \in Expr /\ node.then_statements \in Seq(Stmt)
        /\ node.else_statements \in Seq(Stmt)
    BY <1>1, NodeFields DEF VisitIf, Visiting
  <1>3. /\ label(1) \in Nat /\ label(2) \in Nat /\ {label(1)} \cap {label(2)} = {}
        /\ {label(1)} \cup {label(2)} \subseteq next_unique_id + 1 .. next_unique_id + 2
    BY NewLabels
  <1>4. Defining(emit(out), {label(1)}) /\ Defining(emit(<<define(label(2))>>), {label(2)})
    <2>1. Writes(out, {label(1)})
      BY <1>3, DefineWrites, JumpPlain, PlainAround
    <2> QED
      BY <1>3, <2>1, DefineWrites, DefiningEmit
  <1>5. Quiet(front) /\ Quiet(visit_all(node.else_statements, inner + 1))
    BY <1>1, <1>2, <1>3, QuietPieces, JumpPlain, QuietEmit, QuietConcat
  <1>6. Expand(tasks, compilers \o <<this, this>>, 2)
    BY DEF VisitIf
  <1> HIDE DEF out, front
  <1>7. Defining(front \o emit(out) \o visit_all(node.else_statements, inner + 1),
                 {label(1)})
    BY <1>4, <1>5, QuietAround
  <1>8. Defining(tasks, {label(1)} \cup {label(2)})
    BY <1>3, <1>4, <1>7, DefiningConcat
  <1> HIDE DEF tasks
  <1>9. Defining(tasks, next_unique_id + 1 .. next_unique_id + 2)
    BY <1>3, <1>8, DefiningMore
  <1> QED
    BY <1>1, <1>6, <1>9, ExpandLabels

LEMMA WhileLabels ==
    ASSUME IInv, LabelsTaken, VisitWhile
    PROVE  LabelsTaken'
  <1> DEFINE n == Len(compilers)
             out == jump_to(label(1)) \o <<define(label(2))>>
             first == emit(<<define(label(1))>>)
             tasks == first \o visit(node.condition, self)
                        \o emit(branch_if_zero(label(2)))
                        \o visit_all(node.statements, inner) \o emit(out)
             cs == Append(compilers, with_break_continue_label(label(2), label(1)))
  <1>1. /\ work # <<>> /\ task.task # "emit"
        /\ self \in 1 .. n + 1 /\ inner \in 1 .. n + 1
        /\ n + 1 \in Nat /\ node \in Node
    BY Self DEF VisitWhile, Visiting, Running, inner
  <1>2. node.condition \in Expr /\ node.statements \in Seq(Stmt)
    BY <1>1, NodeFields DEF VisitWhile, Visiting
  <1>3. /\ label(1) \in Nat /\ label(2) \in Nat /\ {label(1)} \cap {label(2)} = {}
        /\ {label(1)} \cup {label(2)} \subseteq next_unique_id + 1 .. next_unique_id + 2
    BY NewLabels
  <1>4. Defining(first, {label(1)}) /\ Defining(emit(out), {label(2)})
    <2>1. Writes(out, {label(2)})
      BY <1>3, DefineWrites, JumpPlain, PlainAround
    <2> QED
      BY <1>3, <2>1, DefineWrites, DefiningEmit
  <1>5. /\ Quiet(visit(node.condition, self)) /\ Quiet(emit(branch_if_zero(label(2))))
        /\ Quiet(visit_all(node.statements, inner))
    BY <1>1, <1>2, <1>3, QuietPieces, JumpPlain, QuietEmit
  <1>6. Expand(tasks, cs, 2)
    BY DEF VisitWhile
  <1> HIDE DEF out, first, cs
  <1>7. Defining(first \o visit(node.condition, self) \o emit(branch_if_zero(label(2)))
                   \o visit_all(node.statements, inner), {label(1)})
    BY <1>4, <1>5, QuietAround
  <1>8. Defining(tasks, {label(1)} \cup {label(2)})
    BY <1>3, <1>4, <1>7, DefiningConcat
  <1> HIDE DEF tasks
  <1>9. Defining(tasks, next_unique_id + 1 .. next_unique_id + 2)
    BY <1>3, <1>8, DefiningMore
  <1> QED
    BY <1>1, <1>6, <1>9, ExpandLabels

LEMMA ForLabels ==
    ASSUME IInv, LabelsTaken, VisitFor
    PROVE  LabelsTaken'
  <1> DEFINE n == Len(compilers)
             new == next_unique_id + 1 .. next_unique_id + 3
             zero == emit(<<with_imm("push_imm", 0)>>)
             initial == assign(node.initial, self, node.name, inner)
             update == assign(node.update, inner, node.name, inner)
             out == jump_to(label(1)) \o <<define(label(3)), line("pop_eax")>>
             front == zero \o initial \o emit(<<define(label(1))>>)
                        \o visit(node.condition, inner)
                        \o emit(branch_if_zero(label(3)))
                        \o visit_all(node.statements, inner)
             middle == front \o emit(<<define(label(2))>>) \o update
             tasks == middle \o emit(out)
             body == with_break_continue_label(label(3), label(2))
             cs == Append(compilers,
                          [body EXCEPT !.localvars =
                              Bind(@, node.name, next_local_offset(this.localvars))])
  <1>1. /\ work # <<>> /\ task.task # "emit"
        /\ self \in 1 .. n + 1 /\ inner \in 1 .. n + 1
        /\ n + 1 \in Nat /\ node \in Node
    BY Self DEF VisitFor, Visiting, Running, inner
  <1>2. /\ node.name \in Name /\ node.initial \in Expr /\ node.condition \in Expr
        /\ node.update \in Expr /\ node.statements \in Seq(Stmt)
    BY <1>1, NodeFields DEF VisitFor, Visiting
  <1>3. /\ label(1) \in Nat /\ label(2) \in Nat /\ label(3) \in Nat
        /\ {label(1)} \cap {label(2)} = {}
        /\ ({label(1)} \cup {label(2)}) \cap {label(3)} = {}
        /\ ({label(1)} \cup {label(2)}) \cup {label(3)}
              \subseteq new
    BY NewLabels
  <1>4. /\ Defining(emit(<<define(label(1))>>), {label(1)})
        /\ Defining(emit(<<define(label(2))>>), {label(2)})
        /\ Defining(emit(out), {label(3)})
    <2>1. line("pop_eax") \in Plain
      BY PlainType DEF Macro
    <2>2. Writes(<<define(label(3)), line("pop_eax")>>, {label(3)})
      <3>1. \E m \in Nat : label(3) # m
        BY <1>3, NewLabels
      <3> QED
        BY <1>3, <2>1, <3>1, GroupWrites
    <2>3. Writes(out, {label(3)})
      BY <1>3, <2>2, JumpPlain, PlainAround
    <2> QED
      BY <1>3, <2>3, DefineWrites, DefiningEmit
  <1>5. /\ Quiet(zero) /\ Quiet(initial) /\ Quiet(update)
        /\ Quiet(visit(node.condition, inner)) /\ Quiet(emit(branch_if_zero(label(3))))
        /\ Quiet(visit_all(node.statements, inner))
    <2>1. <<with_imm("push_imm", 0)>> \in Seq(Plain)
      <3>1. with_imm("push_imm", 0) \in Plain
        BY PlainType DEF Macro
      <3> QED
        BY <3>1
    <2>2. Quiet(zero) /\ Quiet(emit(branch_if_zero(label(3))))
      BY <1>3, <2>1, JumpPlain, QuietEmit
    <2>3. Quiet(initial) /\ Quiet(update)
      BY <1>1, <1>2, QuietAssign
    <2>4. Quiet(visit(node.condition, inner)) /\ Quiet(visit_all(node.statements, inner))
      BY <1>1, <1>2, QuietPieces
    <2> QED
      BY <2>2, <2>3, <2>4
  <1>6. Expand(tasks, cs, 3)
    BY DEF VisitFor
  <1> HIDE DEF zero, initial, update, out, cs
  <1>7. Defining(front, {label(1)})
    <2>1. Quiet(zero \o initial)
      BY <1>5, QuietConcat
    <2>2. Defining(zero \o initial \o emit(<<define(label(1))>>), {label(1)})
      BY <1>4, <2>1, QuietAround
    <2> QED
      BY <1>5, <2>2, QuietAround
  <1> HIDE DEF front
  <1>8. Defining(middle, {label(1)} \cup {label(2)})
    <2>1. Defining(front \o emit(<<define(label(2))>>), {label(1)} \cup {label(2)})
      BY <1>3, <1>4, <1>7, DefiningConcat
    <2> QED
      BY <1>5, <2>1, QuietAround
  <1> HIDE DEF middle
  <1>9. Defining(tasks, ({label(1)} \cup {label(2)}) \cup {label(3)})
    BY <1>3, <1>4, <1>8, DefiningConcat
  <1> HIDE DEF tasks
  <1>10. Defining(tasks, new)
    <2> HIDE DEF new
    <2> QED
      BY <1>3, <1>9, DefiningMore
  <1> QED
    BY <1>1, <1>6, <1>10, ExpandLabels

LEMMA GlobalVarLabels ==
    ASSUME IInv, LabelsTaken, VisitGlobalVar
    PROVE  LabelsTaken'
  <1> DEFINE n == Len(compilers)
             new == next_unique_id + 1 .. next_unique_id + 2
             out1 == jump_to(label(2))
                       \o <<define(label(1)), zero_word, define(label(2))>>
             out2 == lines(<<"pop_ebx">>) \o store_label(label(1))
             tasks == emit(out1) \o visit(node.value, self) \o emit(out2)
             cs == [compilers EXCEPT ![self].globalvars = Bind(@, node.name, label(1))]
  <1>1. /\ work # <<>> /\ task.task # "emit"
        /\ self \in 1 .. n /\ n \in Nat /\ node \in Node
    BY Self DEF VisitGlobalVar, Visiting, Running
  <1>2. node.value \in Expr
    BY <1>1, NodeFields DEF VisitGlobalVar, Visiting
  <1>3. /\ label(1) \in Nat /\ label(2) \in Nat /\ label(1) # label(2)
        /\ {label(1), label(2)} \subseteq new
    BY NewLabels
  <1>4. Writes(out1, {label(1), label(2)})
    <2>1. zero_word \in Plain
      BY PlainType DEF zero_word
    <2> QED
      BY <1>3, <2>1, GroupWrites, JumpPlain, PlainAround
  <1>5. out2 \in Seq(Plain)
    BY <1>3, JumpPlain, PiecesPlain
  <1>6. Expand(tasks, cs, 2)
    BY DEF VisitGlobalVar
  <1> HIDE DEF out1, out2, cs
  <1>7. Defining(emit(out1), new)
    <2>1. Defining(emit(out1), {label(1), label(2)})
      BY <1>4, DefiningEmit
    <2> HIDE DEF new
    <2> QED
      BY <1>3, <2>1, DefiningMore
  <1>8. Quiet(visit(node.value, self)) /\ Quiet(emit(out2))
    BY <1>1, <1>2, <1>5, QuietPieces, QuietEmit
  <1>9. Defining(tasks, new)
    BY <1>7, <1>8, QuietAround
  <1> HIDE DEF tasks
  <1> QED
    BY <1>1, <1>6, <1>9, ExpandLabels

LEMMA FunctionLabels ==
    ASSUME IInv, LabelsTaken, VisitFunction
    PROVE  LabelsTaken'
  <1> DEFINE n == Len(compilers)
             new == next_unique_id + 1 .. next_unique_id + 4
             out1 == jump_to(label(2))
                       \o <<define(label(1)), zero_word, define(label(3))>>
                       \o lines(<<"push_ebp", "mov_ebp_esp">>)
             left == <<with_imm("push_imm", 0), define(label(4))>>
                       \o lines(<<"pop_eax", "mov_esp_ebp", "pop_ebp", "ret">>)
             out2 == left
                       \o <<define(label(2)), with_label("mov_eax_imm", label(3)),
                            line("mov_ebx_eax")>>
                       \o store_label(label(1))
             tasks == emit(out1) \o visit_all(node.statements, inner) \o emit(out2)
             outer == [this EXCEPT !.globalvars = Bind(@, node.name, label(1)),
                                   !.localvars = argument_offsets(node.arguments)]
             cs == Append([compilers EXCEPT ![self] = outer],
                          [outer EXCEPT !.return_label = label(4)])
  <1>1. /\ work # <<>> /\ task.task # "emit"
        /\ inner \in 1 .. n + 1 /\ n + 1 \in Nat /\ node \in Node
    BY Self DEF VisitFunction, Visiting, Running, inner
  <1>2. node.statements \in Seq(Stmt)
    BY <1>1, NodeFields DEF VisitFunction, Visiting
  <1>3. /\ label(1) \in Nat /\ label(2) \in Nat /\ label(3) \in Nat /\ label(4) \in Nat
        /\ label(1) # label(3) /\ label(4) # label(2)
        /\ {label(4)} \cap {label(2)} = {}
        /\ {label(1), label(3)} \cap ({label(4)} \cup {label(2)}) = {}
        /\ {label(1), label(3)} \cup ({label(4)} \cup {label(2)}) \subseteq new
    BY NewLabels
  <1>4. Writes(out1, {label(1), label(3)})
    <2>1. zero_word \in Plain
      BY PlainType DEF zero_word
    <2>2. Writes(<<define(label(1)), zero_word, define(label(3))>>, {label(1), label(3)})
      BY <1>3, <2>1, GroupWrites
    <2> QED
      BY <1>3, <2>2, JumpPlain, PiecesPlain, PlainAround
  <1>5. Writes(out2, {label(4)} \cup {label(2)})
    <2>1. /\ with_imm("push_imm", 0) \in Plain /\ line("mov_ebx_eax") \in Plain
          /\ with_label("mov_eax_imm", label(3)) \in Plain
      BY <1>3, PlainType DEF Macro
    <2>2. /\ Writes(<<with_imm("push_imm", 0), define(label(4))>>, {label(4)})
          /\ Writes(<<define(label(2)), with_label("mov_eax_imm", label(3)),
                      line("mov_ebx_eax")>>, {label(2)})
      BY <1>3, <2>1, GroupWrites
    <2>3. Writes(left, {label(4)})
      BY <2>2, PiecesPlain, PlainAround
    <2> HIDE DEF left
    <2>4. Writes(left \o <<define(label(2)), with_label("mov_eax_imm", label(3)),
                           line("mov_ebx_eax")>>, {label(4)} \cup {label(2)})
      BY <1>3, <2>2, <2>3, WritesConcat
    <2> QED
      BY <1>3, <2>4, JumpPlain, PlainAround
  <1>6. Expand(tasks, cs, 4)
    BY DEF VisitFunction
  <1> HIDE DEF out1, out2, cs
  <1>7. Defining(emit(out1) \o visit_all(node.statements, inner), {label(1), label(3)})
    BY <1>1, <1>2, <1>4, DefiningEmit, QuietPieces, QuietAround
  <1>8. Defining(tasks, {label(1), label(3)} \cup ({label(4)} \cup {label(2)}))
    BY <1>3, <1>5, <1>7, DefiningEmit, DefiningConcat
  <1>9. Defining(tasks, new)
    BY <1>3, <1>8, DefiningMore
  <1> HIDE DEF tasks
  <1> QED
    BY <1>1, <1>6, <1>9, ExpandLabels

-----------------------------------------------------------------------------
LEMMA InitLabels ==
    Init => LabelsTaken
  <1> SUFFICES ASSUME Init PROVE LabelsTaken
    OBVIOUS
  <1>1. program.globalvars \in Seq(GlobalVar) /\ program.functions \in Seq(Function)
    BY AstAssumption DEF Init
  <1>2. program.globalvars \in Seq(Node) /\ program.functions \in Seq(Node)
    BY <1>1, NodeSequences
  <1>3. \A nodes \in Seq(Node) : Quiet(visit_all(nodes, 1))
    BY GoodVisitAll DEF GoodTasks, Quiet, visit_all
  <1>4. Quiet(work)
    BY <1>2, <1>3, QuietConcat DEF Init, Start
  <1>5. Defining(work, 0 .. 0 \ defined_in(code))
    BY <1>4, QuietDefines, DefiningMore
  <1>6. code = <<>> /\ next_unique_id = 0
    BY DEF Init, Start
  <1>7. Writes(code, 0 .. 0)
    BY <1>6 DEF Writes, Distinct, defined_in
  <1> QED
    BY <1>5, <1>6, <1>7 DEF LabelsTaken

LEMMA NextLabels ==
    IInv /\ LabelsTaken /\ [Next]_vars => LabelsTaken'
  <1> SUFFICES ASSUME IInv, LabelsTaken, [Next]_vars PROVE LabelsTaken'
    OBVIOUS
  <1>1. CASE UNCHANGED vars
    BY <1>1 DEF vars, LabelsTaken
  <1>2. CASE Next
    BY <1>2, EmitLabels, AddressOfLabels, SimpleExpressionLabels, OperationLabels,
       SimpleStatementLabels, StringLabels, IfLabels, WhileLabels, ForLabels,
       GlobalVarLabels, FunctionLabels, ProgramEndLabels DEF Next
  <1> QED
    BY <1>1, <1>2

(* In the code of every program every label is defined at most once, also  *)
(* while the visitor is still at work: a handler that takes its labels     *)
(* from next_unique_label and defines them only after its children were    *)
(* visited never meets one that a child, or a handler around it, uses.     *)
THEOREM LabelsDefinedOnce == Spec => []DefinedOnce
  <1>1. IInv /\ [Next]_vars => IInv'
    BY NextPreserves
  <1>2. IInv /\ LabelsTaken => DefinedOnce
    BY DEF LabelsTaken, Writes, Distinct, DefinedOnce
  <1> QED
    BY <1>1, <1>2, InitIInv, InitLabels, NextLabels, PTL DEF Spec

-----------------------------------------------------------------------------
(* Lookups.                                                                *)
Known(object) == DOMAIN object.globalvars \cup DOMAIN object.localvars

ScopeOf(object) ==
    [globals |-> DOMAIN object.globalvars, locals |-> DOMAIN object.localvars,
     inside_loop |-> object.break_label # 0]

IsVisit(t, kinds) == t.task = "visit" /\ t.node.kind \in kinds

IsSymbol(t) == IsVisit(t, {"GlobalVar", "Function"})

(* The locals that some tasks will add to an object, and the globals.      *)
Names(T, c) == {t.node.name : t \in {u \in T : IsVisit(u, {"Var"}) /\ u.compiler = c}}

SymbolNames(T) == {t.node.name : t \in {u \in T : IsSymbol(u)}}

(* A task that runs after the tasks T only meets names that it finds.      *)
TaskOK(t, T, objects) ==
    /\ t.task = "address_of" => t.name \in Known(objects[t.compiler])
    /\ t.task = "visit" =>
          /\ t.node \in Expr => names_in[t.node] \subseteq Known(objects[t.compiler])
          /\ t.node \in Stmt =>
                <<t.node, With(Names(T, t.compiler), ScopeOf(objects[t.compiler]))>>
                    \in WellScoped
          /\ IsSymbol(t) =>
                SymbolOK(t.node, DOMAIN objects[1].globalvars \cup SymbolNames(T))

Pending(tasks, objects) ==
    \A i \in DOMAIN tasks : TaskOK(tasks[i], First(tasks, i - 1), objects)

SymbolsLast ==
    \A i \in DOMAIN work :
        IsSymbol(work[i]) => /\ work[i].compiler = 1
                             /\ \A j \in i .. Len(work) : IsSymbol(work[j])

Covered ==
    /\ Pending(work, compilers)
    /\ SymbolsLast
    /\ compilers[1].break_label = 0

(* Tasks that a handler adds: their statements have the objects C.         *)
Piece(tasks, C, objects) ==
    /\ tasks \in Seq(Task)
    /\ Pending(tasks, objects)
    /\ \A i \in DOMAIN tasks :
          /\ ~IsSymbol(tasks[i])
          /\ tasks[i].task = "visit" /\ tasks[i].node \in Stmt => tasks[i].compiler \in C

-----------------------------------------------------------------------------
(* The kind of a node tells its class.                                     *)
ExprKind == {"AddressOf", "Variable", "BinOp", "Call", "Numeral", "String", "UnOp"}

StmtKind == {"Break", "Continue", "ExpressionStatement", "Return", "Let", "Var", "For",
             "If", "While"}

LEMMA Kinds ==
    /\ \A e \in Expr : e.kind \in ExprKind
    /\ \A s \in Stmt : s.kind \in StmtKind
    /\ \A x \in GlobalVar : x.kind = "GlobalVar"
    /\ \A x \in Function : x.kind = "Function"
  <1>1. \A e \in Expression(Expr) : e.kind \in ExprKind
    BY DEF Expression, ExprKind
  <1>2. \A s \in Statement(Expr, Stmt) : s.kind \in StmtKind
    BY DEF Statement, StmtKind
  <1>3. (\A x \in GlobalVar : x.kind = "GlobalVar") /\ (\A x \in Function : x.kind = "Function")
    BY DEF GlobalVar, Function
  <1> QED
    BY <1>1, <1>2, <1>3, AstAssumption

LEMMA Classes ==
    ASSUME NEW x \in Node
    PROVE  /\ x.kind \in ExprKind => x \in Expr /\ x \notin Stmt
           /\ x.kind \in StmtKind => x \in Stmt /\ x \notin Expr
           /\ x.kind \in {"GlobalVar", "Function"} => x \notin Expr /\ x \notin Stmt
           /\ x.kind = "GlobalVar" => x \in GlobalVar
           /\ x.kind = "Function" => x \in Function
  BY Kinds DEF Node, ExprKind, StmtKind

LEMMA ScopeOfObject ==
    ASSUME NEW o \in CompilerObject
    PROVE  /\ ScopeOf(o) \in Scope
           /\ Known(o) = ScopeOf(o).globals \cup ScopeOf(o).locals
           /\ ScopeOf(o).globals = DOMAIN o.globalvars
           /\ ScopeOf(o).locals = DOMAIN o.localvars
           /\ ScopeOf(o).inside_loop <=> o.break_label # 0
           /\ \A names : Sees(names, ScopeOf(o)) <=> names \subseteq Known(o)
  <1>1. DOMAIN o.globalvars \subseteq Name /\ DOMAIN o.localvars \subseteq Name
    <2>1. o.globalvars \in PartialMap(Nat) /\ o.localvars \in PartialMap(Int)
      BY DEF CompilerObject
    <2> QED
      BY <2>1, PartialMapElements
  <1> QED
    BY <1>1 DEF ScopeOf, Scope, Known, Sees

-----------------------------------------------------------------------------
LEMMA NamesUnion ==
    /\ \A A, B, c : Names(A \cup B, c) = Names(A, c) \cup Names(B, c)
    /\ \A c : Names({}, c) = {}
    /\ \A A, B : SymbolNames(A \cup B) = SymbolNames(A) \cup SymbolNames(B)
  BY DEF Names, SymbolNames

LEMMA NamesTyped ==
    ASSUME NEW T \in SUBSET Task, NEW c
    PROVE  Names(T, c) \in SUBSET Name
  <1> SUFFICES ASSUME NEW t \in T, IsVisit(t, {"Var"})
               PROVE  t.node.name \in Name
    BY DEF Names
  <1>1. t.node \in Node /\ t.node.kind = "Var"
    BY DEF Task, Node, IsVisit
  <1> QED
    BY <1>1, NodeFields

(* Only statements declare variables.                                      *)
LEMMA PieceDeclares ==
    ASSUME NEW tasks, NEW C, NEW objects, Piece(tasks, C, objects)
    PROVE  /\ SymbolNames(First(tasks, Len(tasks))) = {}
           /\ \A c : c \notin C => Names(First(tasks, Len(tasks)), c) = {}
  <1>1. \A t \in First(tasks, Len(tasks)) :
           /\ ~IsSymbol(t)
           /\ IsVisit(t, {"Var"}) => t.compiler \in C
    <2> SUFFICES ASSUME NEW i \in 1 .. Len(tasks)
                 PROVE  /\ ~IsSymbol(tasks[i])
                        /\ IsVisit(tasks[i], {"Var"}) => tasks[i].compiler \in C
      BY DEF First
    <2>1. i \in DOMAIN tasks /\ tasks[i] \in Task
      BY DEF Piece
    <2>2. ASSUME IsVisit(tasks[i], {"Var"})
          PROVE  tasks[i].task = "visit" /\ tasks[i].node \in Stmt
      <3>1. tasks[i].task = "visit" /\ tasks[i].node.kind = "Var"
        BY <2>2 DEF IsVisit
      <3>2. tasks[i].node \in Node
        BY <2>1, <3>1 DEF Task, Node
      <3> QED
        BY <3>1, <3>2, Classes DEF StmtKind
    <2> QED
      BY <2>1, <2>2 DEF Piece
  <1> QED
    BY <1>1 DEF SymbolNames, Names

LEMMA PieceConcat ==
    ASSUME NEW a, NEW b, NEW C, NEW D, NEW objects,
           Piece(a, C, objects), Piece(b, D, objects), C \cap D = {}
    PROVE  Piece(a \o b, C \cup D, objects)
  <1> DEFINE c == a \o b
  <1>1. a \in Seq(Task) /\ b \in Seq(Task)
    BY DEF Piece
  <1>2. /\ c \in Seq(Task)
        /\ Len(a) \in Nat /\ Len(b) \in Nat
        /\ DOMAIN a = 1 .. Len(a) /\ DOMAIN b = 1 .. Len(b)
        /\ DOMAIN c = 1 .. Len(a) + Len(b)
        /\ \A i \in 1 .. Len(a) : c[i] = a[i]
        /\ \A i \in 1 .. Len(b) : c[Len(a) + i] = b[i]
    BY <1>1
  <1>3. /\ \A n \in 0 .. Len(a) : First(c, n) = First(a, n)
        /\ \A n \in 0 .. Len(b) : First(c, Len(a) + n) = First(a, Len(a)) \cup First(b, n)
    BY <1>1, FirstConcat
  <1> HIDE DEF c
  <1>4. ASSUME NEW i \in 1 .. Len(a)
        PROVE  /\ TaskOK(c[i], First(c, i - 1), objects)
               /\ ~IsSymbol(c[i])
               /\ c[i].task = "visit" /\ c[i].node \in Stmt => c[i].compiler \in C
    <2>1. i - 1 \in 0 .. Len(a)
      BY <1>2
    <2>2. c[i] = a[i] /\ First(c, i - 1) = First(a, i - 1)
      BY <1>2, <1>3, <2>1
    <2>3. TaskOK(a[i], First(a, i - 1), objects)
      BY <1>2 DEF Piece, Pending
    <2> QED
      BY <1>2, <2>2, <2>3 DEF Piece
  <1>5. ASSUME NEW i \in 1 .. Len(b)
        PROVE  /\ TaskOK(c[Len(a) + i], First(c, Len(a) + i - 1), objects)
               /\ ~IsSymbol(c[Len(a) + i])
               /\ c[Len(a) + i].task = "visit" /\ c[Len(a) + i].node \in Stmt
                     => c[Len(a) + i].compiler \in D
    <2> DEFINE A == First(a, Len(a))
               B == First(b, i - 1)
               t == b[i]
    <2>1. i - 1 \in 0 .. Len(b) /\ Len(a) + i - 1 = Len(a) + (i - 1)
      BY <1>2
    <2>2. c[Len(a) + i] = t /\ First(c, Len(a) + i - 1) = A \cup B
      BY <1>2, <1>3, <2>1
    <2>3. /\ TaskOK(t, B, objects) /\ ~IsSymbol(t)
          /\ t.task = "visit" /\ t.node \in Stmt => t.compiler \in D
      BY <1>2 DEF Piece, Pending
    <2>4. \A d : d \notin C => Names(A, d) = {}
      BY PieceDeclares
    <2> HIDE DEF A, B, t
    <2>5. ASSUME t.task = "visit", t.node \in Stmt
          PROVE  Names(A \cup B, t.compiler) = Names(B, t.compiler)
      <3>1. Names(A, t.compiler) = {}
        BY <2>3, <2>4, <2>5
      <3>2. Names(A \cup B, t.compiler) = Names(A, t.compiler) \cup Names(B, t.compiler)
        BY NamesUnion
      <3> QED
        BY <3>1, <3>2
    <2>6. TaskOK(t, A \cup B, objects)
      BY <2>3, <2>5 DEF TaskOK
    <2> QED
      BY <2>2, <2>3, <2>6
  <1>6. ASSUME NEW j \in 1 .. Len(a) + Len(b)
        PROVE  /\ TaskOK(c[j], First(c, j - 1), objects)
               /\ ~IsSymbol(c[j])
               /\ c[j].task = "visit" /\ c[j].node \in Stmt => c[j].compiler \in C \cup D
    <2>1. CASE j \in 1 .. Len(a)
      BY <1>4, <2>1
    <2>2. CASE j \notin 1 .. Len(a)
      <3>1. j - Len(a) \in 1 .. Len(b) /\ j = Len(a) + (j - Len(a))
        BY <1>2, <2>2
      <3>2. PICK i \in 1 .. Len(b) : j = Len(a) + i
        BY <3>1
      <3> QED
        BY <1>5, <3>2
    <2> QED
      BY <2>1, <2>2
  <1> QED
    BY <1>2, <1>6 DEF Piece, Pending, c

LEMMA QuietPiece ==
    ASSUME NEW a, NEW b, NEW C, NEW objects,
           Piece(a, {}, objects), Piece(b, C, objects)
    PROVE  Piece(a \o b, C, objects) /\ Piece(b \o a, C, objects)
  <1> DEFINE E == {}
  <1>1. E \cap C = {} /\ C \cap E = {} /\ E \cup C = C /\ C \cup E = C
    OBVIOUS
  <1>2. Piece(a, E, objects)
    OBVIOUS
  <1> HIDE DEF E
  <1> QED
    BY <1>1, <1>2, PieceConcat

(* Pieces that declare nothing.                                            *)
LEMMA OnePiece ==
    ASSUME NEW t \in Task, ~IsSymbol(t), t.task = "visit" => t.node \notin Stmt,
           NEW objects, TaskOK(t, {}, objects)
    PROVE  Piece(<<t>>, {}, objects)
  <1> DEFINE s == <<t>>
  <1>1. s \in Seq(Task) /\ DOMAIN s = {1} /\ s[1] = t
    OBVIOUS
  <1> HIDE DEF s
  <1>2. First(s, 1 - 1) = {}
    BY DEF First
  <1> QED
    BY <1>1, <1>2 DEF Piece, Pending, s

LEMMA EmitPiece ==
    ASSUME NEW out \in Seq(Line), NEW objects
    PROVE  Piece(emit(out), {}, objects)
  <1> DEFINE t == [task |-> "emit", out |-> out]
  <1>1. t \in Task /\ t.task = "emit"
    BY DEF Task
  <1> HIDE DEF t
  <1>2. Piece(<<t>>, {}, objects)
    BY <1>1, OnePiece DEF TaskOK, IsSymbol, IsVisit
  <1> QED
    BY <1>2 DEF t, emit

LEMMA AddressPiece ==
    ASSUME NEW name \in Name, NEW c \in Nat \ {0}, NEW objects,
           name \in Known(objects[c])
    PROVE  Piece(address_of(name, c), {}, objects)
  <1> DEFINE t == [task |-> "address_of", name |-> name, compiler |-> c]
  <1>1. t \in Task /\ t.task = "address_of" /\ t.name = name /\ t.compiler = c
    BY DEF Task
  <1> HIDE DEF t
  <1>2. Piece(<<t>>, {}, objects)
    BY <1>1, OnePiece DEF TaskOK, IsSymbol, IsVisit
  <1> QED
    BY <1>2 DEF t, address_of

LEMMA ExpressionTask ==
    ASSUME NEW e \in Expr, NEW c \in Nat \ {0}, NEW objects,
           names_in[e] \subseteq Known(objects[c]),
           NEW t, t = [task |-> "visit", node |-> e, compiler |-> c]
    PROVE  /\ t \in Task /\ t.node \notin Stmt /\ ~IsSymbol(t)
           /\ \A T : TaskOK(t, T, objects)
  <1>1. t \in Task /\ t.task = "visit" /\ t.node = e /\ t.compiler = c
    BY DEF Task
  <1>2. e \notin Stmt /\ e.kind \notin {"GlobalVar", "Function"}
    <2>1. e \in Node /\ e.kind \in ExprKind
      BY Kinds DEF Node
    <2> QED
      BY <2>1, Classes DEF ExprKind
  <1>3. ~IsSymbol(t)
    BY <1>1, <1>2 DEF IsSymbol, IsVisit
  <1> QED
    BY <1>1, <1>2, <1>3 DEF TaskOK

LEMMA VisitPiece ==
    ASSUME NEW e \in Expr, NEW c \in Nat \ {0}, NEW objects,
           names_in[e] \subseteq Known(objects[c])
    PROVE  Piece(visit(e, c), {}, objects)
  <1> DEFINE t == [task |-> "visit", node |-> e, compiler |-> c]
  <1>1. /\ t \in Task /\ t.node \notin Stmt /\ ~IsSymbol(t)
        /\ TaskOK(t, {}, objects)
    BY ExpressionTask
  <1> HIDE DEF t
  <1>2. Piece(<<t>>, {}, objects)
    BY <1>1, OnePiece
  <1> QED
    BY <1>2 DEF t, visit

LEMMA ReversedPiece ==
    ASSUME NEW es \in Seq(Expr), NEW c \in Nat \ {0}, NEW objects,
           \A i \in DOMAIN es : names_in[es[i]] \subseteq Known(objects[c])
    PROVE  Piece(visit_reversed(es, c), {}, objects)
  <1> DEFINE n == Len(es)
             t(e) == [task |-> "visit", node |-> e, compiler |-> c]
             rev == visit_reversed(es, c)
  <1>1. n \in Nat /\ DOMAIN es = 1 .. n
    OBVIOUS
  <1>2. /\ DOMAIN rev = 1 .. n
        /\ \A i \in 1 .. n : rev[i] = t(es[n + 1 - i]) /\ n + 1 - i \in 1 .. n
    BY <1>1 DEF visit_reversed, visit_all
  <1>3. rev \in Seq(Task)
    <2>1. c \in 1 .. c /\ c \in Nat
      OBVIOUS
    <2> QED
      BY <2>1, Pieces DEF GoodTasks
  <1> HIDE DEF rev, n
  <1>4. ASSUME NEW i \in 1 .. n
        PROVE  /\ rev[i].node \notin Stmt /\ ~IsSymbol(rev[i])
               /\ \A T : TaskOK(rev[i], T, objects)
    <2>1. PICK j \in 1 .. n : rev[i] = t(es[j])
      BY <1>2
    <2>2. es[j] \in Expr /\ names_in[es[j]] \subseteq Known(objects[c])
      BY <1>1
    <2> QED
      BY <2>1, <2>2, ExpressionTask
  <1> QED
    BY <1>2, <1>3, <1>4 DEF Piece, Pending, rev

LEMMA AssignPiece2 ==
    ASSUME NEW e \in Expr, NEW c \in Nat \ {0}, NEW name \in Name, NEW d \in Nat \ {0},
           NEW objects,
           names_in[e] \subseteq Known(objects[c]), name \in Known(objects[d])
    PROVE  Piece(assign(e, c, name, d), {}, objects)
  <1>1. Piece(emit(lines(<<"push_ebx">>)), {}, objects)
    BY PiecesType, EmitPiece
  <1>2. Piece(emit(lines(<<"pop_ebx">>)), {}, objects)
    BY PiecesType, EmitPiece
  <1>3. Piece(emit(lines(<<"mov_ref_eax_ebx", "pop_ebx">>)), {}, objects)
    BY PiecesType, EmitPiece
  <1>4. Piece(visit(e, c), {}, objects) /\ Piece(address_of(name, d), {}, objects)
    BY VisitPiece, AddressPiece
  <1> QED
    BY <1>1, <1>2, <1>3, <1>4, QuietPiece DEF assign

(* The statements of a block.                                              *)
LEMMA BlockPiece ==
    ASSUME NEW nodes \in Seq(Stmt), NEW c \in Nat \ {0}, NEW objects,
           BlockIn(nodes, ScopeOf(objects[c]), WellScoped)
    PROVE  Piece(visit_all(nodes, c), {c}, objects)
  <1> DEFINE ts == visit_all(nodes, c)
             n == Len(nodes)
  <1>1. /\ DOMAIN ts = 1 .. n /\ DOMAIN nodes = 1 .. n /\ n \in Nat
        /\ \A i \in 1 .. n : ts[i] = [task |-> "visit", node |-> nodes[i], compiler |-> c]
    BY DEF visit_all
  <1>2. ts \in Seq(Task)
    <2>1. c \in 1 .. c /\ c \in Nat
      OBVIOUS
    <2> QED
      BY <2>1, Pieces DEF GoodTasks
  <1> HIDE DEF ts, n
  <1>3. \A i \in 1 .. n : /\ ts[i].task = "visit" /\ ts[i].node = nodes[i]
                          /\ ts[i].compiler = c /\ nodes[i] \in Stmt
    BY <1>1
  <1>4. \A s \in Stmt : s \notin Expr /\ s.kind \notin {"GlobalVar", "Function"}
    <2>1. \A s \in Stmt : s \in Node /\ s.kind \in StmtKind
      BY Kinds DEF Node
    <2> QED
      BY <2>1, Classes DEF StmtKind
  <1>5. \A i \in 1 .. n : ~IsSymbol(ts[i]) /\ ts[i].node \notin Expr
    BY <1>3, <1>4 DEF IsSymbol, IsVisit
  <1>6. ASSUME NEW i \in 1 .. n
        PROVE  Names(First(ts, i - 1), c) = Declared(nodes, i - 1)
    <2>0. \A j \in 1 .. i - 1 : j \in 1 .. n
      BY <1>1
    <2>1. ASSUME NEW x \in Names(First(ts, i - 1), c)
          PROVE  x \in Declared(nodes, i - 1)
      <3>1. PICK t \in First(ts, i - 1) : IsVisit(t, {"Var"}) /\ x = t.node.name
        BY <2>1 DEF Names
      <3>2. PICK j \in 1 .. i - 1 : t = ts[j]
        BY <3>1 DEF First
      <3>3. t.node = nodes[j]
        BY <2>0, <3>2, <1>3
      <3> QED
        BY <3>1, <3>3 DEF Declared, IsVisit
    <2>2. ASSUME NEW x \in Declared(nodes, i - 1)
          PROVE  x \in Names(First(ts, i - 1), c)
      <3>1. PICK j \in 1 .. i - 1 : nodes[j].kind = "Var" /\ x = nodes[j].name
        BY <2>2 DEF Declared
      <3>2. ts[j] \in First(ts, i - 1)
        BY DEF First
      <3>3. ts[j].node = nodes[j] /\ ts[j].compiler = c /\ ts[j].task = "visit"
        BY <2>0, <1>3
      <3> QED
        BY <3>1, <3>2, <3>3 DEF Names, IsVisit
    <2> QED
      BY <2>1, <2>2
  <1>7. ASSUME NEW i \in 1 .. n
        PROVE  TaskOK(ts[i], First(ts, i - 1), objects)
    <2>1. <<nodes[i], With(Declared(nodes, i - 1), ScopeOf(objects[c]))>> \in WellScoped
      BY <1>1 DEF BlockIn
    <2> QED
      BY <1>3, <1>5, <1>6, <2>1 DEF TaskOK
  <1> QED
    BY <1>1, <1>2, <1>3, <1>5, <1>7 DEF Piece, Pending, ts

-----------------------------------------------------------------------------
(* The task at hand.                                                       *)
LEMMA HeadTask ==
    ASSUME IInv, Covered, work # <<>>
    PROVE  TaskOK(task, {}, compilers)
  <1>1. 1 \in DOMAIN work /\ work[1] = task
    BY DEF IInv, GoodTasks, task
  <1>2. First(work, 1 - 1) = {}
    BY DEF First
  <1> QED
    BY <1>1, <1>2 DEF Covered, Pending

LEMMA HeadExpression ==
    ASSUME IInv, Covered, Visiting(ExprKind)
    PROVE  /\ work # <<>> /\ node \in Expr /\ self \in Nat \ {0}
           /\ names_in[node] \subseteq Known(this)
           /\ ~IsSymbol(task) /\ task.task = "visit"
  <1>1. work # <<>> /\ task.task = "visit" /\ node.kind \in ExprKind
    BY DEF Visiting, Running
  <1>2. node \in Node /\ self \in Nat \ {0}
    BY <1>1, Self
  <1>3. node \in Expr
    BY <1>1, <1>2, Classes
  <1>4. TaskOK(task, {}, compilers)
    BY <1>1, HeadTask
  <1>5. names_in[node] \subseteq Known(this)
    BY <1>1, <1>3, <1>4 DEF TaskOK, node, this, self
  <1>6. ~IsSymbol(task)
    BY <1>1 DEF IsSymbol, IsVisit, node, ExprKind
  <1> QED
    BY <1>1, <1>2, <1>3, <1>5, <1>6

LEMMA HeadStatement ==
    ASSUME IInv, Covered, Visiting(StmtKind)
    PROVE  /\ work # <<>> /\ node \in Stmt /\ self \in Nat \ {0}
           /\ self \in DOMAIN compilers /\ this \in CompilerObject
           /\ ~IsSymbol(task) /\ task.task = "visit"
           /\ Obeys(node, ScopeOf(this))
           /\ \A b \in Blocks(node, ScopeOf(this)) : BlockIn(b[1], b[2], WellScoped)
  <1>1. work # <<>> /\ task.task = "visit" /\ node.kind \in StmtKind
    BY DEF Visiting, Running
  <1>2. /\ node \in Node /\ self \in Nat \ {0} /\ this \in CompilerObject
        /\ self \in DOMAIN compilers
    BY <1>1, Self
  <1>3. node \in Stmt
    BY <1>1, <1>2, Classes
  <1>4. TaskOK(task, {}, compilers)
    BY <1>1, HeadTask
  <1>5. ScopeOf(this) \in Scope
    BY <1>2, ScopeOfObject
  <1>6. <<node, With(Names({}, self), ScopeOf(this))>> \in WellScoped
    BY <1>1, <1>3, <1>4 DEF TaskOK, node, this, self
  <1>7. With(Names({}, self), ScopeOf(this)) = ScopeOf(this)
    <2>1. Names({}, self) = {}
      BY NamesUnion
    <2> QED
      BY <1>5, <2>1, WithMore
  <1>8. ~IsSymbol(task)
    BY <1>1 DEF IsSymbol, IsVisit, node, StmtKind
  <1> QED
    BY <1>1, <1>2, <1>3, <1>5, <1>6, <1>7, <1>8, Unfold

-----------------------------------------------------------------------------
LEMMA Tails ==
    ASSUME IInv, work # <<>>
    PROVE  /\ work \in Seq(Task) /\ Tail(work) \in Seq(Task)
           /\ Len(work) \in Nat /\ Len(work) >= 1
           /\ Len(Tail(work)) = Len(work) - 1
           /\ DOMAIN work = 1 .. Len(work) /\ DOMAIN Tail(work) = 1 .. Len(work) - 1
           /\ work[1] = task
           /\ \A i \in 1 .. Len(work) - 1 : Tail(work)[i] = work[i + 1] /\ i + 1 \in DOMAIN work
  BY DEF IInv, GoodTasks, task

(* What is to be shown of the tasks after the one at hand: they find in    *)
(* the new objects, or will find there, what they found before.            *)
Shifts(tasks, cs) ==
    \A i \in DOMAIN Tail(work), T \in SUBSET Task :
        TaskOK(Tail(work)[i], {task} \cup T, compilers) =>
            TaskOK(Tail(work)[i], First(tasks, Len(tasks)) \cup T, cs)

LEMMA StepCovered ==
    ASSUME IInv, Covered, work # <<>>, NEW tasks, NEW C, NEW cs, Piece(tasks, C, cs),
           work' = tasks \o Tail(work), compilers' = cs, cs[1].break_label = 0,
           Shifts(tasks, cs)
    PROVE  Covered'
  <1> DEFINE t == Tail(work)
             s == tasks \o t
             m == Len(tasks)
             n == Len(work) - 1
             A == First(tasks, m)
  <1>1. /\ work \in Seq(Task) /\ t \in Seq(Task) /\ n \in Nat
        /\ DOMAIN work = 1 .. n + 1 /\ Len(work) = n + 1 /\ Len(t) = n /\ DOMAIN t = 1 .. n
        /\ work[1] = task
        /\ \A i \in 1 .. n : t[i] = work[i + 1] /\ i + 1 \in 1 .. n + 1
    BY Tails
  <1>2. tasks \in Seq(Task) /\ m \in Nat /\ DOMAIN tasks = 1 .. m
    BY DEF Piece
  <1>3. /\ DOMAIN s = 1 .. m + n /\ Len(s) = m + n
        /\ \A i \in 1 .. m : s[i] = tasks[i]
        /\ \A i \in 1 .. n : s[m + i] = t[i]
    BY <1>1, <1>2
  <1>4. /\ \A k \in 0 .. m : First(s, k) = First(tasks, k)
        /\ \A k \in 0 .. n : First(s, m + k) = A \cup First(t, k)
    <2> HIDE DEF t, n
    <2>1. t \in Seq(Task) /\ tasks \in Seq(Task) /\ Len(t) = n
      BY <1>1, <1>2
    <2>2. /\ \A k \in 0 .. m : First(s, k) = First(tasks, k)
          /\ \A k \in 0 .. Len(t) : First(s, m + k) = A \cup First(t, k)
      BY <2>1, FirstConcat
    <2> QED
      BY <2>1, <2>2
  <1>5. \A k \in 0 .. n : First(work, k + 1) = {task} \cup First(t, k)
    <2>1. Head(work) = task
      BY DEF task
    <2> QED
      BY <1>1, <2>1, FirstTail
  <1>6. /\ \A i \in 1 .. n : TaskOK(t[i], {task} \cup First(t, i - 1), compilers)
        /\ \A i \in 1 .. n : First(t, i - 1) \in SUBSET Task
    <2>1. ASSUME NEW i \in 1 .. n
          PROVE  TaskOK(t[i], {task} \cup First(t, i - 1), compilers)
      <3> DEFINE k == i - 1
      <3>1. k \in 0 .. n /\ k + 1 = i + 1 - 1
        BY <1>1
      <3>2. First(work, k + 1) = {task} \cup First(t, k)
        BY <1>5, <3>1
      <3>3. TaskOK(work[i + 1], First(work, i + 1 - 1), compilers)
        BY <1>1 DEF Covered, Pending
      <3> HIDE DEF t
      <3> QED
        BY <1>1, <3>1, <3>2, <3>3
    <2>2. ASSUME NEW i \in 1 .. n
          PROVE  First(t, i - 1) \in SUBSET Task
      <3> HIDE DEF t
      <3>1. \A j \in 1 .. i - 1 : j \in DOMAIN t /\ t[j] \in Task
        BY <1>1
      <3> QED
        BY <3>1 DEF First
    <2> QED
      BY <2>1, <2>2
  <1>7. \A i \in 1 .. n : TaskOK(t[i], A \cup First(t, i - 1), cs)
    BY <1>1, <1>6 DEF Shifts
  <1> HIDE DEF t, s, A, m
  <1>8. ASSUME NEW j \in 1 .. m + n
        PROVE  TaskOK(s[j], First(s, j - 1), cs)
    <2>1. CASE j \in 1 .. m
      <3>1. j - 1 \in 0 .. m /\ s[j] = tasks[j]
        BY <1>2, <1>3, <2>1
      <3>2. TaskOK(tasks[j], First(tasks, j - 1), cs)
        BY <1>2, <2>1 DEF Piece, Pending
      <3> QED
        BY <1>4, <3>1, <3>2
    <2>2. CASE j \notin 1 .. m
      <3>1. PICK i \in 1 .. n : j = m + i
        <4>1. j - m \in 1 .. n /\ j = m + (j - m)
          BY <1>1, <1>2, <2>2
        <4> QED
          BY <4>1
      <3>2. i - 1 \in 0 .. n /\ j - 1 = m + (i - 1)
        BY <1>1, <1>2, <3>1
      <3>3. First(s, j - 1) = A \cup First(t, i - 1)
        BY <1>4, <3>2
      <3>4. s[j] = t[i]
        BY <1>3, <3>1
      <3> QED
        BY <1>7, <3>3, <3>4
    <2> QED
      BY <2>1, <2>2
  <1>9. Pending(s, cs)
    BY <1>3, <1>8 DEF Pending
  <1>10. ASSUME NEW i \in 1 .. m + n, IsSymbol(s[i])
         PROVE  s[i].compiler = 1 /\ \A j \in i .. m + n : IsSymbol(s[j])
    <2>1. i \notin 1 .. m
      <3> SUFFICES ASSUME i \in 1 .. m PROVE FALSE
        OBVIOUS
      <3>1. s[i] = tasks[i] /\ ~IsSymbol(tasks[i])
        BY <1>2, <1>3 DEF Piece
      <3> QED
        BY <1>10, <3>1
    <2>2. PICK k \in 1 .. n : i = m + k
      <3>1. i - m \in 1 .. n /\ i = m + (i - m)
        BY <1>1, <1>2, <2>1
      <3> QED
        BY <3>1
    <2>3. s[i] = work[k + 1] /\ k + 1 \in DOMAIN work
      BY <1>1, <1>3, <2>2
    <2>4. s[i].compiler = 1 /\ \A j \in k + 1 .. n + 1 : IsSymbol(work[j])
      BY <1>1, <1>10, <2>3 DEF Covered, SymbolsLast
    <2>5. ASSUME NEW j \in i .. m + n
          PROVE  IsSymbol(s[j])
      <3>1. /\ j - m \in 1 .. n /\ j = m + (j - m)
            /\ (j - m) + 1 \in k + 1 .. n + 1
        BY <1>1, <1>2, <2>2
      <3>2. PICK l \in 1 .. n : j = m + l /\ l + 1 \in k + 1 .. n + 1
        BY <3>1
      <3>3. s[j] = work[l + 1]
        BY <1>1, <1>3, <3>2
      <3> QED
        BY <2>4, <3>2, <3>3
    <2> QED
      BY <2>4, <2>5
  <1>11. work' = s
    BY DEF s, t
  <1>12. SymbolsLast'
    BY <1>3, <1>10, <1>11 DEF SymbolsLast
  <1> QED
    BY <1>9, <1>11, <1>12 DEF Covered

(* A task that only writes.                                                *)
LEMMA DoneCovered ==
    ASSUME IInv, Covered, work # <<>>, task.task # "visit",
           work' = Tail(work), compilers' = compilers
    PROVE  Covered'
  <1> DEFINE none == <<>>
  <1>1. none \in Seq(Task) /\ DOMAIN none = {} /\ Len(none) = 0
    OBVIOUS
  <1>2. work' = none \o Tail(work)
    <2>1. Tail(work) \in Seq(Task)
      BY Tails
    <2> QED
      BY <2>1
  <1> HIDE DEF none
  <1>3. Piece(none, {}, compilers) /\ First(none, Len(none)) = {}
    BY <1>1 DEF Piece, Pending, First
  <1>4. ASSUME NEW T
        PROVE  /\ SymbolNames({task} \cup T) = SymbolNames({} \cup T)
               /\ \A c : Names({task} \cup T, c) = Names({} \cup T, c)
    BY DEF SymbolNames, Names, IsSymbol, IsVisit
  <1>5. Shifts(none, compilers)
    BY <1>3, <1>4 DEF Shifts, TaskOK
  <1> QED
    BY <1>2, <1>3, <1>5, StepCovered DEF Covered

(* A statement: what it declares moves from the task to its object, and    *)
(* the objects of the new tasks are new.                                   *)
LEMMA StatementCovered ==
    ASSUME IInv, Covered, work # <<>>, ~IsSymbol(task),
           NEW tasks, NEW C, NEW cs, NEW m, Expand(tasks, cs, m),
           Piece(tasks, C, cs), C \cap DOMAIN compilers = {},
           \A d \in DOMAIN compilers :
              ScopeOf(cs[d]) = With(Names({task}, d), ScopeOf(compilers[d]))
    PROVE  Covered'
  <1> DEFINE A == First(tasks, Len(tasks))
             H == {task}
  <1>1. work' = tasks \o Tail(work) /\ compilers' = cs
    BY DEF Expand
  <1>2. /\ 1 \in DOMAIN compilers
        /\ \A d \in DOMAIN compilers : compilers[d] \in CompilerObject
    BY DEF IInv
  <1>3. \A d \in DOMAIN compilers : /\ ScopeOf(compilers[d]) \in Scope
                                    /\ Names(H, d) \in SUBSET Name
    <2>1. H \in SUBSET Task
      BY Tails
    <2> HIDE DEF H
    <2> QED
      BY <1>2, <2>1, ScopeOfObject, NamesTyped
  <1>4. /\ SymbolNames(A) = {} /\ \A c \in DOMAIN compilers : Names(A, c) = {}
    BY PieceDeclares
  <1>5. SymbolNames(H) = {}
    BY DEF SymbolNames
  <1>6. \A d \in DOMAIN compilers : /\ ScopeOf(cs[d]) = With(Names(H, d), ScopeOf(compilers[d]))
                                    /\ ScopeOf(cs[d]) \in Scope
    BY <1>3, WithMore
  <1> HIDE DEF A, H
  <1>7. \A d \in DOMAIN compilers :
           /\ DOMAIN cs[d].globalvars = DOMAIN compilers[d].globalvars
           /\ DOMAIN cs[d].localvars = DOMAIN compilers[d].localvars \cup Names(H, d)
           /\ cs[d].break_label # 0 <=> compilers[d].break_label # 0
    <2> TAKE d \in DOMAIN compilers
    <2>1. ScopeOf(cs[d]) = With(Names(H, d), ScopeOf(compilers[d]))
      BY <1>6
    <2>2. /\ ScopeOf(cs[d]).globals = ScopeOf(compilers[d]).globals
          /\ ScopeOf(cs[d]).locals = ScopeOf(compilers[d]).locals \cup Names(H, d)
          /\ ScopeOf(cs[d]).inside_loop = ScopeOf(compilers[d]).inside_loop
      BY <1>3, <2>1 DEF With, Scope
    <2> QED
      BY <2>2 DEF ScopeOf
  <1>8. cs[1].break_label = 0
    BY <1>2, <1>7 DEF Covered
  <1>9. \A d \in DOMAIN compilers : Known(compilers[d]) \subseteq Known(cs[d])
    BY <1>7 DEF Known
  <1>10. Shifts(tasks, cs)
    <2> SUFFICES ASSUME NEW i \in DOMAIN Tail(work), NEW T \in SUBSET Task,
                        TaskOK(Tail(work)[i], H \cup T, compilers)
                 PROVE  TaskOK(Tail(work)[i], A \cup T, cs)
      BY DEF Shifts, A, H
    <2> DEFINE t == Tail(work)[i]
               c == t.compiler
    <2>1. /\ t \in Task
          /\ t.task # "emit" => c \in DOMAIN compilers
      <3>1. t = work[i + 1] /\ i + 1 \in DOMAIN work
        BY Tails
      <3>2. /\ \A j \in DOMAIN work : work[j].task # "emit" =>
                                         work[j].compiler \in 1 .. Len(compilers)
            /\ DOMAIN compilers = 1 .. Len(compilers)
        BY DEF IInv, GoodTasks
      <3>3. t \in Task
        <4>1. work \in Seq(Task)
          BY Tails
        <4> HIDE DEF t
        <4> QED
          BY <3>1, <4>1
      <3> HIDE DEF t
      <3> QED
        BY <3>1, <3>2, <3>3
    <2> HIDE DEF t
    <2>2. ASSUME t.task = "address_of" PROVE t.name \in Known(cs[c])
      <3>1. t.name \in Known(compilers[c])
        BY <2>2 DEF TaskOK, t
      <3> QED
        BY <1>9, <2>1, <2>2, <3>1
    <2>3. ASSUME t.task = "visit", t.node \in Expr
          PROVE  names_in[t.node] \subseteq Known(cs[c])
      <3>1. names_in[t.node] \subseteq Known(compilers[c])
        BY <2>3 DEF TaskOK, t
      <3> QED
        BY <1>9, <2>1, <2>3, <3>1
    <2>4. ASSUME t.task = "visit", t.node \in Stmt
          PROVE  <<t.node, With(Names(A \cup T, c), ScopeOf(cs[c]))>> \in WellScoped
      <3> DEFINE X == Names(H, c)
                 Y == Names(T, c)
      <3>1. c \in DOMAIN compilers
        BY <2>1, <2>4
      <3>2. <<t.node, With(Names(H \cup T, c), ScopeOf(compilers[c]))>> \in WellScoped
        BY <2>4 DEF TaskOK, t
      <3>3. Names(A \cup T, c) = Y
        <4>1. Names(A \cup T, c) = Names(A, c) \cup Names(T, c)
          BY NamesUnion
        <4> QED
          BY <1>4, <3>1, <4>1
      <3>4. Names(H \cup T, c) = X \cup Y
        BY NamesUnion
      <3>5. X \in SUBSET Name /\ Y \in SUBSET Name
        BY <1>3, <3>1, NamesTyped
      <3>6. ScopeOf(cs[c]) = With(X, ScopeOf(compilers[c])) /\ ScopeOf(compilers[c]) \in Scope
        BY <1>3, <1>6, <3>1
      <3> HIDE DEF X, Y, c
      <3>7. With(Y, With(X, ScopeOf(compilers[c]))) = With(X \cup Y, ScopeOf(compilers[c]))
        BY <3>5, <3>6, WithMore
      <3> QED
        BY <3>2, <3>3, <3>4, <3>6, <3>7
    <2>5. ASSUME IsSymbol(t)
          PROVE  SymbolOK(t.node, DOMAIN cs[1].globalvars \cup SymbolNames(A \cup T))
      <3>1. SymbolOK(t.node, DOMAIN compilers[1].globalvars \cup SymbolNames(H \cup T))
        BY <2>5 DEF TaskOK, t, IsSymbol, IsVisit
      <3>2. SymbolNames(A \cup T) = SymbolNames(H \cup T)
        <4>1. /\ SymbolNames(A \cup T) = SymbolNames(A) \cup SymbolNames(T)
              /\ SymbolNames(H \cup T) = SymbolNames(H) \cup SymbolNames(T)
          BY NamesUnion
        <4> QED
          BY <1>4, <1>5, <4>1
      <3> QED
        BY <1>2, <1>7, <3>1, <3>2
    <2> QED
      BY <2>2, <2>3, <2>4, <2>5 DEF TaskOK, t
  <1> QED
    BY <1>1, <1>8, <1>10, StepCovered

(* A global or a function: only globals and functions come after it.       *)
LEMMA SymbolCovered ==
    ASSUME IInv, Covered, work # <<>>, IsSymbol(task),
           NEW tasks, NEW C, NEW cs, NEW m, Expand(tasks, cs, m),
           Piece(tasks, C, cs), cs[1].break_label = 0,
           DOMAIN cs[1].globalvars = DOMAIN compilers[1].globalvars \cup {node.name}
    PROVE  Covered'
  <1> DEFINE A == First(tasks, Len(tasks))
             H == {task}
  <1>1. work' = tasks \o Tail(work) /\ compilers' = cs
    BY DEF Expand
  <1>2. SymbolNames(A) = {} /\ SymbolNames(H) = {node.name}
    BY PieceDeclares DEF SymbolNames, node
  <1> HIDE DEF A, H
  <1>3. Shifts(tasks, cs)
    <2> SUFFICES ASSUME NEW i \in DOMAIN Tail(work), NEW T \in SUBSET Task,
                        TaskOK(Tail(work)[i], H \cup T, compilers)
                 PROVE  TaskOK(Tail(work)[i], A \cup T, cs)
      BY DEF Shifts, A, H
    <2> DEFINE t == Tail(work)[i]
    <2>1. IsSymbol(t) /\ t \in Task
      <3>1. t = work[i + 1] /\ i + 1 \in 1 .. Len(work) /\ 1 \in DOMAIN work /\ work[1] = task
        BY Tails
      <3>2. \A j \in 1 .. Len(work) : IsSymbol(work[j])
        BY <3>1 DEF Covered, SymbolsLast
      <3> QED
        BY <3>1, <3>2, Tails
    <2> HIDE DEF t
    <2>2. t.task = "visit" /\ t.node \notin Expr /\ t.node \notin Stmt
      <3>1. t.task = "visit" /\ t.node.kind \in {"GlobalVar", "Function"}
        BY <2>1 DEF IsSymbol, IsVisit
      <3>2. t.node \in Node
        BY <2>1, <3>1 DEF Task, Node
      <3> QED
        BY <3>1, <3>2, Classes
    <2>3. SymbolOK(t.node, DOMAIN compilers[1].globalvars \cup SymbolNames(H \cup T))
      BY <2>1, <2>2 DEF TaskOK, t
    <2>4. DOMAIN compilers[1].globalvars \cup SymbolNames(H \cup T)
             = DOMAIN cs[1].globalvars \cup SymbolNames(A \cup T)
      <3>1. /\ SymbolNames(A \cup T) = SymbolNames(A) \cup SymbolNames(T)
            /\ SymbolNames(H \cup T) = SymbolNames(H) \cup SymbolNames(T)
        BY NamesUnion
      <3> QED
        BY <1>2, <3>1
    <2> QED
      BY <2>2, <2>3, <2>4 DEF TaskOK, t
  <1> QED
    BY <1>1, <1>3, StepCovered

(* A handler that keeps the objects there are.                             *)
LEMMA ObjectsKept ==
    ASSUME IInv, Covered, work # <<>>, ~IsSymbol(task), ~IsVisit(task, {"Var"}),
           NEW tasks, NEW C, NEW cs, NEW m, Expand(tasks, cs, m),
           Piece(tasks, C, cs), C \cap DOMAIN compilers = {},
           \A d \in DOMAIN compilers : cs[d] = compilers[d]
    PROVE  Covered'
  <1>1. \A d : Names({task}, d) = {}
    BY DEF Names
  <1>2. ASSUME NEW d \in DOMAIN compilers
        PROVE  ScopeOf(cs[d]) = With(Names({task}, d), ScopeOf(compilers[d]))
    <2>1. ScopeOf(compilers[d]) \in Scope
      BY ScopeOfObject DEF IInv
    <2>2. With({}, ScopeOf(compilers[d])) = ScopeOf(compilers[d])
      BY <2>1, WithMore
    <2> QED
      BY <1>1, <2>2
  <1> QED
    BY <1>2, StatementCovered

LEMMA PerformCovered ==
    ASSUME IInv, Covered, work # <<>>, ~IsSymbol(task), ~IsVisit(task, {"Var"}),
           NEW tasks, NEW m, Expand(tasks, compilers, m), Piece(tasks, {}, compilers)
    PROVE  Covered'
  BY ObjectsKept

-----------------------------------------------------------------------------
(* One lemma for every group of handlers.                                  *)
LEMMA WriteCovered ==
    ASSUME IInv, Covered, Emit \/ AddressOf
    PROVE  Covered' /\ outcome' = outcome
  <1>1. CASE Emit
    <2>1. /\ work # <<>> /\ task.task = "emit" /\ work' = Tail(work)
          /\ compilers' = compilers /\ outcome' = outcome
      BY <1>1 DEF Emit, Running
    <2> QED
      BY <2>1, DoneCovered
  <1>2. CASE AddressOf
    <2>1. work # <<>> /\ task.task = "address_of" /\ compilers' = compilers
      BY <1>2 DEF AddressOf, Running
    <2>2. task.name \in Known(this)
      BY <2>1, HeadTask DEF TaskOK, this, self
    <2>3. work' = Tail(work) /\ outcome' = outcome
      BY <1>2, <2>2 DEF AddressOf, Known
    <2> QED
      BY <2>1, <2>3, DoneCovered
  <1> QED
    BY <1>1, <1>2

LEMMA SimpleExpressionCovered ==
    ASSUME IInv, Covered, VisitAddressOf \/ VisitVariable \/ VisitNumeral \/ VisitString
    PROVE  Covered'
  <1>1. Visiting(ExprKind)
    BY DEF VisitAddressOf, VisitVariable, VisitNumeral, VisitString, Visiting, ExprKind
  <1>2. /\ work # <<>> /\ node \in Expr /\ self \in Nat \ {0}
        /\ names_in[node] \subseteq Known(this)
        /\ ~IsSymbol(task) /\ task.task = "visit" /\ node.kind \in ExprKind
        /\ node \in Node
    BY <1>1, HeadExpression DEF Visiting, Node
  <1>3. ~IsVisit(task, {"Var"}) /\ this = compilers[self]
    BY <1>2 DEF IsVisit, ExprKind, node, this
  <1>4. CASE VisitAddressOf
    <2>1. node.name \in Name /\ node.name \in Known(compilers[self])
      BY <1>2, <1>3, <1>4, NodeFields, NamesBelow DEF VisitAddressOf, Visiting
    <2>2. /\ Piece(address_of(node.name, self), {}, compilers)
          /\ Piece(emit(lines(<<"push_eax">>)), {}, compilers)
      BY <1>2, <2>1, AddressPiece, PiecesType, EmitPiece
    <2> QED
      BY <1>2, <1>3, <1>4, <2>2, QuietPiece, PerformCovered DEF VisitAddressOf, Perform
  <1>5. CASE VisitVariable
    <2>1. node.name \in Name /\ node.name \in Known(compilers[self])
      BY <1>2, <1>3, <1>5, NodeFields, NamesBelow DEF VisitVariable, Visiting
    <2>2. /\ Piece(address_of(node.name, self), {}, compilers)
          /\ Piece(emit(lines(<<"mov_eax_ref_eax", "push_eax">>)), {}, compilers)
      BY <1>2, <2>1, AddressPiece, PiecesType, EmitPiece
    <2> QED
      BY <1>2, <1>3, <1>5, <2>2, QuietPiece, PerformCovered DEF VisitVariable, Perform
  <1>6. CASE VisitNumeral
    <2>1. node.number \in Int /\ "push_imm" \in Macro
      BY <1>2, <1>6, NodeFields DEF VisitNumeral, Visiting, Macro
    <2>2. <<with_imm("push_imm", node.number)>> \in Seq(Line)
      BY <2>1, LineType
    <2> QED
      BY <1>2, <1>3, <1>6, <2>2, EmitPiece, PerformCovered DEF VisitNumeral, Perform
  <1>7. CASE VisitString
    <2> DEFINE out == jump_to(label(2))
                        \o <<define(label(1)), line("data"), define(label(2)),
                             with_label("push_imm", label(1))>>
    <2>1. label(1) \in Nat /\ label(2) \in Nat
      BY DEF label, IInv
    <2>2. jump_to(label(2)) \in Seq(Line)
      BY <2>1, JumpType
    <2>3. "push_imm" \in Macro /\ "data" \in Data
      BY DEF Macro, Data
    <2>4. /\ define(label(1)) \in Line /\ define(label(2)) \in Line /\ line("data") \in Line
          /\ with_label("push_imm", label(1)) \in Line
      BY <2>1, <2>3, LineType
    <2>5. out \in Seq(Line)
      BY <2>2, <2>4
    <2>6. Expand(emit(out), compilers, 2)
      BY <1>7 DEF VisitString
    <2> HIDE DEF out
    <2> QED
      BY <1>2, <1>3, <2>5, <2>6, EmitPiece, PerformCovered
  <1> QED
    BY <1>4, <1>5, <1>6, <1>7

LEMMA OperationCovered ==
    ASSUME IInv, Covered, VisitBinOp \/ VisitUnOp \/ VisitCall
    PROVE  Covered'
  <1>1. Visiting(ExprKind)
    BY DEF VisitBinOp, VisitUnOp, VisitCall, Visiting, ExprKind
  <1>2. /\ work # <<>> /\ node \in Expr /\ self \in Nat \ {0}
        /\ names_in[node] \subseteq Known(this)
        /\ ~IsSymbol(task) /\ task.task = "visit" /\ node.kind \in ExprKind
        /\ node \in Node
    BY <1>1, HeadExpression DEF Visiting, Node
  <1>3. ~IsVisit(task, {"Var"}) /\ this = compilers[self]
    BY <1>2 DEF IsVisit, ExprKind, node, this
  <1>4. CASE VisitBinOp
    <2>1. /\ node.kind = "BinOp" /\ node.lhs \in Expr /\ node.rhs \in Expr
          /\ node.token \in BinaryToken
      BY <1>2, <1>4, NodeFields DEF VisitBinOp, Visiting
    <2>2. /\ names_in[node.lhs] \subseteq Known(compilers[self])
          /\ names_in[node.rhs] \subseteq Known(compilers[self])
      BY <1>2, <1>3, <2>1, NamesBelow
    <2> DEFINE out == lines(<<"pop_ebx", "pop_eax">>) \o operation[node.token]
                        \o lines(<<"pop_ebx", "push_eax">>)
    <2>3. out \in Seq(Line)
      BY <2>1, PiecesType, OperationType
    <2> HIDE DEF out
    <2>4. Piece(emit(lines(<<"push_ebx">>)), {}, compilers) /\ Piece(emit(out), {}, compilers)
      BY <2>3, PiecesType, EmitPiece
    <2>5. Piece(visit(node.lhs, self), {}, compilers) /\ Piece(visit(node.rhs, self), {}, compilers)
      BY <1>2, <2>1, <2>2, VisitPiece
    <2>6. Piece(emit(lines(<<"push_ebx">>)) \o visit(node.lhs, self)
                  \o visit(node.rhs, self) \o emit(out), {}, compilers)
      BY <2>4, <2>5, QuietPiece
    <2> QED
      BY <1>2, <1>3, <1>4, <2>6, PerformCovered DEF VisitBinOp, Perform, out
  <1>5. CASE VisitUnOp
    <2>1. node.kind = "UnOp" /\ node.rhs \in Expr /\ node.token \in UnaryToken
      BY <1>2, <1>5, NodeFields DEF VisitUnOp, Visiting
    <2>2. names_in[node.rhs] \subseteq Known(compilers[self])
      BY <1>2, <1>3, <2>1, NamesBelow
    <2> DEFINE out == lines(<<"pop_eax">>) \o unary_operation[node.token]
                        \o lines(<<"push_eax">>)
    <2>3. out \in Seq(Line)
      BY <2>1, PiecesType, OperationType
    <2> HIDE DEF out
    <2>4. Piece(visit(node.rhs, self) \o emit(out), {}, compilers)
      BY <1>2, <2>1, <2>2, <2>3, VisitPiece, EmitPiece, QuietPiece
    <2> QED
      BY <1>2, <1>3, <1>5, <2>4, PerformCovered DEF VisitUnOp, Perform, out
  <1>6. CASE VisitCall
    <2>1. node.kind = "Call" /\ node.name \in Name /\ node.arguments \in Seq(Expr)
      BY <1>2, <1>6, NodeFields DEF VisitCall, Visiting
    <2>2. /\ node.name \in Known(compilers[self])
          /\ \A i \in DOMAIN node.arguments :
                names_in[node.arguments[i]] \subseteq Known(compilers[self])
      BY <1>2, <1>3, <2>1, NamesBelow
    <2> DEFINE out == <<line("call_ref_eax"),
                        with_imm("add_esp_imm", 4 * Len(node.arguments)),
                        line("push_eax")>>
    <2>3. out \in Seq(Line)
      <3>1. /\ "call_ref_eax" \in Macro /\ "add_esp_imm" \in Macro /\ "push_eax" \in Macro
            /\ 4 * Len(node.arguments) \in Int
        BY <2>1 DEF Macro
      <3>2. /\ line("call_ref_eax") \in Line /\ line("push_eax") \in Line
            /\ with_imm("add_esp_imm", 4 * Len(node.arguments)) \in Line
        BY <3>1, LineType
      <3> QED
        BY <3>2
    <2> HIDE DEF out
    <2>4. /\ Piece(visit_reversed(node.arguments, self), {}, compilers)
          /\ Piece(address_of(node.name, self), {}, compilers)
          /\ Piece(emit(out), {}, compilers)
      BY <1>2, <2>1, <2>2, <2>3, ReversedPiece, AddressPiece, EmitPiece
    <2>5. Piece(visit_reversed(node.arguments, self)
                  \o address_of(node.name, self) \o emit(out), {}, compilers)
      BY <2>4, QuietPiece
    <2> QED
      BY <1>2, <1>3, <1>6, <2>5, PerformCovered DEF VisitCall, Perform, out
  <1> QED
    BY <1>4, <1>5, <1>6

(* Statements that leave the objects alone.                                *)
LEMMA SimpleStatementCovered ==
    ASSUME IInv, Covered, \/ VisitExpressionStatement \/ VisitLet \/ VisitReturn
                          \/ VisitBreak \/ VisitContinue
    PROVE  Covered'
  <1>1. Visiting(StmtKind)
    BY DEF VisitExpressionStatement, VisitLet, VisitReturn, VisitBreak, VisitContinue,
           Visiting, StmtKind
  <1>2. /\ work # <<>> /\ self \in Nat \ {0} /\ this \in CompilerObject
        /\ ~IsSymbol(task) /\ Obeys(node, ScopeOf(this)) /\ node \in Node
    BY <1>1, HeadStatement DEF Node
  <1>3. this = compilers[self] /\ (node.kind # "Var" => ~IsVisit(task, {"Var"}))
    BY DEF this, IsVisit, node
  <1>4. \A names : Sees(names, ScopeOf(this)) => names \subseteq Known(compilers[self])
    BY <1>2, <1>3, ScopeOfObject
  <1>5. /\ jump_to(this.return_label) \in Seq(Line)
        /\ jump_to(this.break_label) \in Seq(Line)
        /\ jump_to(this.continue_label) \in Seq(Line)
    BY <1>2, JumpType DEF CompilerObject
  <1>6. CASE VisitExpressionStatement
    <2>1. node.kind = "ExpressionStatement" /\ node.expression \in Expr
      BY <1>2, <1>6, NodeFields DEF VisitExpressionStatement, Visiting
    <2>2. names_in[node.expression] \subseteq Known(compilers[self])
      BY <1>2, <1>4, <2>1 DEF Obeys
    <2>3. /\ Piece(visit(node.expression, self), {}, compilers)
          /\ Piece(emit(lines(<<"pop_eax">>)), {}, compilers)
      BY <1>2, <2>1, <2>2, VisitPiece, PiecesType, EmitPiece
    <2> QED
      BY <1>2, <1>3, <1>6, <2>1, <2>3, QuietPiece, PerformCovered
         DEF VisitExpressionStatement, Perform
  <1>7. CASE VisitLet
    <2>1. node.kind = "Let" /\ node.name \in Name /\ node.expression \in Expr
      BY <1>2, <1>7, NodeFields DEF VisitLet, Visiting
    <2>2. /\ names_in[node.expression] \subseteq Known(compilers[self])
          /\ {node.name} \subseteq Known(compilers[self])
      BY <1>2, <1>4, <2>1 DEF Obeys
    <2>3. Piece(assign(node.expression, self, node.name, self), {}, compilers)
      BY <1>2, <2>1, <2>2, AssignPiece2
    <2> QED
      BY <1>2, <1>3, <1>7, <2>1, <2>3, PerformCovered DEF VisitLet, Perform
  <1>8. CASE VisitReturn
    <2>1. node.kind = "Return" /\ node.expression \in Expr
      BY <1>2, <1>8, NodeFields DEF VisitReturn, Visiting
    <2>2. names_in[node.expression] \subseteq Known(compilers[self])
      BY <1>2, <1>4, <2>1 DEF Obeys
    <2>3. Piece(visit(node.expression, self) \o emit(jump_to(this.return_label)), {}, compilers)
      BY <1>2, <1>5, <2>1, <2>2, VisitPiece, EmitPiece, QuietPiece
    <2> QED
      BY <1>2, <1>3, <1>8, <2>1, <2>3, PerformCovered DEF VisitReturn, Perform
  <1>9. CASE VisitBreak
    <2>1. node.kind = "Break"
      BY <1>9 DEF VisitBreak, Visiting
    <2> QED
      BY <1>2, <1>3, <1>5, <1>9, <2>1, EmitPiece, PerformCovered DEF VisitBreak, Perform
  <1>10. CASE VisitContinue
    <2>1. node.kind = "Continue"
      BY <1>10 DEF VisitContinue, Visiting
    <2> QED
      BY <1>2, <1>3, <1>5, <1>10, <2>1, EmitPiece, PerformCovered DEF VisitContinue, Perform
  <1> QED
    BY <1>6, <1>7, <1>8, <1>9, <1>10

-----------------------------------------------------------------------------
(* Handlers that make or change objects.                                   *)
LEMMA VarCovered ==
    ASSUME IInv, Covered, VisitVar
    PROVE  Covered'
  <1> DEFINE name == node.name
             offset == next_local_offset(this.localvars)
             map == Bind(this.localvars, name, offset)
             object == [this EXCEPT !.localvars = map]
             cs == [compilers EXCEPT ![self] = object]
             push == emit(<<with_imm("push_imm", 0)>>)
             store == assign(node.expression, self, name, self)
             tasks == push \o store
  <1>1. Visiting(StmtKind) /\ node.kind = "Var"
    BY DEF VisitVar, Visiting, StmtKind
  <1>2. /\ work # <<>> /\ self \in Nat \ {0} /\ self \in DOMAIN compilers
        /\ this \in CompilerObject /\ this = compilers[self]
        /\ ~IsSymbol(task) /\ task.task = "visit"
        /\ Obeys(node, ScopeOf(this)) /\ node \in Node
    BY <1>1, HeadStatement DEF Node, this
  <1>3. name \in Name /\ node.expression \in Expr
    BY <1>1, <1>2, NodeFields
  <1>4. Frame(this.localvars)
    BY <1>2 DEF IInv
  <1>5. map \in PartialMap(Int) /\ DOMAIN map = DOMAIN this.localvars \cup {name}
    <2> DEFINE S == Int
    <2>1. offset \in S /\ this.localvars \in PartialMap(S)
      BY <1>4, NextOffset DEF Frame
    <2> DEFINE old == this.localvars
    <2>2. offset \in S /\ old \in PartialMap(S) /\ map = Bind(old, name, offset)
      BY <2>1
    <2> HIDE DEF offset, name, S, old, map
    <2>3. Bind(old, name, offset) \in PartialMap(S)
      BY <1>3, <2>2, BindMap
    <2>4. DOMAIN Bind(old, name, offset) = DOMAIN old \cup {name}
      BY <1>3, <2>2, BindMap
    <2> QED
      BY <2>2, <2>3, <2>4 DEF S, old
  <1>6. Expand(tasks, cs, 0)
    BY DEF VisitVar, this
  <1> HIDE DEF map, name, offset
  <1>7. /\ object.globalvars = this.globalvars /\ object.localvars = map
        /\ object.break_label = this.break_label
    BY <1>2 DEF CompilerObject
  <1> HIDE DEF object
  <1>8. /\ cs[self] = object
        /\ \A d \in DOMAIN compilers \ {self} : cs[d] = compilers[d]
    BY <1>2
  <1> HIDE DEF cs
  <1>9. Names({task}, self) = {name} /\ \A d : d # self => Names({task}, d) = {}
    BY <1>1, <1>2 DEF Names, IsVisit, self, node, name
  <1>10. ScopeOf(object) = With({name}, ScopeOf(this))
    BY <1>5, <1>7 DEF ScopeOf, With
  <1>11. \A d \in DOMAIN compilers :
            ScopeOf(cs[d]) = With(Names({task}, d), ScopeOf(compilers[d]))
    <2> TAKE d \in DOMAIN compilers
    <2>1. CASE d = self
      BY <1>2, <1>8, <1>9, <1>10, <2>1
    <2>2. CASE d # self
      <3>1. ScopeOf(compilers[d]) \in Scope
        BY ScopeOfObject DEF IInv
      <3>2. With({}, ScopeOf(compilers[d])) = ScopeOf(compilers[d])
        BY <3>1, WithMore
      <3> QED
        BY <1>8, <1>9, <2>2, <3>2
    <2> QED
      BY <2>1, <2>2
  <1>12. /\ names_in[node.expression] \subseteq Known(cs[self])
         /\ name \in Known(cs[self])
    <2>1. names_in[node.expression] \subseteq Known(this)
      BY <1>1, <1>2, ScopeOfObject DEF Obeys
    <2> QED
      BY <1>5, <1>7, <1>8, <2>1 DEF Known
  <1>13. Piece(push, {}, cs)
    <2>1. "push_imm" \in Macro
      BY DEF Macro
    <2>2. with_imm("push_imm", 0) \in Line
      BY <2>1, LineType
    <2>3. <<with_imm("push_imm", 0)>> \in Seq(Line)
      BY <2>2
    <2> QED
      BY <2>3, EmitPiece
  <1>14. Piece(store, {}, cs)
    BY <1>2, <1>3, <1>12, AssignPiece2
  <1>15. Piece(tasks, {}, cs)
    <2> HIDE DEF push, store
    <2> QED
      BY <1>13, <1>14, QuietPiece
  <1> HIDE DEF tasks
  <1> DEFINE C == {}
  <1>16. Piece(tasks, C, cs) /\ C \cap DOMAIN compilers = {}
    BY <1>15
  <1> HIDE DEF C
  <1> QED
    BY <1>2, <1>6, <1>11, <1>16, StatementCovered

LEMMA IfCovered ==
    ASSUME IInv, Covered, VisitIf
    PROVE  Covered'
  <1> DEFINE n == Len(compilers)
             scope == ScopeOf(this)
             cs == compilers \o <<this, this>>
             b == n + 1
             d == n + 2
             out == jump_to(label(2)) \o <<define(label(1))>>
             p1 == visit(node.condition, self)
             p2 == emit(branch_if_zero(label(1)))
             p3 == visit_all(node.then_statements, b)
             p4 == emit(out)
             p5 == visit_all(node.else_statements, d)
             p6 == emit(<<define(label(2))>>)
             tasks == p1 \o p2 \o p3 \o p4 \o p5 \o p6
  <1>1. Visiting(StmtKind) /\ node.kind = "If"
    BY DEF VisitIf, Visiting, StmtKind
  <1>2. /\ work # <<>> /\ self \in Nat \ {0} /\ self \in DOMAIN compilers
        /\ this \in CompilerObject /\ this = compilers[self]
        /\ ~IsSymbol(task) /\ task.task = "visit"
        /\ Obeys(node, scope) /\ node \in Node
        /\ \A x \in Blocks(node, scope) : BlockIn(x[1], x[2], WellScoped)
    BY <1>1, HeadStatement DEF Node, this
  <1>3. /\ node.condition \in Expr /\ node.then_statements \in Seq(Stmt)
        /\ node.else_statements \in Seq(Stmt)
    BY <1>1, <1>2, NodeFields
  <1>4. /\ BlockIn(node.then_statements, scope, WellScoped)
        /\ BlockIn(node.else_statements, scope, WellScoped)
    <2>1. /\ <<node.then_statements, scope>> \in Blocks(node, scope)
          /\ <<node.else_statements, scope>> \in Blocks(node, scope)
      BY <1>1 DEF Blocks
    <2> HIDE DEF scope
    <2> QED
      BY <1>2, <2>1
  <1>5. names_in[node.condition] \subseteq Known(this)
    BY <1>1, <1>2, ScopeOfObject DEF Obeys
  <1>6. Expand(tasks, cs, 2)
    <2>1. inner = b /\ inner + 1 = d
      <3>1. n \in Nat
        BY Self, <1>2
      <3> QED
        BY <3>1 DEF inner
    <2> QED
      BY <2>1 DEF VisitIf
  <1>7. /\ n \in Nat /\ DOMAIN compilers = 1 .. n
        /\ \A c \in 1 .. n : cs[c] = compilers[c]
        /\ cs[b] = this /\ cs[d] = this /\ cs[self] = this
    <2>1. /\ compilers \in Seq(CompilerObject) /\ this \in CompilerObject
          /\ n \in Nat /\ DOMAIN compilers = 1 .. n
      BY <1>2 DEF IInv
    <2> QED
      BY <1>2, <2>1
  <1>8. b \in Nat \ {0} /\ d \in Nat \ {0} /\ b \notin 1 .. n /\ d \notin 1 .. n /\ b # d
    BY <1>7
  <1>9. label(1) \in Nat /\ label(2) \in Nat
    BY DEF label, IInv
  <1>10. /\ branch_if_zero(label(1)) \in Seq(Line) /\ out \in Seq(Line)
         /\ <<define(label(2))>> \in Seq(Line)
    <2>1. jump_to(label(2)) \in Seq(Line) /\ branch_if_zero(label(1)) \in Seq(Line)
      BY <1>9, JumpType
    <2>2. define(label(1)) \in Line /\ define(label(2)) \in Line
      BY <1>9, LineType
    <2> QED
      BY <2>1, <2>2
  <1> HIDE DEF cs, b, d, out, scope
  <1>11. Piece(p2, {}, cs) /\ Piece(p4, {}, cs) /\ Piece(p6, {}, cs)
    BY <1>10, EmitPiece
  <1>12. Piece(p1, {}, cs)
    BY <1>2, <1>3, <1>5, <1>7, VisitPiece
  <1>13. Piece(p3, {b}, cs) /\ Piece(p5, {d}, cs)
    BY <1>3, <1>4, <1>7, <1>8, BlockPiece DEF scope
  <1> DEFINE B == {b}
             D == {d}
             C == B \cup D
  <1>14. B \cap D = {} /\ C \cap DOMAIN compilers = {}
    BY <1>7, <1>8
  <1>15. Piece(p3, B, cs) /\ Piece(p5, D, cs)
    BY <1>13
  <1> HIDE DEF p1, p2, p3, p4, p5, p6, B, D
  <1>16. Piece(p1 \o p2 \o p3 \o p4, B, cs)
    BY <1>11, <1>12, <1>15, QuietPiece
  <1>17. Piece(p1 \o p2 \o p3 \o p4 \o p5, C, cs)
    BY <1>14, <1>15, <1>16, PieceConcat
  <1> HIDE DEF C
  <1>18. Piece(tasks, C, cs)
    BY <1>11, <1>17, QuietPiece
  <1> HIDE DEF tasks
  <1>19. ~IsVisit(task, {"Var"})
    BY <1>1 DEF IsVisit, node
  <1> QED
    BY <1>2, <1>6, <1>7, <1>14, <1>18, <1>19, ObjectsKept

(* One object more at the end.                                             *)
LEMMA AppendedObject ==
    ASSUME IInv, NEW object \in CompilerObject, NEW cs, cs = Append(compilers, object)
    PROVE  /\ inner \in Nat \ {0} /\ inner \notin DOMAIN compilers
           /\ cs[inner] = object /\ \A c \in DOMAIN compilers : cs[c] = compilers[c]
  <1>1. compilers \in Seq(CompilerObject)
    BY DEF IInv
  <1> QED
    BY <1>1 DEF inner

(* The object of a loop's body.                                            *)
LEMMA LoopScope ==
    ASSUME NEW o \in CompilerObject, NEW p \in CompilerObject, NEW names \in SUBSET Name,
           o.globalvars = p.globalvars, o.break_label # 0,
           DOMAIN o.localvars = DOMAIN p.localvars \cup names
    PROVE  ScopeOf(o) = With(names, Inside(ScopeOf(p)))
  <1> DEFINE v == ScopeOf(o)
             w == ScopeOf(p)
             x == With(names, Inside(w))
  <1>1. /\ v \in Scope /\ v.globals = DOMAIN o.globalvars /\ v.locals = DOMAIN o.localvars
        /\ v.inside_loop = TRUE
    <2>1. v \in Scope /\ (v.inside_loop <=> o.break_label # 0)
      BY ScopeOfObject
    <2> QED
      BY <2>1, ScopeOfObject DEF Scope
  <1>2. w \in Scope /\ w.globals = DOMAIN p.globalvars /\ w.locals = DOMAIN p.localvars
    BY ScopeOfObject
  <1> HIDE DEF v, w
  <1>3. Inside(w) \in Scope /\ Inside(w).globals = w.globals /\ Inside(w).locals = w.locals
        /\ Inside(w).inside_loop = TRUE
    BY <1>2 DEF Inside, Scope
  <1>4. /\ x \in Scope /\ x.globals = w.globals /\ x.locals = w.locals \cup names
        /\ x.inside_loop = TRUE
    BY <1>3 DEF With, Scope
  <1> HIDE DEF x
  <1>5. v = x
    BY <1>1, <1>2, <1>4 DEF Scope
  <1> QED
    BY <1>5 DEF v, w, x

LEMMA WhileCovered ==
    ASSUME IInv, Covered, VisitWhile
    PROVE  Covered'
  <1> DEFINE n == Len(compilers)
             object == with_break_continue_label(label(2), label(1))
             cs == Append(compilers, object)
             scope == ScopeOf(this)
             out == jump_to(label(1)) \o <<define(label(2))>>
             p1 == emit(<<define(label(1))>>)
             p2 == visit(node.condition, self)
             p3 == emit(branch_if_zero(label(2)))
             p4 == visit_all(node.statements, inner)
             p5 == emit(out)
             tasks == p1 \o p2 \o p3 \o p4 \o p5
  <1>1. Visiting(StmtKind) /\ node.kind = "While"
    BY DEF VisitWhile, Visiting, StmtKind
  <1>2. /\ work # <<>> /\ self \in Nat \ {0} /\ self \in DOMAIN compilers
        /\ this \in CompilerObject /\ this = compilers[self]
        /\ ~IsSymbol(task) /\ task.task = "visit"
        /\ Obeys(node, scope) /\ node \in Node
        /\ \A x \in Blocks(node, scope) : BlockIn(x[1], x[2], WellScoped)
    BY <1>1, HeadStatement DEF Node, this
  <1>3. node.condition \in Expr /\ node.statements \in Seq(Stmt)
    BY <1>1, <1>2, NodeFields
  <1>4. BlockIn(node.statements, Inside(scope), WellScoped)
    <2>1. <<node.statements, Inside(scope)>> \in Blocks(node, scope)
      BY <1>1 DEF Blocks
    <2> HIDE DEF scope
    <2> QED
      BY <1>2, <2>1
  <1>5. names_in[node.condition] \subseteq Known(this)
    BY <1>1, <1>2, ScopeOfObject DEF Obeys
  <1>6. Expand(tasks, cs, 2)
    BY DEF VisitWhile
  <1>7. label(1) \in Nat /\ label(2) \in Nat /\ label(2) # 0
    BY DEF label, IInv
  <1>8. /\ object \in CompilerObject /\ object.globalvars = this.globalvars
        /\ object.localvars = this.localvars /\ object.break_label = label(2)
    BY <1>2, <1>7, LoopObject DEF CompilerObject, with_break_continue_label
  <1>9. ScopeOf(object) = Inside(scope)
    <2> DEFINE none == {}
    <2>1. /\ DOMAIN object.localvars = DOMAIN this.localvars \cup none
          /\ object.break_label # 0 /\ none \in SUBSET Name
      BY <1>7, <1>8
    <2>2. With(none, Inside(scope)) = Inside(scope)
      <3>1. scope \in Scope
        BY <1>2, ScopeOfObject
      <3>2. Inside(scope) \in Scope
        BY <3>1 DEF Inside, Scope
      <3> QED
        BY <3>2, WithMore
    <2> HIDE DEF none, object
    <2> QED
      BY <1>2, <1>8, <2>1, <2>2, LoopScope
  <1>10. /\ branch_if_zero(label(2)) \in Seq(Line) /\ out \in Seq(Line)
         /\ <<define(label(1))>> \in Seq(Line)
    <2>1. jump_to(label(1)) \in Seq(Line) /\ branch_if_zero(label(2)) \in Seq(Line)
      BY <1>7, JumpType
    <2>2. define(label(1)) \in Line /\ define(label(2)) \in Line
      BY <1>7, LineType
    <2> QED
      BY <2>1, <2>2
  <1> HIDE DEF object, scope, out
  <1>11. /\ inner \in Nat \ {0} /\ inner \notin DOMAIN compilers
         /\ cs[inner] = object /\ \A c \in DOMAIN compilers : cs[c] = compilers[c]
    BY <1>8, AppendedObject
  <1> HIDE DEF cs
  <1>12. Piece(p1, {}, cs) /\ Piece(p3, {}, cs) /\ Piece(p5, {}, cs)
    BY <1>10, EmitPiece
  <1>13. Piece(p2, {}, cs)
    BY <1>2, <1>3, <1>5, <1>11, VisitPiece
  <1>14. Piece(p4, {inner}, cs)
    BY <1>3, <1>4, <1>9, <1>11, BlockPiece
  <1> DEFINE C == {inner}
  <1>15. C \cap DOMAIN compilers = {} /\ Piece(p4, C, cs)
    BY <1>11, <1>14
  <1> HIDE DEF C, p1, p2, p3, p4, p5
  <1>16. Piece(tasks, C, cs)
    BY <1>12, <1>13, <1>15, QuietPiece
  <1> HIDE DEF tasks
  <1>17. ~IsVisit(task, {"Var"})
    BY <1>1 DEF IsVisit, node
  <1> QED
    BY <1>2, <1>6, <1>11, <1>15, <1>16, <1>17, ObjectsKept

(* The object of the body is made before the initial value is computed, by *)
(* the object around the loop.                                             *)
LEMMA ForCovered ==
    ASSUME IInv, Covered, VisitFor
    PROVE  Covered'
  <1> DEFINE n == Len(compilers)
             body == with_break_continue_label(label(3), label(2))
             offset == next_local_offset(this.localvars)
             map == Bind(this.localvars, node.name, offset)
             object == [body EXCEPT !.localvars = map]
             cs == Append(compilers, object)
             scope == ScopeOf(this)
             out == jump_to(label(1)) \o <<define(label(3)), line("pop_eax")>>
             p1 == emit(<<with_imm("push_imm", 0)>>)
             p2 == assign(node.initial, self, node.name, inner)
             p3 == emit(<<define(label(1))>>)
             p4 == visit(node.condition, inner)
             p5 == emit(branch_if_zero(label(3)))
             p6 == visit_all(node.statements, inner)
             p7 == emit(<<define(label(2))>>)
             p8 == assign(node.update, inner, node.name, inner)
             p9 == emit(out)
             tasks == p1 \o p2 \o p3 \o p4 \o p5 \o p6 \o p7 \o p8 \o p9
  <1>1. Visiting(StmtKind) /\ node.kind = "For"
    BY DEF VisitFor, Visiting, StmtKind
  <1>2. /\ work # <<>> /\ self \in Nat \ {0} /\ self \in DOMAIN compilers
        /\ this \in CompilerObject /\ this = compilers[self]
        /\ ~IsSymbol(task) /\ task.task = "visit"
        /\ Obeys(node, scope) /\ node \in Node
        /\ \A x \in Blocks(node, scope) : BlockIn(x[1], x[2], WellScoped)
    BY <1>1, HeadStatement DEF Node, this
  <1>3. /\ node.name \in Name /\ node.initial \in Expr /\ node.condition \in Expr
        /\ node.update \in Expr /\ node.statements \in Seq(Stmt)
    BY <1>1, <1>2, NodeFields
  <1>4. BlockIn(node.statements, With({node.name}, Inside(scope)), WellScoped)
    <2>1. <<node.statements, With({node.name}, Inside(scope))>> \in Blocks(node, scope)
      BY <1>1 DEF Blocks
    <2> HIDE DEF scope
    <2> QED
      BY <1>2, <2>1
  <1>5. /\ names_in[node.initial] \subseteq Known(this)
        /\ names_in[node.condition] \cup names_in[node.update]
              \subseteq Known(this) \cup {node.name}
    <2>1. /\ Sees(names_in[node.initial], scope)
          /\ Sees(names_in[node.condition] \cup names_in[node.update],
                  With({node.name}, scope))
      BY <1>1, <1>2 DEF Obeys
    <2>2. scope \in Scope /\ Known(this) = scope.globals \cup scope.locals
      BY <1>2, ScopeOfObject
    <2> HIDE DEF scope
    <2> QED
      BY <2>1, <2>2 DEF Sees, With, Scope
  <1>6. label(1) \in Nat /\ label(2) \in Nat /\ label(3) \in Nat /\ label(3) # 0
    BY DEF label, IInv
  <1>7. /\ body \in CompilerObject /\ body.globalvars = this.globalvars
        /\ body.localvars = this.localvars /\ body.break_label = label(3)
    BY <1>2, <1>6, LoopObject DEF CompilerObject, with_break_continue_label
  <1>8. Expand(tasks, cs, 3)
    <2>1. object = [body EXCEPT !.localvars = Bind(@, node.name, offset)]
      BY <1>7
    <2> QED
      BY <2>1 DEF VisitFor
  <1>9. map \in PartialMap(Int) /\ DOMAIN map = DOMAIN this.localvars \cup {node.name}
    <2> DEFINE S == Int
               old == this.localvars
               x == node.name
    <2>1. Frame(this.localvars)
      BY <1>2 DEF IInv
    <2>2. /\ offset \in S /\ old \in PartialMap(S) /\ x \in Name
          /\ map = Bind(old, x, offset)
      BY <1>3, <2>1, NextOffset DEF Frame
    <2> HIDE DEF offset, S, old, map, x
    <2>3. Bind(old, x, offset) \in PartialMap(S)
      BY <2>2, BindMap
    <2>4. DOMAIN Bind(old, x, offset) = DOMAIN old \cup {x}
      BY DEF Bind
    <2> QED
      BY <2>2, <2>3, <2>4 DEF S, old, x
  <1> HIDE DEF body, map, offset
  <1>10. /\ object \in CompilerObject /\ object.globalvars = this.globalvars
         /\ object.localvars = map /\ object.break_label = label(3)
    BY <1>7, <1>9 DEF CompilerObject
  <1> HIDE DEF object
  <1>11. ScopeOf(object) = With({node.name}, Inside(scope))
    <2> DEFINE names == {node.name}
    <2>1. /\ DOMAIN object.localvars = DOMAIN this.localvars \cup names
          /\ object.break_label # 0 /\ names \in SUBSET Name
      BY <1>3, <1>6, <1>9, <1>10
    <2> HIDE DEF names
    <2>2. ScopeOf(object) = With(names, Inside(scope))
      BY <1>2, <1>10, <2>1, LoopScope
    <2> QED
      BY <2>2 DEF names
  <1>12. Known(object) = Known(this) \cup {node.name}
    BY <1>9, <1>10 DEF Known
  <1>13. /\ branch_if_zero(label(3)) \in Seq(Line) /\ out \in Seq(Line)
         /\ <<define(label(1))>> \in Seq(Line) /\ <<define(label(2))>> \in Seq(Line)
         /\ <<with_imm("push_imm", 0)>> \in Seq(Line)
    <2>1. jump_to(label(1)) \in Seq(Line) /\ branch_if_zero(label(3)) \in Seq(Line)
      BY <1>6, JumpType
    <2>2. define(label(1)) \in Line /\ define(label(2)) \in Line /\ define(label(3)) \in Line
      BY <1>6, LineType
    <2>3. with_imm("push_imm", 0) \in Line /\ line("pop_eax") \in Line
      BY LineType DEF Macro
    <2> QED
      BY <2>1, <2>2, <2>3
  <1> HIDE DEF scope, out
  <1>14. /\ inner \in Nat \ {0} /\ inner \notin DOMAIN compilers
         /\ cs[inner] = object /\ \A c \in DOMAIN compilers : cs[c] = compilers[c]
    BY <1>10, AppendedObject
  <1> HIDE DEF cs
  <1>15. /\ Piece(p1, {}, cs) /\ Piece(p3, {}, cs) /\ Piece(p5, {}, cs)
         /\ Piece(p7, {}, cs) /\ Piece(p9, {}, cs)
    BY <1>13, EmitPiece
  <1>16. /\ names_in[node.initial] \subseteq Known(cs[self])
         /\ names_in[node.condition] \subseteq Known(cs[inner])
         /\ names_in[node.update] \subseteq Known(cs[inner])
         /\ node.name \in Known(cs[inner])
    BY <1>2, <1>5, <1>12, <1>14
  <1>17. Piece(p2, {}, cs)
    BY <1>2, <1>3, <1>14, <1>16, AssignPiece2
  <1>18. Piece(p8, {}, cs)
    BY <1>3, <1>14, <1>16, AssignPiece2
  <1>19. Piece(p4, {}, cs)
    BY <1>3, <1>14, <1>16, VisitPiece
  <1>20. Piece(p6, {inner}, cs)
    BY <1>3, <1>4, <1>11, <1>14, BlockPiece
  <1> DEFINE C == {inner}
  <1>21. C \cap DOMAIN compilers = {} /\ Piece(p6, C, cs)
    BY <1>14, <1>20
  <1> HIDE DEF C, p1, p2, p3, p4, p5, p6, p7, p8, p9
  <1>22. Piece(p1 \o p2 \o p3 \o p4 \o p5, {}, cs)
    BY <1>15, <1>17, <1>19, QuietPiece
  <1>23. Piece(p1 \o p2 \o p3 \o p4 \o p5 \o p6, C, cs)
    BY <1>21, <1>22, QuietPiece
  <1>24. Piece(tasks, C, cs)
    BY <1>15, <1>18, <1>23, QuietPiece
  <1> HIDE DEF tasks
  <1>25. ~IsVisit(task, {"Var"})
    BY <1>1 DEF IsVisit, node
  <1> QED
    BY <1>2, <1>8, <1>14, <1>21, <1>24, <1>25, ObjectsKept

LEMMA HeadSymbol ==
    ASSUME IInv, Covered, Visiting({"GlobalVar", "Function"})
    PROVE  /\ work # <<>> /\ IsSymbol(task) /\ task.task = "visit" /\ node \in Node
           /\ self = 1 /\ 1 \in DOMAIN compilers
           /\ this = compilers[1] /\ this \in CompilerObject
           /\ SymbolOK(node, DOMAIN this.globalvars)
  <1>1. work # <<>> /\ task.task = "visit" /\ IsSymbol(task)
    BY DEF Visiting, Running, IsSymbol, IsVisit, node
  <1>2. /\ node \in Node /\ this \in CompilerObject /\ this = compilers[self]
        /\ self \in DOMAIN compilers
    BY <1>1, Self DEF this
  <1>3. self = 1
    <2>1. 1 \in DOMAIN work /\ work[1] = task
      BY <1>1, Tails
    <2> QED
      BY <1>1, <2>1 DEF Covered, SymbolsLast, self
  <1>4. SymbolOK(node, DOMAIN compilers[1].globalvars \cup SymbolNames({}))
    BY <1>1, HeadTask DEF TaskOK, node
  <1>5. DOMAIN compilers[1].globalvars \cup SymbolNames({}) = DOMAIN compilers[1].globalvars
    BY DEF SymbolNames
  <1> QED
    BY <1>1, <1>2, <1>3, <1>4, <1>5

LEMMA GlobalVarCovered ==
    ASSUME IInv, Covered, VisitGlobalVar
    PROVE  Covered'
  <1> DEFINE name == node.name
             map == Bind(this.globalvars, name, label(1))
             object == [this EXCEPT !.globalvars = map]
             cs == [compilers EXCEPT ![self] = object]
             out1 == jump_to(label(2)) \o <<define(label(1)), zero_word, define(label(2))>>
             out2 == lines(<<"pop_ebx">>) \o store_label(label(1))
             p1 == emit(out1)
             p2 == visit(node.value, self)
             p3 == emit(out2)
             tasks == p1 \o p2 \o p3
  <1>1. Visiting({"GlobalVar", "Function"}) /\ node.kind = "GlobalVar"
    BY DEF VisitGlobalVar, Visiting
  <1>2. /\ work # <<>> /\ IsSymbol(task) /\ node \in Node /\ self = 1
        /\ 1 \in DOMAIN compilers /\ this = compilers[1] /\ this \in CompilerObject
    BY <1>1, HeadSymbol
  <1>3. name \in Name /\ node.value \in Expr /\ names_in[node.value] = {}
    <2>1. node \in GlobalVar
      BY <1>1, <1>2, Classes
    <2>2. node.value \in Expr /\ node.value.kind \in {"Numeral", "String"}
      BY <2>1 DEF GlobalVar, Constant
    <2> QED
      BY <1>1, <1>2, <2>2, NodeFields, NamesBelow
  <1>4. label(1) \in Nat /\ label(2) \in Nat
    BY DEF label, IInv
  <1>5. DOMAIN map = DOMAIN this.globalvars \cup {name}
    BY DEF Bind
  <1>6. Expand(tasks, cs, 2)
    BY DEF VisitGlobalVar, this
  <1> HIDE DEF map, name
  <1>7. object.globalvars = map /\ object.break_label = this.break_label
    BY <1>2 DEF CompilerObject
  <1> HIDE DEF object
  <1>8. cs[1] = object
    BY <1>2
  <1> HIDE DEF cs
  <1>9. /\ DOMAIN cs[1].globalvars = DOMAIN compilers[1].globalvars \cup {node.name}
        /\ cs[1].break_label = 0
    BY <1>2, <1>5, <1>7, <1>8 DEF Covered, name
  <1>10. out1 \in Seq(Line) /\ out2 \in Seq(Line)
    <2>1. jump_to(label(2)) \in Seq(Line) /\ store_label(label(1)) \in Seq(Line)
      BY <1>4, JumpType
    <2>2. define(label(1)) \in Line /\ define(label(2)) \in Line /\ zero_word \in Line
      BY <1>4, LineType
    <2> QED
      BY <2>1, <2>2, PiecesType
  <1> HIDE DEF out1, out2
  <1>11. Piece(p1, {}, cs) /\ Piece(p3, {}, cs)
    BY <1>10, EmitPiece
  <1>12. Piece(p2, {}, cs)
    <2>1. self \in Nat \ {0} /\ names_in[node.value] \subseteq Known(cs[self])
      BY <1>2, <1>3
    <2> QED
      BY <1>3, <2>1, VisitPiece
  <1> HIDE DEF p1, p2, p3
  <1>13. Piece(tasks, {}, cs)
    BY <1>11, <1>12, QuietPiece
  <1> HIDE DEF tasks
  <1> QED
    BY <1>2, <1>6, <1>9, <1>13, SymbolCovered

(* The body of a function sees the globals so far, the function itself and *)
(* its arguments, whatever the object had as locals before.                *)
LEMMA FunctionCovered ==
    ASSUME IInv, Covered, VisitFunction
    PROVE  Covered'
  <1> DEFINE n == Len(compilers)
             name == node.name
             arguments == {node.arguments[i] : i \in DOMAIN node.arguments}
             map == Bind(this.globalvars, name, label(1))
             offsets == argument_offsets(node.arguments)
             outer == [this EXCEPT !.globalvars = map, !.localvars = offsets]
             object == [outer EXCEPT !.return_label = label(4)]
             cs1 == [compilers EXCEPT ![self] = outer]
             cs == Append(cs1, object)
             globals == DOMAIN this.globalvars \cup {name}
             scope == [globals |-> globals, locals |-> arguments, inside_loop |-> FALSE]
             out1 == jump_to(label(2))
                       \o <<define(label(1)), zero_word, define(label(3))>>
                       \o lines(<<"push_ebp", "mov_ebp_esp">>)
             out2 == <<with_imm("push_imm", 0), define(label(4))>>
                       \o lines(<<"pop_eax", "mov_esp_ebp", "pop_ebp", "ret">>)
                       \o <<define(label(2)), with_label("mov_eax_imm", label(3)),
                            line("mov_ebx_eax")>>
                       \o store_label(label(1))
             p1 == emit(out1)
             p2 == visit_all(node.statements, inner)
             p3 == emit(out2)
             tasks == p1 \o p2 \o p3
  <1>1. Visiting({"GlobalVar", "Function"}) /\ node.kind = "Function"
    BY DEF VisitFunction, Visiting
  <1>2. /\ work # <<>> /\ IsSymbol(task) /\ node \in Node /\ self = 1
        /\ 1 \in DOMAIN compilers /\ this = compilers[1] /\ this \in CompilerObject
        /\ SymbolOK(node, DOMAIN this.globalvars)
    BY <1>1, HeadSymbol
  <1>3. /\ name \in Name /\ node.arguments \in Seq(Name) /\ node.statements \in Seq(Stmt)
    BY <1>1, <1>2, NodeFields
  <1>4. BlockIn(node.statements, scope, WellScoped)
    BY <1>1, <1>2 DEF SymbolOK
  <1>5. /\ label(1) \in Nat /\ label(2) \in Nat /\ label(3) \in Nat /\ label(4) \in Nat
    BY DEF label, IInv
  <1>6. map \in PartialMap(Nat) /\ DOMAIN map = globals
    <2> DEFINE old == this.globalvars
               l == label(1)
    <2>1. old \in PartialMap(Nat) /\ l \in Nat /\ map = Bind(old, name, l)
      BY <1>2, <1>5 DEF CompilerObject
    <2>2. DOMAIN map = globals
      BY DEF Bind
    <2> HIDE DEF map, name, old, l
    <2> QED
      BY <1>3, <2>1, <2>2, BindMap
  <1>7. offsets \in PartialMap(Int) /\ DOMAIN offsets = arguments
    <2>1. Frame(offsets)
      BY <1>3, ArgumentFrame
    <2> QED
      BY <2>1 DEF Frame, argument_offsets
  <1>8. Expand(tasks, cs, 4)
    <2>1. outer = [this EXCEPT !.globalvars = Bind(@, node.name, label(1)),
                               !.localvars = argument_offsets(node.arguments)]
      OBVIOUS
    <2> HIDE DEF outer
    <2> QED
      BY <2>1 DEF VisitFunction
  <1> HIDE DEF map, offsets, globals, arguments, name
  <1>9. /\ outer \in CompilerObject /\ outer.globalvars = map /\ outer.localvars = offsets
        /\ outer.break_label = 0
    BY <1>2, <1>6, <1>7 DEF CompilerObject, Covered
  <1> HIDE DEF outer
  <1>10. /\ object \in CompilerObject /\ object.globalvars = map
         /\ object.localvars = offsets /\ object.break_label = 0
    BY <1>5, <1>9 DEF CompilerObject
  <1> HIDE DEF object
  <1>11. ScopeOf(object) = scope
    <2>1. ScopeOf(object) \in Scope
      BY <1>10, ScopeOfObject
    <2>2. scope \in Scope /\ scope.inside_loop = FALSE
      <3>1. globals \in SUBSET Name
        BY <1>6 DEF PartialMap
      <3>2. arguments \in SUBSET Name
        BY <1>7 DEF PartialMap
      <3> QED
        BY <3>1, <3>2 DEF Scope
    <2>3. /\ ScopeOf(object).globals = globals /\ ScopeOf(object).locals = arguments
          /\ ~ScopeOf(object).inside_loop
      BY <1>6, <1>7, <1>10, ScopeOfObject
    <2> DEFINE v == ScopeOf(object)
    <2>4. /\ v \in Scope /\ v.globals = scope.globals /\ v.locals = scope.locals
          /\ v.inside_loop = scope.inside_loop
      <3>1. v.inside_loop = FALSE
        BY <2>1, <2>3 DEF Scope
      <3> QED
        BY <2>1, <2>2, <2>3, <3>1
    <2> HIDE DEF v, scope
    <2>5. v = scope
      BY <2>2, <2>4 DEF Scope
    <2> QED
      BY <2>5 DEF v
  <1> HIDE DEF scope
  <1>12. /\ inner \in Nat \ {0} /\ inner \notin DOMAIN compilers
         /\ cs[inner] = object /\ cs[1] = outer
    <2>1. compilers \in Seq(CompilerObject) /\ inner = n + 1
      BY DEF IInv, inner
    <2>2. /\ cs1 \in Seq(CompilerObject) /\ Len(cs1) = n /\ n \in Nat
          /\ DOMAIN compilers = 1 .. n /\ cs1[1] = outer
      BY <1>2, <1>9, <2>1
    <2> HIDE DEF cs1
    <2> QED
      BY <1>2, <1>10, <2>1, <2>2
  <1> HIDE DEF cs1, cs
  <1>13. /\ DOMAIN cs[1].globalvars = DOMAIN compilers[1].globalvars \cup {node.name}
         /\ cs[1].break_label = 0
    BY <1>2, <1>6, <1>9, <1>12 DEF globals, name
  <1>14. out1 \in Seq(Line) /\ out2 \in Seq(Line)
    <2>1. jump_to(label(2)) \in Seq(Line) /\ store_label(label(1)) \in Seq(Line)
      BY <1>5, JumpType
    <2>2. /\ define(label(1)) \in Line /\ define(label(2)) \in Line
          /\ define(label(3)) \in Line /\ define(label(4)) \in Line
          /\ zero_word \in Line
      BY <1>5, LineType
    <2>3. "push_imm" \in Macro /\ "mov_eax_imm" \in Macro /\ "mov_ebx_eax" \in Macro
      BY DEF Macro
    <2>4. /\ with_imm("push_imm", 0) \in Line /\ line("mov_ebx_eax") \in Line
          /\ with_label("mov_eax_imm", label(3)) \in Line
      BY <1>5, <2>3, LineType
    <2>5. /\ <<define(label(1)), zero_word, define(label(3))>> \in Seq(Line)
          /\ <<with_imm("push_imm", 0), define(label(4))>> \in Seq(Line)
          /\ <<define(label(2)), with_label("mov_eax_imm", label(3)),
               line("mov_ebx_eax")>> \in Seq(Line)
      BY <2>2, <2>4
    <2>6. /\ lines(<<"push_ebp", "mov_ebp_esp">>) \in Seq(Line)
          /\ lines(<<"pop_eax", "mov_esp_ebp", "pop_ebp", "ret">>) \in Seq(Line)
      BY PiecesType
    <2> QED
      BY <2>1, <2>5, <2>6
  <1> HIDE DEF out1, out2
  <1>15. Piece(p1, {}, cs) /\ Piece(p3, {}, cs)
    BY <1>14, EmitPiece
  <1>16. Piece(p2, {inner}, cs)
    BY <1>3, <1>4, <1>11, <1>12, BlockPiece
  <1> DEFINE C == {inner}
  <1>17. Piece(p2, C, cs)
    BY <1>16
  <1> HIDE DEF p1, p2, p3, C
  <1>18. Piece(tasks, C, cs)
    BY <1>15, <1>17, QuietPiece
  <1> HIDE DEF tasks
  <1> QED
    BY <1>2, <1>8, <1>13, <1>18, SymbolCovered

-----------------------------------------------------------------------------
LEMMA InitCovered ==
    ASSUME Init, WellScopedProgram(program)
    PROVE  Covered
  <1> DEFINE g == program.globalvars
             f == program.functions
             s == g \o f
             gs == visit_all(g, 1)
             fs == visit_all(f, 1)
             n == Len(g) + Len(f)
  <1>1. /\ g \in Seq(GlobalVar) /\ f \in Seq(Function)
        /\ work = gs \o fs /\ Symbols(program) = s
    BY AstAssumption DEF Init, Start, Symbols
  <1>2. DOMAIN compilers[1].globalvars = {} /\ compilers[1].break_label = 0
    BY DEF Init, Start, Nothing
  <1>3. g \in Seq(Node) /\ f \in Seq(Node)
    <2> HIDE DEF g, f
    <2> QED
      BY <1>1, NodeSequences
  <1>4. /\ \A i \in DOMAIN g : g[i].kind = "GlobalVar"
        /\ \A i \in DOMAIN f : f[i].kind = "Function"
    <2> HIDE DEF g, f
    <2>1. /\ \A i \in DOMAIN g : g[i] \in GlobalVar
          /\ \A i \in DOMAIN f : f[i] \in Function
      BY <1>1
    <2> QED
      BY <2>1, Kinds
  <1> HIDE DEF g, f
  <1>5. /\ gs \in Seq(Task) /\ Len(gs) = Len(g) /\ fs \in Seq(Task) /\ Len(fs) = Len(f)
        /\ Len(g) \in Nat /\ Len(f) \in Nat
    BY <1>3, GoodVisitAll DEF GoodTasks, visit_all
  <1>6. /\ \A i \in 1 .. Len(g) : gs[i] = [task |-> "visit", node |-> g[i], compiler |-> 1]
        /\ \A i \in 1 .. Len(f) : fs[i] = [task |-> "visit", node |-> f[i], compiler |-> 1]
    BY <1>5 DEF visit_all
  <1>7. /\ n \in Nat /\ DOMAIN s = 1 .. n
        /\ \A i \in 1 .. Len(g) : s[i] = g[i]
        /\ \A i \in 1 .. Len(f) : s[Len(g) + i] = f[i]
    BY <1>3
  <1> HIDE DEF gs, fs
  <1>8. /\ DOMAIN work = 1 .. n /\ Len(work) = n
        /\ \A i \in 1 .. Len(g) : work[i] = gs[i]
        /\ \A i \in 1 .. Len(f) : work[Len(g) + i] = fs[i]
    <2>1. /\ DOMAIN work = 1 .. Len(gs) + Len(fs) /\ Len(work) = Len(gs) + Len(fs)
          /\ \A i \in 1 .. Len(gs) : work[i] = gs[i]
          /\ \A i \in 1 .. Len(fs) : work[Len(gs) + i] = fs[i]
      <3>1. gs \in Seq(Task) /\ fs \in Seq(Task) /\ work = gs \o fs
        BY <1>1, <1>5
      <3> QED
        BY <3>1
    <2> QED
      BY <1>5, <2>1
  <1> HIDE DEF s, n
  <1>9. ASSUME NEW i \in 1 .. n
        PROVE  /\ work[i].task = "visit" /\ work[i].node = s[i] /\ work[i].compiler = 1
               /\ IsSymbol(work[i]) /\ s[i].kind \in {"GlobalVar", "Function"}
               /\ s[i] \in Node
    <2>1. CASE i \in 1 .. Len(g)
      <3>1. work[i] = [task |-> "visit", node |-> g[i], compiler |-> 1] /\ s[i] = g[i]
        BY <1>6, <1>7, <1>8, <2>1
      <3>2. g[i] \in Node /\ g[i].kind = "GlobalVar"
        BY <1>3, <1>4, <2>1
      <3> QED
        BY <3>1, <3>2 DEF IsSymbol, IsVisit
    <2>2. CASE i \notin 1 .. Len(g)
      <3> DEFINE j == i - Len(g)
      <3>1. j \in 1 .. Len(f) /\ i = Len(g) + j
        BY <1>5, <1>7, <2>2 DEF n
      <3> HIDE DEF j
      <3>2. work[i] = [task |-> "visit", node |-> f[j], compiler |-> 1] /\ s[i] = f[j]
        BY <1>6, <1>7, <1>8, <3>1
      <3>3. f[j] \in Node /\ f[j].kind = "Function"
        BY <1>3, <1>4, <3>1
      <3> QED
        BY <3>2, <3>3 DEF IsSymbol, IsVisit
    <2> QED
      BY <2>1, <2>2
  <1>10. ASSUME NEW i \in 1 .. n
         PROVE  SymbolNames(First(work, i - 1)) = {s[j].name : j \in 1 .. i - 1}
    <2>1. \A j \in 1 .. i - 1 : j \in 1 .. n
      BY <1>7
    <2>2. \A j \in 1 .. i - 1 : IsSymbol(work[j]) /\ work[j].node.name = s[j].name
      BY <1>9, <2>1
    <2> QED
      BY <2>2 DEF SymbolNames, First
  <1>11. ASSUME NEW i \in 1 .. n
         PROVE  TaskOK(work[i], First(work, i - 1), compilers)
    <2> DEFINE names == {s[j].name : j \in 1 .. i - 1}
    <2>1. SymbolOK(s[i], names)
      BY <1>1, <1>7 DEF WellScopedProgram
    <2>2. s[i] \notin Expr /\ s[i] \notin Stmt
      BY <1>9, Classes
    <2>3. DOMAIN compilers[1].globalvars \cup SymbolNames(First(work, i - 1)) = names
      BY <1>2, <1>10
    <2> HIDE DEF names
    <2> QED
      BY <1>9, <2>1, <2>2, <2>3 DEF TaskOK
  <1>12. SymbolsLast
    <2> SUFFICES ASSUME NEW i \in 1 .. n
                 PROVE  /\ work[i].compiler = 1
                        /\ \A j \in i .. n : IsSymbol(work[j])
      BY <1>8 DEF SymbolsLast
    <2>1. \A j \in i .. n : j \in 1 .. n
      BY <1>7
    <2> QED
      BY <1>9, <2>1
  <1> QED
    BY <1>2, <1>8, <1>11, <1>12 DEF Covered, Pending

(* Every step keeps the tasks covered, and none ends in std::terminate.    *)
LEMMA NextCovered ==
    ASSUME IInv, Covered, outcome # "terminate", [Next]_vars
    PROVE  Covered' /\ outcome' # "terminate"
  <1>1. CASE UNCHANGED vars
    BY <1>1 DEF vars, Covered, Pending, SymbolsLast
  <1>2. CASE Emit \/ AddressOf
    BY <1>2, WriteCovered
  <1>3. CASE VisitProgramEnd
    BY <1>3 DEF VisitProgramEnd, Covered, Pending, SymbolsLast
  <1>4. CASE \/ VisitAddressOf \/ VisitVariable \/ VisitNumeral \/ VisitString
             \/ VisitBinOp \/ VisitUnOp \/ VisitCall
    <2>1. Covered'
      BY <1>4, SimpleExpressionCovered, OperationCovered
    <2>2. outcome' = outcome
      BY <1>4 DEF VisitAddressOf, VisitVariable, VisitNumeral, VisitString, VisitBinOp,
                  VisitUnOp, VisitCall, Perform, Expand
    <2> QED
      BY <2>1, <2>2
  <1>5. CASE \/ VisitExpressionStatement \/ VisitLet \/ VisitReturn \/ VisitBreak
             \/ VisitContinue
    <2>1. Covered'
      BY <1>5, SimpleStatementCovered
    <2>2. outcome' = outcome
      BY <1>5 DEF VisitExpressionStatement, VisitLet, VisitReturn, VisitBreak, VisitContinue,
                  Perform, Expand
    <2> QED
      BY <2>1, <2>2
  <1>6. CASE VisitVar \/ VisitIf \/ VisitWhile \/ VisitFor \/ VisitGlobalVar \/ VisitFunction
    <2>1. Covered'
      BY <1>6, VarCovered, IfCovered, WhileCovered, ForCovered, GlobalVarCovered,
         FunctionCovered
    <2>2. outcome' = outcome
      BY <1>6 DEF VisitVar, VisitIf, VisitWhile, VisitFor, VisitGlobalVar, VisitFunction,
                  Expand
    <2> QED
      BY <2>1, <2>2
  <1> QED
    BY <1>1, <1>2, <1>3, <1>4, <1>5, <1>6 DEF Next

(* A program that obeys the scoping rules is compiled without std::map::at *)
(* throwing in address_of, a noexcept function: in whatever order the      *)
(* visitor copies its objects and binds names, every name is bound before  *)
(* it is looked up.                                                        *)
THEOREM FindsEveryName ==
    Spec /\ WellScopedProgram(program) => [](outcome # "terminate")
  <1> DEFINE Inv == IInv /\ Covered /\ outcome # "terminate"
  <1>1. Init /\ WellScopedProgram(program) => Inv
    <2>1. Init => outcome # "terminate"
      BY DEF Init, Start
    <2> QED
      BY <2>1, InitIInv, InitCovered
  <1>2. Inv /\ [Next]_vars => Inv'
    BY NextPreserves, NextCovered
  <1> HIDE DEF Inv
  <1>3. Inv => outcome # "terminate"
    BY DEF Inv
  <1> QED
    BY <1>1, <1>2, <1>3, PTL DEF Spec
-----------------------------------------------------------------------------
(* Every label that is referred to is defined.  A line may refer to the    *)
(* labels that the lines written so far define or that tasks still to run  *)
(* promise to define, and an object may hold no others.                    *)
Promises(tasks) == UNION {defined_by(tasks[k]) : k \in DOMAIN tasks}

Labels == defined_in(code) \cup Promises(work)

(* Lines that refer to no label, or to one of P.                           *)
LinkedLines(P) ==
    {l \in Line : \/ l.op \notin {"mov_eax_imm", "push_imm"}
                  \/ l.op = "push_imm" /\ l.label = 0
                  \/ l = with_imm("mov_eax_imm", 1)
                  \/ l.label \in P}

(* The object of the globals has no label to return to, and no statement   *)
(* is visited with it.                                                     *)
LinkedTasks(P) ==
    {t \in Task : /\ t.task = "emit" => t.out \in Seq(LinkedLines(P))
                  /\ t.task = "visit" /\ t.node \in Stmt => t.compiler # 1}

LinkedObject(c, object, P) ==
    /\ \A n \in DOMAIN object.globalvars : object.globalvars[n] \in P
    /\ object.break_label # 0 => {object.break_label, object.continue_label} \subseteq P
    /\ c # 1 => object.return_label \in P

MainComes ==
    "main" \in DOMAIN compilers[1].globalvars \cup SymbolNames(First(work, Len(work)))

Linked ==
    /\ code \in Seq(LinkedLines(Labels))
    /\ work \in Seq(LinkedTasks(Labels))
    /\ \A c \in DOMAIN compilers : LinkedObject(c, compilers[c], Labels)
    /\ MainComes
    /\ outcome = "done" => work = <<>>

(* Lines and tasks that refer to labels of P and define those of D.        *)
Links(out, D, P) == out \in Seq(LinkedLines(P)) /\ D \subseteq defined_in(out)

LinksAll(tasks, D, P) == tasks \in Seq(LinkedTasks(P)) /\ D \subseteq Promises(tasks)

LEMMA LinkedTypes ==
    ASSUME NEW P
    PROVE  /\ Seq(LinkedLines(P)) \subseteq Seq(Line)
           /\ Seq(LinkedTasks(P)) \subseteq Seq(Task)
  <1>1. LinkedLines(P) \subseteq Line /\ LinkedTasks(P) \subseteq Task
    BY DEF LinkedLines, LinkedTasks
  <1> QED
    BY <1>1, SeqMonotonic

(* More labels do no harm.                                                 *)
LEMMA LinkedMore ==
    ASSUME NEW P, NEW Q, P \subseteq Q
    PROVE  /\ Seq(LinkedLines(P)) \subseteq Seq(LinkedLines(Q))
           /\ Seq(LinkedTasks(P)) \subseteq Seq(LinkedTasks(Q))
           /\ \A c, object : LinkedObject(c, object, P) => LinkedObject(c, object, Q)
  <1>1. Seq(LinkedLines(P)) \subseteq Seq(LinkedLines(Q))
    <2>1. LinkedLines(P) \subseteq LinkedLines(Q)
      BY DEF LinkedLines
    <2> QED
      BY <2>1, SeqMonotonic
  <1>2. Seq(LinkedTasks(P)) \subseteq Seq(LinkedTasks(Q))
    <2>1. LinkedTasks(P) \subseteq LinkedTasks(Q)
      BY <1>1 DEF LinkedTasks
    <2> QED
      BY <2>1, SeqMonotonic
  <1>3. \A c, object : LinkedObject(c, object, P) => LinkedObject(c, object, Q)
    BY DEF LinkedObject
  <1> QED
    BY <1>1, <1>2, <1>3

LEMMA DefinedConcat ==
    ASSUME NEW a \in Seq(Line), NEW b \in Seq(Line)
    PROVE  defined_in(a \o b) = defined_in(a) \cup defined_in(b)
  <1> DEFINE c == a \o b
  <1>1. /\ Len(a) \in Nat /\ Len(b) \in Nat
        /\ DOMAIN a = 1 .. Len(a) /\ DOMAIN b = 1 .. Len(b)
        /\ DOMAIN c = 1 .. Len(a) + Len(b)
        /\ \A i \in 1 .. Len(a) : c[i] = a[i]
        /\ \A i \in 1 .. Len(b) : c[Len(a) + i] = b[i]
    OBVIOUS
  <1> HIDE DEF c
  <1>2. \A i \in DOMAIN c : \/ i \in DOMAIN a /\ c[i] = a[i]
                            \/ i - Len(a) \in DOMAIN b /\ c[i] = b[i - Len(a)]
    <2> SUFFICES ASSUME NEW i \in DOMAIN c, i \notin DOMAIN a
                 PROVE  i - Len(a) \in DOMAIN b /\ c[i] = b[i - Len(a)]
      BY <1>1
    <2>1. i - Len(a) \in 1 .. Len(b) /\ i = Len(a) + (i - Len(a))
      BY <1>1
    <2> QED
      BY <1>1, <2>1
  <1>3. /\ \A i \in DOMAIN a : i \in DOMAIN c /\ c[i] = a[i]
        /\ \A i \in DOMAIN b : Len(a) + i \in DOMAIN c /\ c[Len(a) + i] = b[i]
    BY <1>1
  <1>4. defined_in(c) \subseteq defined_in(a) \cup defined_in(b)
    BY <1>2 DEF defined_in
  <1>5. defined_in(a) \cup defined_in(b) \subseteq defined_in(c)
    BY <1>3 DEF defined_in
  <1> QED
    BY <1>4, <1>5 DEF c

LEMMA PromisesConcat ==
    ASSUME NEW a \in Seq(Task), NEW b \in Seq(Task)
    PROVE  Promises(a \o b) = Promises(a) \cup Promises(b)
  <1> DEFINE c == a \o b
  <1>1. /\ Len(a) \in Nat /\ Len(b) \in Nat
        /\ DOMAIN a = 1 .. Len(a) /\ DOMAIN b = 1 .. Len(b)
        /\ DOMAIN c = 1 .. Len(a) + Len(b)
        /\ \A i \in 1 .. Len(a) : c[i] = a[i]
        /\ \A i \in 1 .. Len(b) : c[Len(a) + i] = b[i]
    OBVIOUS
  <1> HIDE DEF c
  <1>2. \A i \in DOMAIN c : \/ i \in DOMAIN a /\ c[i] = a[i]
                            \/ i - Len(a) \in DOMAIN b /\ c[i] = b[i - Len(a)]
    <2> SUFFICES ASSUME NEW i \in DOMAIN c, i \notin DOMAIN a
                 PROVE  i - Len(a) \in DOMAIN b /\ c[i] = b[i - Len(a)]
      BY <1>1
    <2>1. i - Len(a) \in 1 .. Len(b) /\ i = Len(a) + (i - Len(a))
      BY <1>1
    <2> QED
      BY <1>1, <2>1
  <1>3. /\ \A i \in DOMAIN a : i \in DOMAIN c /\ c[i] = a[i]
        /\ \A i \in DOMAIN b : Len(a) + i \in DOMAIN c /\ c[Len(a) + i] = b[i]
    BY <1>1
  <1>4. Promises(c) \subseteq Promises(a) \cup Promises(b)
    BY <1>2 DEF Promises
  <1>5. Promises(a) \cup Promises(b) \subseteq Promises(c)
    BY <1>3 DEF Promises
  <1> QED
    BY <1>4, <1>5 DEF c

LEMMA LinksConcat ==
    ASSUME NEW a, NEW b, NEW D, NEW E, NEW P, Links(a, D, P), Links(b, E, P)
    PROVE  Links(a \o b, D \cup E, P)
  <1> DEFINE S == LinkedLines(P)
  <1>1. a \in Seq(S) /\ b \in Seq(S) /\ a \in Seq(Line) /\ b \in Seq(Line)
    BY LinkedTypes DEF Links
  <1> HIDE DEF S
  <1>2. a \o b \in Seq(S)
    BY <1>1
  <1>3. D \cup E \subseteq defined_in(a \o b)
    BY <1>1, DefinedConcat DEF Links
  <1> QED
    BY <1>2, <1>3 DEF Links, S

LEMMA LinksAllConcat ==
    ASSUME NEW a, NEW b, NEW D, NEW E, NEW P, LinksAll(a, D, P), LinksAll(b, E, P)
    PROVE  LinksAll(a \o b, D \cup E, P)
  <1> DEFINE S == LinkedTasks(P)
  <1>1. a \in Seq(S) /\ b \in Seq(S) /\ a \in Seq(Task) /\ b \in Seq(Task)
    BY LinkedTypes DEF LinksAll
  <1> HIDE DEF S
  <1>2. a \o b \in Seq(S)
    BY <1>1
  <1>3. D \cup E \subseteq Promises(a \o b)
    BY <1>1, PromisesConcat DEF LinksAll
  <1> QED
    BY <1>2, <1>3 DEF LinksAll, S

(* Around what defines labels there are lines and tasks that need not.     *)
LEMMA LinksAround ==
    ASSUME NEW a, NEW b, NEW D, NEW P, Links(a, {}, P), Links(b, D, P)
    PROVE  Links(a \o b, D, P) /\ Links(b \o a, D, P)
  <1> DEFINE E == {}
  <1>1. E \cup D = D /\ D \cup E = D /\ Links(a, E, P)
    OBVIOUS
  <1> HIDE DEF E
  <1> QED
    BY <1>1, LinksConcat

LEMMA LinksAllAround ==
    ASSUME NEW a, NEW b, NEW D, NEW P, LinksAll(a, {}, P), LinksAll(b, D, P)
    PROVE  LinksAll(a \o b, D, P) /\ LinksAll(b \o a, D, P)
  <1> DEFINE E == {}
  <1>1. E \cup D = D /\ D \cup E = D /\ LinksAll(a, E, P)
    OBVIOUS
  <1> HIDE DEF E
  <1> QED
    BY <1>1, LinksAllConcat

-----------------------------------------------------------------------------
(* What the handlers put together.                                         *)
LEMMA LinkedLine ==
    ASSUME NEW P
    PROVE  /\ Mute \subseteq LinkedLines(P) /\ Seq(Mute) \subseteq Seq(LinkedLines(P))
           /\ \A l \in Nat : define(l) \in LinkedLines(P)
           /\ \A l \in Nat \cap P : /\ with_label("mov_eax_imm", l) \in LinkedLines(P)
                                    /\ with_label("push_imm", l) \in LinkedLines(P)
           /\ with_imm("mov_eax_imm", 1) \in LinkedLines(P)
           /\ with_imm("push_imm", 0) \in LinkedLines(P)
  <1>1. Mute \subseteq LinkedLines(P)
    BY DEF Mute, Plain, LinkedLines
  <1>2. Seq(Mute) \subseteq Seq(LinkedLines(P))
    BY <1>1, SeqMonotonic
  <1>3. \A l \in Nat : define(l) \in LinkedLines(P)
    <2> TAKE l \in Nat
    <2>1. define(l) \in Line /\ define(l).op = "define"
      BY LineType DEF define, with_label, line
    <2> QED
      BY <2>1 DEF LinkedLines
  <1>4. "mov_eax_imm" \in Macro /\ "push_imm" \in Unlabelled
    BY DEF Macro, Unlabelled
  <1>5. ASSUME NEW l \in Nat \cap P, NEW op \in {"mov_eax_imm", "push_imm"}
        PROVE  with_label(op, l) \in LinkedLines(P)
    <2>1. with_label(op, l) \in Line /\ with_label(op, l).label = l
      BY <1>4, LineType DEF with_label, line, Unlabelled
    <2> QED
      BY <2>1 DEF LinkedLines
  <1>6. with_imm("mov_eax_imm", 1) \in LinkedLines(P)
    BY <1>4, LineType DEF LinkedLines
  <1>7. with_imm("push_imm", 0) \in LinkedLines(P)
    BY <1>1, <1>4, MuteType
  <1> QED
    BY <1>1, <1>2, <1>3, <1>5, <1>6, <1>7

LEMMA LinksMute ==
    ASSUME NEW out \in Seq(Mute), NEW P
    PROVE  Links(out, {}, P)
  BY LinkedLine DEF Links

LEMMA LinksJump ==
    ASSUME NEW P, NEW l \in Nat, l \in P
    PROVE  /\ Links(jump_to(l), {}, P)
           /\ Links(store_label(l), {}, P)
           /\ Links(branch_if_zero(l), {}, P)
  <1> DEFINE S == LinkedLines(P)
  <1>1. /\ with_label("mov_eax_imm", l) \in S /\ line("jmp_eax") \in S
        /\ line("mov_ref_eax_ebx") \in S
    <2>1. line("jmp_eax") \in Mute /\ line("mov_ref_eax_ebx") \in Mute
      BY MuteType DEF Unlabelled, Macro
    <2> QED
      BY <2>1, LinkedLine
  <1>2. lines(<<"pop_eax", "cmp_eax_imm", "hop_ne">>) \in Seq(S)
    <2>1. <<"pop_eax", "cmp_eax_imm", "hop_ne">> \in Seq(Unlabelled)
      BY DEF Unlabelled, Macro
    <2> QED
      BY <2>1, LinesMute, LinkedLine
  <1> HIDE DEF S
  <1>3. jump_to(l) \in Seq(S) /\ store_label(l) \in Seq(S)
    BY <1>1 DEF jump_to, store_label
  <1>4. branch_if_zero(l) \in Seq(S)
    BY <1>2, <1>3 DEF branch_if_zero
  <1> QED
    BY <1>3, <1>4 DEF Links, S

(* The groups of lines that define labels.                                 *)
LEMMA LinksGroup ==
    ASSUME NEW P, NEW l \in Nat, NEW m \in Nat,
           NEW p \in LinkedLines(P), NEW q \in LinkedLines(P)
    PROVE  /\ Links(<<define(l)>>, {l}, P)
           /\ Links(<<define(l), p>>, {l}, P)
           /\ Links(<<p, define(l)>>, {l}, P)
           /\ Links(<<define(l), p, q>>, {l}, P)
           /\ Links(<<define(l), p, define(m)>>, {l, m}, P)
           /\ Links(<<define(l), p, define(m), q>>, {l, m}, P)
  <1> DEFINE S == LinkedLines(P)
             a == define(l)
             b == define(m)
  <1>1. /\ a \in S /\ a.op = "define" /\ a.label = l
        /\ b \in S /\ b.op = "define" /\ b.label = m
    BY LinkedLine DEF define, with_label, line
  <1> HIDE DEF a, b, S
  <1>2. ASSUME NEW s \in Seq(S), NEW i \in DOMAIN s, s[i] = a
        PROVE  Links(s, {l}, P)
    BY <1>1, <1>2 DEF Links, defined_in, S
  <1>3. ASSUME NEW s \in Seq(S), NEW i \in DOMAIN s, s[i] = a,
               NEW j \in DOMAIN s, s[j] = b
        PROVE  Links(s, {l, m}, P)
    BY <1>1, <1>3 DEF Links, defined_in, S
  <1>4. p \in S /\ q \in S
    BY DEF S
  <1>5. Links(<<a>>, {l}, P)
    <2>1. <<a>> \in Seq(S) /\ 1 \in DOMAIN <<a>> /\ <<a>>[1] = a
      BY <1>1
    <2> QED
      BY <1>2, <2>1
  <1>6. Links(<<a, p>>, {l}, P)
    <2>1. <<a, p>> \in Seq(S) /\ 1 \in DOMAIN <<a, p>> /\ <<a, p>>[1] = a
      BY <1>1, <1>4
    <2> QED
      BY <1>2, <2>1
  <1>7. Links(<<p, a>>, {l}, P)
    <2>1. <<p, a>> \in Seq(S) /\ 2 \in DOMAIN <<p, a>> /\ <<p, a>>[2] = a
      BY <1>1, <1>4
    <2> QED
      BY <1>2, <2>1
  <1>8. Links(<<a, p, q>>, {l}, P)
    <2>1. <<a, p, q>> \in Seq(S) /\ 1 \in DOMAIN <<a, p, q>> /\ <<a, p, q>>[1] = a
      BY <1>1, <1>4
    <2> QED
      BY <1>2, <2>1
  <1>9. Links(<<a, p, b>>, {l, m}, P)
    <2> DEFINE s == <<a, p, b>>
    <2>1. s \in Seq(S) /\ 1 \in DOMAIN s /\ s[1] = a /\ 3 \in DOMAIN s /\ s[3] = b
      BY <1>1, <1>4
    <2> HIDE DEF s
    <2>2. Links(s, {l, m}, P)
      BY <1>3, <2>1
    <2> QED
      BY <2>2 DEF s
  <1>10. Links(<<a, p, b, q>>, {l, m}, P)
    <2> DEFINE s == <<a, p, b, q>>
    <2>1. s \in Seq(S) /\ 1 \in DOMAIN s /\ s[1] = a /\ 3 \in DOMAIN s /\ s[3] = b
      BY <1>1, <1>4
    <2> HIDE DEF s
    <2>2. Links(s, {l, m}, P)
      BY <1>3, <2>1
    <2> QED
      BY <2>2 DEF s
  <1> QED
    BY <1>5, <1>6, <1>7, <1>8, <1>9, <1>10 DEF a, b

LEMMA LinksEmit ==
    ASSUME NEW out, NEW D, NEW P, Links(out, D, P)
    PROVE  LinksAll(emit(out), D, P)
  <1> DEFINE t == [task |-> "emit", out |-> out]
  <1>1. out \in Seq(Line) /\ out \in Seq(LinkedLines(P))
    BY LinkedTypes DEF Links
  <1>2. t \in Task /\ t.task = "emit" /\ t.out = out
    BY <1>1 DEF Task
  <1> HIDE DEF t
  <1>3. t \in LinkedTasks(P) /\ defined_by(t) = defined_in(out)
    BY <1>1, <1>2 DEF LinkedTasks, defined_by
  <1>4. emit(out) = <<t>>
    BY DEF emit, t
  <1>5. <<t>> \in Seq(LinkedTasks(P)) /\ 1 \in DOMAIN <<t>> /\ <<t>>[1] = t
    BY <1>3
  <1>6. D \subseteq Promises(<<t>>)
    BY <1>3, <1>5 DEF Promises, Links
  <1> QED
    BY <1>4, <1>5, <1>6 DEF LinksAll

(* Only emit writes lines of its own, and the statements of a block are    *)
(* visited with an object of their own.                                    *)
LEMMA LinksPieces ==
    ASSUME NEW n \in Nat, NEW c \in 1 .. n, NEW P
    PROVE  /\ \A e \in Expr : LinksAll(visit(e, c), {}, P)
           /\ \A ss \in Seq(Stmt) : c # 1 => LinksAll(visit_all(ss, c), {}, P)
           /\ \A es \in Seq(Expr) : LinksAll(visit_reversed(es, c), {}, P)
           /\ \A name \in Name : LinksAll(address_of(name, c), {}, P)
  <1> DEFINE S == LinkedTasks(P)
             T(x) == [task |-> "visit", node |-> x, compiler |-> c]
  <1>1. \A e \in Expr : T(e) \in S
    <2> TAKE e \in Expr
    <2>1. T(e) \in Task
      BY DEF Task
    <2>2. e \notin Stmt
      <3>1. e \in Node /\ e.kind \in ExprKind
        BY Kinds DEF Node
      <3> QED
        BY <3>1, Classes
    <2> QED
      BY <2>1, <2>2 DEF LinkedTasks
  <1>2. c # 1 => \A s \in Stmt : T(s) \in S
    BY DEF LinkedTasks, Task
  <1> HIDE DEF S, T
  <1>3. \A e \in Expr : visit(e, c) \in Seq(S)
    <2> TAKE e \in Expr
    <2> DEFINE t == T(e)
    <2>1. t \in S /\ visit(e, c) = <<t>>
      BY <1>1 DEF visit, T
    <2> HIDE DEF t
    <2> QED
      BY <2>1
  <1>4. ASSUME NEW ss \in Seq(Stmt), c # 1
        PROVE  visit_all(ss, c) \in Seq(S)
    <2>1. visit_all(ss, c) = [i \in 1 .. Len(ss) |-> T(ss[i])] /\ Len(ss) \in Nat
      BY DEF visit_all, T
    <2>2. \A i \in 1 .. Len(ss) : T(ss[i]) \in S
      BY <1>2, <1>4
    <2>3. visit_all(ss, c) \in [1 .. Len(ss) -> S]
      BY <2>1, <2>2
    <2> QED
      BY <2>1, <2>3, SeqDef
  <1>5. ASSUME NEW es \in Seq(Expr)
        PROVE  visit_reversed(es, c) \in Seq(S)
    <2> DEFINE all == visit_all(es, c)
    <2>1. /\ all = [i \in 1 .. Len(es) |-> T(es[i])] /\ Len(es) \in Nat
          /\ visit_reversed(es, c) = [i \in 1 .. Len(es) |-> all[Len(es) + 1 - i]]
      BY DEF visit_all, visit_reversed, T
    <2> HIDE DEF all
    <2>2. \A i \in 1 .. Len(es) : all[Len(es) + 1 - i] \in S
      <3>1. \A i \in 1 .. Len(es) : Len(es) + 1 - i \in 1 .. Len(es)
        BY <2>1
      <3>2. \A i \in 1 .. Len(es) : all[i] \in S
        BY <1>1, <2>1
      <3> QED
        BY <3>1, <3>2
    <2>3. visit_reversed(es, c) \in [1 .. Len(es) -> S]
      BY <2>1, <2>2
    <2> QED
      BY <2>1, <2>3, SeqDef
  <1>6. \A name \in Name : address_of(name, c) \in Seq(S)
    <2> TAKE name \in Name
    <2>1. [task |-> "address_of", name |-> name, compiler |-> c] \in S
      BY DEF S, LinkedTasks, Task
    <2> QED
      BY <2>1 DEF address_of
  <1> QED
    BY <1>3, <1>4, <1>5, <1>6 DEF LinksAll, S

LEMMA LinksAssign ==
    ASSUME NEW n \in Nat, NEW c \in 1 .. n, NEW d \in 1 .. n,
           NEW e \in Expr, NEW name \in Name, NEW P
    PROVE  LinksAll(assign(e, c, name, d), {}, P)
  <1>1. /\ LinksAll(emit(lines(<<"push_ebx">>)), {}, P)
        /\ LinksAll(emit(lines(<<"pop_ebx">>)), {}, P)
        /\ LinksAll(emit(lines(<<"mov_ref_eax_ebx", "pop_ebx">>)), {}, P)
    BY PiecesMute, LinksMute, LinksEmit
  <1>2. LinksAll(visit(e, c), {}, P) /\ LinksAll(address_of(name, d), {}, P)
    BY LinksPieces
  <1> QED
    BY <1>1, <1>2, LinksAllAround DEF assign

-----------------------------------------------------------------------------
(* What every handler has to show: the labels that it takes are defined    *)
(* by its tasks, and the tasks and objects refer to those and to the ones  *)
(* that were there.                                                        *)
LEMMA FirstOfConcat ==
    ASSUME NEW a \in Seq(Task), NEW b \in Seq(Task)
    PROVE  First(b, Len(b)) \subseteq First(a \o b, Len(a \o b))
  <1> DEFINE c == a \o b
  <1>1. /\ Len(a) \in Nat /\ Len(b) \in Nat /\ Len(c) = Len(a) + Len(b)
        /\ \A i \in 1 .. Len(b) : c[Len(a) + i] = b[i]
    OBVIOUS
  <1> HIDE DEF c
  <1>2. \A i \in 1 .. Len(b) : Len(a) + i \in 1 .. Len(c)
    BY <1>1
  <1>3. First(b, Len(b)) \subseteq First(c, Len(c))
    BY <1>1, <1>2 DEF First
  <1> QED
    BY <1>3 DEF c

(* The symbols after the task at hand.                                     *)
LEMMA MainRemains ==
    ASSUME IInv, MainComes, work # <<>>, NEW tasks \in Seq(Task),
           work' = tasks \o Tail(work),
           DOMAIN compilers[1].globalvars \cup SymbolNames({task})
               \subseteq DOMAIN compilers'[1].globalvars
    PROVE  MainComes'
  <1> DEFINE t == Tail(work)
             n == Len(work) - 1
             G == DOMAIN compilers'[1].globalvars
  <1>1. /\ work \in Seq(Task) /\ t \in Seq(Task) /\ Len(t) = n /\ n \in Nat
        /\ Len(work) = n + 1 /\ Head(work) = task
    BY Tails DEF task
  <1>2. First(work, n + 1) = {task} \cup First(t, n)
    <2>1. \A k \in 0 .. Len(t) : First(work, k + 1) = {Head(work)} \cup First(t, k)
      BY <1>1, FirstTail
    <2>2. n \in 0 .. Len(t)
      BY <1>1
    <2> HIDE DEF t, n
    <2> QED
      BY <1>1, <2>1, <2>2
  <1>3. SymbolNames(First(work, n + 1)) = SymbolNames({task}) \cup SymbolNames(First(t, n))
    BY <1>2, NamesUnion
  <1>4. First(t, n) \subseteq First(work', Len(work'))
    <2> HIDE DEF t, n
    <2> QED
      BY <1>1, FirstOfConcat DEF t
  <1>5. SymbolNames(First(t, n)) \subseteq SymbolNames(First(work', Len(work')))
    BY <1>4 DEF SymbolNames
  <1>6. "main" \in G \cup SymbolNames(First(work', Len(work')))
    BY <1>1, <1>3, <1>5 DEF MainComes
  <1> QED
    BY <1>6 DEF MainComes

LEMMA ExpandLinked ==
    ASSUME IInv, Linked, work # <<>>, task.task # "emit",
           NEW tasks, NEW cs, NEW m, NEW D, Expand(tasks, cs, m),
           LinksAll(tasks, D, Labels \cup D),
           \A c \in DOMAIN cs : LinkedObject(c, cs[c], Labels \cup D),
           DOMAIN compilers[1].globalvars \cup SymbolNames({task})
               \subseteq DOMAIN cs[1].globalvars
    PROVE  Linked'
  <1> DEFINE P == Labels \cup D
             t == Tail(work)
  <1>1. work' = tasks \o t /\ compilers' = cs /\ code' = code /\ outcome' = outcome
    BY DEF Expand
  <1>2. /\ work \in Seq(LinkedTasks(P)) /\ code \in Seq(LinkedLines(P))
        /\ work \in Seq(Task) /\ t \in Seq(Task) /\ tasks \in Seq(Task)
    <2>1. Labels \subseteq P
      OBVIOUS
    <2> HIDE DEF P
    <2>2. work \in Seq(LinkedTasks(P)) /\ code \in Seq(LinkedLines(P))
      BY <2>1, LinkedMore DEF Linked
    <2>3. work \in Seq(Task) /\ t \in Seq(Task)
      BY Tails
    <2>4. tasks \in Seq(Task)
      BY LinkedTypes DEF LinksAll
    <2> QED
      BY <2>2, <2>3, <2>4
  <1>3. P \subseteq Labels'
    <2>1. defined_in(code') = defined_in(code)
      BY <1>1
    <2>2. Promises(work') = Promises(tasks) \cup Promises(t)
      BY <1>1, <1>2, PromisesConcat
    <2>3. Promises(work) \subseteq Promises(t)
      <3> SUFFICES ASSUME NEW k \in DOMAIN work
                   PROVE  defined_by(work[k]) \subseteq Promises(t)
        BY DEF Promises
      <3>1. CASE k = 1
        <4>1. work[k] = task
          BY <3>1, Tails
        <4> QED
          BY <4>1 DEF defined_by
      <3>2. CASE k # 1
        <4>1. PICK i \in 1 .. Len(work) - 1 : k = i + 1
          <5>1. k \in 1 .. Len(work) /\ Len(work) \in Nat
            BY <1>2
          <5>2. k - 1 \in 1 .. Len(work) - 1 /\ k = (k - 1) + 1
            BY <3>2, <5>1
          <5> QED
            BY <5>2
        <4>2. i \in DOMAIN t /\ t[i] = work[k]
          BY <4>1, Tails
        <4> HIDE DEF t
        <4> QED
          BY <4>2 DEF Promises
      <3> QED
        BY <3>1, <3>2
    <2>4. D \subseteq Promises(tasks)
      BY DEF LinksAll
    <2> QED
      BY <2>1, <2>2, <2>3, <2>4 DEF Labels
  <1>4. work' \in Seq(LinkedTasks(P))
    <2>1. t \in Seq(LinkedTasks(P)) /\ tasks \in Seq(LinkedTasks(P))
      <3> DEFINE S == LinkedTasks(P)
      <3>1. work \in Seq(S)
        BY <1>2
      <3> HIDE DEF S, P
      <3>2. t \in Seq(S)
        BY <3>1
      <3>3. tasks \in Seq(S)
        BY DEF LinksAll, S, P
      <3> QED
        BY <3>2, <3>3 DEF S
    <2> DEFINE S == LinkedTasks(P)
    <2>2. t \in Seq(S) /\ tasks \in Seq(S)
      BY <2>1
    <2> HIDE DEF S, t
    <2>3. tasks \o t \in Seq(S)
      BY <2>2
    <2> QED
      BY <1>1, <2>3 DEF S, t
  <1>5. /\ code' \in Seq(LinkedLines(Labels')) /\ work' \in Seq(LinkedTasks(Labels'))
        /\ \A c \in DOMAIN compilers' : LinkedObject(c, compilers'[c], Labels')
    <2>1. \A c \in DOMAIN cs : LinkedObject(c, cs[c], P)
      OBVIOUS
    <2> HIDE DEF P
    <2>2. /\ Seq(LinkedLines(P)) \subseteq Seq(LinkedLines(Labels'))
          /\ Seq(LinkedTasks(P)) \subseteq Seq(LinkedTasks(Labels'))
          /\ \A c, object : LinkedObject(c, object, P) => LinkedObject(c, object, Labels')
      BY <1>3, LinkedMore
    <2> QED
      BY <1>1, <1>2, <1>4, <2>1, <2>2
  <1>6. MainComes'
    BY <1>1, <1>2, MainRemains DEF Linked
  <1>7. outcome' = "done" => work' = <<>>
    BY <1>1 DEF Linked
  <1> QED
    BY <1>5, <1>6, <1>7 DEF Linked

(* Handlers that leave the objects alone.                                  *)
LEMMA PerformLinked ==
    ASSUME IInv, Linked, work # <<>>, task.task # "emit", ~IsSymbol(task),
           NEW tasks, Perform(tasks), LinksAll(tasks, {}, Labels)
    PROVE  Linked'
  <1> DEFINE D == {}
  <1>1. Labels \cup D = Labels /\ LinksAll(tasks, D, Labels)
    OBVIOUS
  <1>2. SymbolNames({task}) = {}
    BY DEF SymbolNames
  <1>3. Expand(tasks, compilers, 0)
    BY DEF Perform
  <1>4. \A c \in DOMAIN compilers : LinkedObject(c, compilers[c], Labels)
    BY DEF Linked
  <1> HIDE DEF D
  <1> QED
    BY <1>1, <1>2, <1>3, <1>4, ExpandLinked

-----------------------------------------------------------------------------
(* The tasks that write, and the end of the program.                       *)
LEMMA CodeLinked ==
    ASSUME IInv, Linked, NEW out, out \in Seq(LinkedLines(Labels)),
           code' = code \o out, compilers' = compilers,
           work' \in Seq(LinkedTasks(Labels)),
           Promises(work) \subseteq defined_in(out) \cup Promises(work'),
           MainComes', outcome' = "done" => work' = <<>>
    PROVE  Linked'
  <1> DEFINE P == Labels
  <1>1. /\ code \in Seq(LinkedLines(P)) /\ out \in Seq(LinkedLines(P))
        /\ work' \in Seq(LinkedTasks(P))
        /\ \A c \in DOMAIN compilers : LinkedObject(c, compilers[c], P)
    BY DEF Linked
  <1>2. P \subseteq Labels'
    <2>1. code \in Seq(Line) /\ out \in Seq(Line)
      BY <1>1, LinkedTypes
    <2>2. defined_in(code') = defined_in(code) \cup defined_in(out)
      BY <2>1, DefinedConcat
    <2> QED
      BY <2>2 DEF Labels
  <1> HIDE DEF P
  <1>3. code' \in Seq(LinkedLines(P))
    <2> DEFINE S == LinkedLines(P)
    <2>1. code \in Seq(S) /\ out \in Seq(S)
      BY <1>1
    <2> HIDE DEF S
    <2>2. code \o out \in Seq(S)
      BY <2>1
    <2> QED
      BY <2>2 DEF S
  <1>4. /\ Seq(LinkedLines(P)) \subseteq Seq(LinkedLines(Labels'))
        /\ Seq(LinkedTasks(P)) \subseteq Seq(LinkedTasks(Labels'))
        /\ \A c, object : LinkedObject(c, object, P) => LinkedObject(c, object, Labels')
    BY <1>2, LinkedMore
  <1> QED
    BY <1>1, <1>3, <1>4 DEF Linked

LEMMA TaskLinked ==
    ASSUME IInv, Linked, work # <<>>, task.task # "visit",
           NEW out, out \in Seq(LinkedLines(Labels)), defined_by(task) \subseteq defined_in(out),
           code' = code \o out, work' = Tail(work), UNCHANGED <<compilers, outcome>>
    PROVE  Linked'
  <1> DEFINE t == Tail(work)
             none == <<>>
             S == LinkedTasks(Labels)
  <1>1. t \in Seq(S)
    <2>1. work \in Seq(S)
      BY DEF Linked
    <2> HIDE DEF S
    <2> QED
      BY <2>1
  <1>2. Promises(work) \subseteq defined_in(out) \cup Promises(t)
    <2> SUFFICES ASSUME NEW k \in DOMAIN work
                 PROVE  defined_by(work[k]) \subseteq defined_in(out) \cup Promises(t)
      BY DEF Promises
    <2>1. CASE k = 1
      <3>1. work[k] = task
        BY <2>1, Tails
      <3> QED
        BY <3>1
    <2>2. CASE k # 1
      <3>1. k - 1 \in 1 .. Len(work) - 1 /\ k = (k - 1) + 1
        <4>1. k \in 1 .. Len(work) /\ Len(work) \in Nat
          BY Tails
        <4> QED
          BY <2>2, <4>1
      <3>2. PICK i \in 1 .. Len(work) - 1 : k = i + 1
        BY <3>1
      <3>3. i \in DOMAIN t /\ t[i] = work[k]
        BY <3>2, Tails
      <3> HIDE DEF t
      <3> QED
        BY <3>3 DEF Promises
    <2> QED
      BY <2>1, <2>2
  <1>3. MainComes'
    <2>1. none \in Seq(Task) /\ work' = none \o Tail(work)
      <3>1. Tail(work) \in Seq(Task)
        BY Tails
      <3> QED
        BY <3>1
    <2>2. SymbolNames({task}) = {}
      BY DEF SymbolNames, IsSymbol, IsVisit
    <2> HIDE DEF none
    <2> QED
      BY <2>1, <2>2, MainRemains DEF Linked
  <1>4. outcome' = "done" => work' = <<>>
    BY DEF Linked
  <1> QED
    BY <1>1, <1>2, <1>3, <1>4, CodeLinked

LEMMA EmitLinked ==
    ASSUME IInv, Linked, Emit
    PROVE  Linked'
  <1>1. /\ work # <<>> /\ task.task = "emit" /\ code' = code \o task.out
        /\ work' = Tail(work) /\ UNCHANGED <<compilers, outcome>>
    BY DEF Emit, Running, Write
  <1>2. task \in LinkedTasks(Labels)
    <2> DEFINE S == LinkedTasks(Labels)
    <2>1. work \in Seq(S)
      BY DEF Linked
    <2> HIDE DEF S
    <2>2. task \in S
      BY <1>1, <2>1 DEF task
    <2> QED
      BY <2>2 DEF S
  <1>3. task.out \in Seq(LinkedLines(Labels)) /\ defined_by(task) = defined_in(task.out)
    BY <1>1, <1>2 DEF LinkedTasks, defined_by
  <1> QED
    BY <1>1, <1>3, TaskLinked

LEMMA AddressOfLinked ==
    ASSUME IInv, Linked, AddressOf
    PROVE  Linked'
  <1> DEFINE S == LinkedLines(Labels)
  <1>1. /\ work # <<>> /\ task.task = "address_of" /\ UNCHANGED compilers
    BY DEF AddressOf, Running
  <1>2. /\ self \in DOMAIN compilers /\ this = compilers[self]
        /\ \A n \in DOMAIN this.globalvars : this.globalvars[n] \in Nat
        /\ \A n \in DOMAIN this.localvars : this.localvars[n] \in Int
    <2>1. /\ this.globalvars \in PartialMap(Nat) /\ this.localvars \in PartialMap(Int)
          /\ self \in DOMAIN compilers
      BY <1>1, Self DEF CompilerObject
    <2> QED
      BY <2>1, PartialMapElements DEF this
  <1>3. defined_by(task) = {}
    BY <1>1 DEF defined_by
  <1>4. CASE /\ task.name \in DOMAIN this.globalvars
             /\ Write(<<with_label("mov_eax_imm", this.globalvars[task.name])>>)
             /\ work' = Tail(work) /\ UNCHANGED outcome
    <2> DEFINE l == this.globalvars[task.name]
               out == <<with_label("mov_eax_imm", l)>>
    <2>1. l \in Nat \cap Labels
      BY <1>2, <1>4 DEF Linked, LinkedObject
    <2>2. with_label("mov_eax_imm", l) \in S
      BY <2>1, LinkedLine
    <2> HIDE DEF S
    <2>3. out \in Seq(S)
      BY <2>2
    <2>4. code' = code \o out
      BY <1>4 DEF Write
    <2> HIDE DEF out
    <2> QED
      BY <1>1, <1>3, <1>4, <2>3, <2>4, TaskLinked DEF S
  <1>5. CASE /\ task.name \in DOMAIN this.localvars \ DOMAIN this.globalvars
             /\ Write(<<line("mov_eax_ebp"),
                        with_imm("add_eax_imm", this.localvars[task.name])>>)
             /\ work' = Tail(work) /\ UNCHANGED outcome
    <2> DEFINE out == <<line("mov_eax_ebp"),
                        with_imm("add_eax_imm", this.localvars[task.name])>>
    <2>1. /\ line("mov_eax_ebp") \in Mute
          /\ with_imm("add_eax_imm", this.localvars[task.name]) \in Mute
      BY <1>2, <1>5, MuteType DEF Unlabelled, Macro
    <2>2. out \in Seq(Mute)
      BY <2>1
    <2>3. code' = code \o out
      BY <1>5 DEF Write
    <2> HIDE DEF out
    <2>4. out \in Seq(S)
      BY <2>2, LinkedLine
    <2> QED
      BY <1>1, <1>3, <1>5, <2>3, <2>4, TaskLinked
  <1>6. CASE outcome' = "terminate" /\ UNCHANGED <<code, work>>
    <2>1. Labels' = Labels
      BY <1>6 DEF Labels
    <2>2. MainComes'
      BY <1>1, <1>6 DEF Linked, MainComes
    <2> QED
      BY <1>1, <1>6, <2>1, <2>2 DEF Linked
  <1> QED
    BY <1>4, <1>5, <1>6 DEF AddressOf

LEMMA ProgramEndLinked ==
    ASSUME IInv, Linked, VisitProgramEnd
    PROVE  Linked'
  <1> DEFINE globalvars == compilers[1].globalvars
             main == IF "main" \in DOMAIN globalvars THEN globalvars["main"] ELSE 0
             out == <<with_label("mov_eax_imm", main)>>
                      \o lines(<<"call_ref_eax", "mov_ebx_eax">>)
                      \o <<with_imm("mov_eax_imm", 1), line("int_80")>>
  <1>1. /\ work = <<>> /\ work' = work /\ compilers' = compilers /\ code' = code \o out
    BY DEF VisitProgramEnd, Write
  <1>2. main \in Nat \cap Labels
    <2>1. "main" \in DOMAIN globalvars
      BY <1>1 DEF Linked, MainComes, First, SymbolNames
    <2>2. compilers[1] \in CompilerObject /\ 1 \in DOMAIN compilers
      BY DEF IInv
    <2>3. globalvars \in PartialMap(Nat)
      BY <2>2 DEF CompilerObject
    <2>4. globalvars["main"] \in Nat
      BY <2>1, <2>3, PartialMapElements
    <2> QED
      BY <2>1, <2>2, <2>4 DEF Linked, LinkedObject
  <1> DEFINE S == LinkedLines(Labels)
  <1> HIDE DEF globalvars, main
  <1>3. /\ with_label("mov_eax_imm", main) \in S /\ line("int_80") \in S
        /\ with_imm("mov_eax_imm", 1) \in S
        /\ lines(<<"call_ref_eax", "mov_ebx_eax">>) \in Seq(S)
    <2>1. line("int_80") \in Mute
      BY MuteType DEF Unlabelled, Macro
    <2> QED
      BY <1>2, <2>1, LinkedLine, PiecesMute
  <1> HIDE DEF S
  <1>4. out \in Seq(S)
    BY <1>3
  <1> HIDE DEF out
  <1>5. work' \in Seq(LinkedTasks(Labels)) /\ MainComes'
    BY <1>1 DEF Linked, MainComes
  <1>6. Promises(work) \subseteq defined_in(out) \cup Promises(work')
    BY <1>1
  <1> QED
    BY <1>1, <1>4, <1>5, <1>6, CodeLinked DEF S

-----------------------------------------------------------------------------
(* One lemma for every group of handlers.                                  *)
LEMMA HeadLinked ==
    ASSUME IInv, Linked, NEW kinds, Visiting(kinds), kinds \subseteq ExprKind \cup StmtKind
    PROVE  /\ work # <<>> /\ task.task = "visit" /\ task.task # "emit" /\ ~IsSymbol(task)
           /\ self \in 1 .. Len(compilers) /\ Len(compilers) \in Nat
           /\ DOMAIN compilers = 1 .. Len(compilers)
           /\ node \in Node /\ this \in CompilerObject /\ this = compilers[self]
           /\ LinkedObject(self, this, Labels)
           /\ node.kind \in StmtKind => self # 1
  <1>1. work # <<>> /\ task.task = "visit" /\ node.kind \in kinds
    BY DEF Visiting, Running
  <1>2. /\ self \in 1 .. Len(compilers) /\ Len(compilers) \in Nat
        /\ DOMAIN compilers = 1 .. Len(compilers)
        /\ node \in Node /\ this \in CompilerObject /\ this = compilers[self]
    BY <1>1, Self DEF this
  <1>3. LinkedObject(self, this, Labels)
    BY <1>2 DEF Linked
  <1>4. ~IsSymbol(task)
    BY <1>1 DEF IsSymbol, IsVisit, node, ExprKind, StmtKind
  <1>5. task \in LinkedTasks(Labels)
    <2> DEFINE S == LinkedTasks(Labels)
    <2>1. work \in Seq(S)
      BY DEF Linked
    <2> HIDE DEF S
    <2>2. task \in S
      BY <1>1, <2>1 DEF task
    <2> QED
      BY <2>2 DEF S
  <1>6. node.kind \in StmtKind => self # 1
    BY <1>1, <1>2, <1>5, Classes DEF LinkedTasks, node, self
  <1> QED
    BY <1>1, <1>2, <1>3, <1>4, <1>6

LEMMA SimpleExpressionLinked ==
    ASSUME IInv, Linked, VisitAddressOf \/ VisitVariable \/ VisitNumeral
    PROVE  Linked'
  <1> DEFINE n == Len(compilers)
  <1>1. /\ work # <<>> /\ task.task # "emit" /\ ~IsSymbol(task)
        /\ self \in 1 .. n /\ n \in Nat /\ node \in Node
    <2>1. /\ {"AddressOf"} \subseteq ExprKind \cup StmtKind
          /\ {"Variable"} \subseteq ExprKind \cup StmtKind
          /\ {"Numeral"} \subseteq ExprKind \cup StmtKind
      BY DEF ExprKind
    <2>2. Visiting({"AddressOf"}) \/ Visiting({"Variable"}) \/ Visiting({"Numeral"})
      BY DEF VisitAddressOf, VisitVariable, VisitNumeral
    <2> QED
      BY <2>1, <2>2, HeadLinked
  <1>2. CASE VisitAddressOf
    <2>1. node.name \in Name
      BY <1>1, <1>2, NodeFields DEF VisitAddressOf, Visiting
    <2>2. /\ LinksAll(address_of(node.name, self), {}, Labels)
          /\ LinksAll(emit(lines(<<"push_eax">>)), {}, Labels)
      BY <1>1, <2>1, LinksPieces, PiecesMute, LinksMute, LinksEmit
    <2>3. LinksAll(address_of(node.name, self) \o emit(lines(<<"push_eax">>)), {}, Labels)
      BY <2>2, LinksAllAround
    <2> QED
      BY <1>1, <1>2, <2>3, PerformLinked DEF VisitAddressOf
  <1>3. CASE VisitVariable
    <2>1. node.name \in Name
      BY <1>1, <1>3, NodeFields DEF VisitVariable, Visiting
    <2>2. /\ LinksAll(address_of(node.name, self), {}, Labels)
          /\ LinksAll(emit(lines(<<"mov_eax_ref_eax", "push_eax">>)), {}, Labels)
      BY <1>1, <2>1, LinksPieces, PiecesMute, LinksMute, LinksEmit
    <2>3. LinksAll(address_of(node.name, self)
                     \o emit(lines(<<"mov_eax_ref_eax", "push_eax">>)), {}, Labels)
      BY <2>2, LinksAllAround
    <2> QED
      BY <1>1, <1>3, <2>3, PerformLinked DEF VisitVariable
  <1>4. CASE VisitNumeral
    <2>1. node.number \in Int
      BY <1>1, <1>4, NodeFields DEF VisitNumeral, Visiting
    <2>2. with_imm("push_imm", node.number) \in Mute
      BY <2>1, MuteType DEF Unlabelled, Macro
    <2>3. <<with_imm("push_imm", node.number)>> \in Seq(Mute)
      BY <2>2
    <2>4. LinksAll(emit(<<with_imm("push_imm", node.number)>>), {}, Labels)
      BY <2>3, LinksMute, LinksEmit
    <2> QED
      BY <1>1, <1>4, <2>4, PerformLinked DEF VisitNumeral
  <1> QED
    BY <1>2, <1>3, <1>4

LEMMA OperationLinked ==
    ASSUME IInv, Linked, VisitBinOp \/ VisitUnOp \/ VisitCall
    PROVE  Linked'
  <1> DEFINE n == Len(compilers)
  <1>1. /\ work # <<>> /\ task.task # "emit" /\ ~IsSymbol(task)
        /\ self \in 1 .. n /\ n \in Nat /\ node \in Node
    <2>1. /\ {"BinOp"} \subseteq ExprKind \cup StmtKind
          /\ {"UnOp"} \subseteq ExprKind \cup StmtKind
          /\ {"Call"} \subseteq ExprKind \cup StmtKind
      BY DEF ExprKind
    <2>2. Visiting({"BinOp"}) \/ Visiting({"UnOp"}) \/ Visiting({"Call"})
      BY DEF VisitBinOp, VisitUnOp, VisitCall
    <2> QED
      BY <2>1, <2>2, HeadLinked
  <1>2. CASE VisitBinOp
    <2>1. node.lhs \in Expr /\ node.rhs \in Expr /\ node.token \in BinaryToken
      BY <1>1, <1>2, NodeFields DEF VisitBinOp, Visiting
    <2> DEFINE out == lines(<<"pop_ebx", "pop_eax">>) \o operation[node.token]
                        \o lines(<<"pop_ebx", "push_eax">>)
    <2>2. out \in Seq(Mute)
      BY <2>1, PiecesMute, OperationMute
    <2> HIDE DEF out
    <2>3. /\ LinksAll(emit(lines(<<"push_ebx">>)), {}, Labels)
          /\ LinksAll(emit(out), {}, Labels)
      BY <2>2, PiecesMute, LinksMute, LinksEmit
    <2>4. /\ LinksAll(visit(node.lhs, self), {}, Labels)
          /\ LinksAll(visit(node.rhs, self), {}, Labels)
      BY <1>1, <2>1, LinksPieces
    <2>5. LinksAll(emit(lines(<<"push_ebx">>)) \o visit(node.lhs, self)
                     \o visit(node.rhs, self) \o emit(out), {}, Labels)
      BY <2>3, <2>4, LinksAllAround
    <2> QED
      BY <1>1, <1>2, <2>5, PerformLinked DEF VisitBinOp, out
  <1>3. CASE VisitUnOp
    <2>1. node.rhs \in Expr /\ node.token \in UnaryToken
      BY <1>1, <1>3, NodeFields DEF VisitUnOp, Visiting
    <2> DEFINE out == lines(<<"pop_eax">>) \o unary_operation[node.token]
                        \o lines(<<"push_eax">>)
    <2>2. out \in Seq(Mute)
      BY <2>1, PiecesMute, OperationMute
    <2> HIDE DEF out
    <2>3. LinksAll(visit(node.rhs, self), {}, Labels) /\ LinksAll(emit(out), {}, Labels)
      BY <1>1, <2>1, <2>2, LinksPieces, LinksMute, LinksEmit
    <2>4. LinksAll(visit(node.rhs, self) \o emit(out), {}, Labels)
      BY <2>3, LinksAllAround
    <2> QED
      BY <1>1, <1>3, <2>4, PerformLinked DEF VisitUnOp, out
  <1>4. CASE VisitCall
    <2>1. node.name \in Name /\ node.arguments \in Seq(Expr)
      BY <1>1, <1>4, NodeFields DEF VisitCall, Visiting
    <2> DEFINE out == <<line("call_ref_eax"),
                        with_imm("add_esp_imm", 4 * Len(node.arguments)),
                        line("push_eax")>>
    <2>2. out \in Seq(Mute)
      <3>1. 4 * Len(node.arguments) \in Int
        BY <2>1
      <3>2. /\ line("call_ref_eax") \in Mute /\ line("push_eax") \in Mute
            /\ with_imm("add_esp_imm", 4 * Len(node.arguments)) \in Mute
        BY <3>1, MuteType DEF Unlabelled, Macro
      <3> QED
        BY <3>2
    <2> HIDE DEF out
    <2>3. /\ LinksAll(visit_reversed(node.arguments, self), {}, Labels)
          /\ LinksAll(address_of(node.name, self), {}, Labels)
          /\ LinksAll(emit(out), {}, Labels)
      BY <1>1, <2>1, <2>2, LinksPieces, LinksMute, LinksEmit
    <2>4. LinksAll(visit_reversed(node.arguments, self)
                     \o address_of(node.name, self) \o emit(out), {}, Labels)
      BY <2>3, LinksAllAround
    <2> QED
      BY <1>1, <1>4, <2>4, PerformLinked DEF VisitCall, out
  <1> QED
    BY <1>2, <1>3, <1>4

LEMMA SimpleStatementLinked ==
    ASSUME IInv, Covered, Linked, \/ VisitExpressionStatement \/ VisitLet \/ VisitReturn
                                  \/ VisitBreak \/ VisitContinue
    PROVE  Linked'
  <1> DEFINE n == Len(compilers)
  <1>1. /\ work # <<>> /\ task.task # "emit" /\ ~IsSymbol(task)
        /\ self \in 1 .. n /\ n \in Nat /\ node \in Node
        /\ this \in CompilerObject /\ LinkedObject(self, this, Labels) /\ self # 1
    <2> DEFINE kinds == {"ExpressionStatement", "Let", "Return", "Break", "Continue"}
    <2>1. kinds \subseteq ExprKind \cup StmtKind
      BY DEF StmtKind
    <2>2. Visiting(kinds) /\ node.kind \in StmtKind
      BY DEF VisitExpressionStatement, VisitLet, VisitReturn, VisitBreak, VisitContinue,
             Visiting, StmtKind
    <2> HIDE DEF kinds
    <2> QED
      BY <2>1, <2>2, HeadLinked
  <1>2. this.return_label \in Nat /\ this.break_label \in Nat /\ this.continue_label \in Nat
    BY <1>1 DEF CompilerObject
  <1>3. CASE VisitExpressionStatement
    <2>1. node.expression \in Expr
      BY <1>1, <1>3, NodeFields DEF VisitExpressionStatement, Visiting
    <2>2. /\ LinksAll(visit(node.expression, self), {}, Labels)
          /\ LinksAll(emit(lines(<<"pop_eax">>)), {}, Labels)
      BY <1>1, <2>1, LinksPieces, PiecesMute, LinksMute, LinksEmit
    <2>3. LinksAll(visit(node.expression, self) \o emit(lines(<<"pop_eax">>)), {}, Labels)
      BY <2>2, LinksAllAround
    <2> QED
      BY <1>1, <1>3, <2>3, PerformLinked DEF VisitExpressionStatement
  <1>4. CASE VisitLet
    <2>1. node.name \in Name /\ node.expression \in Expr
      BY <1>1, <1>4, NodeFields DEF VisitLet, Visiting
    <2>2. LinksAll(assign(node.expression, self, node.name, self), {}, Labels)
      BY <1>1, <2>1, LinksAssign
    <2> QED
      BY <1>1, <1>4, <2>2, PerformLinked DEF VisitLet
  <1>5. CASE VisitReturn
    <2>1. node.expression \in Expr
      BY <1>1, <1>5, NodeFields DEF VisitReturn, Visiting
    <2>2. Links(jump_to(this.return_label), {}, Labels)
      BY <1>1, <1>2, LinksJump DEF LinkedObject
    <2>3. /\ LinksAll(visit(node.expression, self), {}, Labels)
          /\ LinksAll(emit(jump_to(this.return_label)), {}, Labels)
      BY <1>1, <2>1, <2>2, LinksPieces, LinksEmit
    <2>4. LinksAll(visit(node.expression, self) \o emit(jump_to(this.return_label)),
                   {}, Labels)
      BY <2>3, LinksAllAround
    <2> QED
      BY <1>1, <1>5, <2>4, PerformLinked DEF VisitReturn
  <1>6. CASE VisitBreak \/ VisitContinue
    <2>1. Visiting(StmtKind) /\ node.kind \in {"Break", "Continue"}
      BY <1>6 DEF VisitBreak, VisitContinue, Visiting, StmtKind
    <2>2. Obeys(node, ScopeOf(this))
      BY <2>1, HeadStatement
    <2>3. this.break_label # 0
      BY <2>1, <2>2 DEF Obeys, ScopeOf
    <2>4. {this.break_label, this.continue_label} \subseteq Labels
      BY <1>1, <2>3 DEF LinkedObject
    <2>5. /\ Links(jump_to(this.break_label), {}, Labels)
          /\ Links(jump_to(this.continue_label), {}, Labels)
      BY <1>2, <2>4, LinksJump
    <2>6. /\ LinksAll(emit(jump_to(this.break_label)), {}, Labels)
          /\ LinksAll(emit(jump_to(this.continue_label)), {}, Labels)
      BY <2>5, LinksEmit
    <2> QED
      BY <1>1, <1>6, <2>6, PerformLinked DEF VisitBreak, VisitContinue
  <1> QED
    BY <1>3, <1>4, <1>5, <1>6

(* The objects of a handler that only changes or adds objects for locals   *)
(* and loops.                                                              *)
LEMMA VarLinked ==
    ASSUME IInv, Linked, VisitVar
    PROVE  Linked'
  <1> DEFINE n == Len(compilers)
             D == {}
             P == Labels \cup D
             object == [this EXCEPT !.localvars =
                           Bind(@, node.name, next_local_offset(this.localvars))]
             cs == [compilers EXCEPT ![self] = object]
             tasks == emit(<<with_imm("push_imm", 0)>>)
                        \o assign(node.expression, self, node.name, self)
  <1>1. /\ work # <<>> /\ task.task # "emit" /\ ~IsSymbol(task)
        /\ self \in 1 .. n /\ n \in Nat /\ DOMAIN compilers = 1 .. n /\ node \in Node
        /\ this \in CompilerObject /\ this = compilers[self]
    <2>1. {"Var"} \subseteq ExprKind \cup StmtKind
      BY DEF StmtKind
    <2> QED
      BY <2>1, HeadLinked DEF VisitVar
  <1>2. node.name \in Name /\ node.expression \in Expr
    BY <1>1, NodeFields DEF VisitVar, Visiting
  <1>3. LinksAll(tasks, D, P)
    <2>1. <<with_imm("push_imm", 0)>> \in Seq(Mute)
      <3>1. with_imm("push_imm", 0) \in Mute
        BY MuteType DEF Unlabelled, Macro
      <3> QED
        BY <3>1
    <2>2. LinksAll(emit(<<with_imm("push_imm", 0)>>), {}, Labels)
      BY <2>1, LinksMute, LinksEmit
    <2>3. LinksAll(assign(node.expression, self, node.name, self), {}, Labels)
      BY <1>1, <1>2, LinksAssign
    <2> QED
      BY <2>2, <2>3, LinksAllAround
  <1>4. Expand(tasks, cs, 0)
    BY DEF VisitVar, this
  <1>5. /\ object.globalvars = this.globalvars /\ object.break_label = this.break_label
        /\ object.continue_label = this.continue_label
        /\ object.return_label = this.return_label
    BY <1>1 DEF CompilerObject
  <1> HIDE DEF object
  <1>6. /\ DOMAIN cs = 1 .. n /\ cs[self] = object
        /\ \A c \in 1 .. n : c # self => cs[c] = compilers[c]
    BY <1>1
  <1> HIDE DEF cs, tasks
  <1>7. \A c \in DOMAIN cs : LinkedObject(c, cs[c], P)
    BY <1>1, <1>5, <1>6 DEF Linked, LinkedObject
  <1>8. DOMAIN compilers[1].globalvars \cup SymbolNames({task}) \subseteq DOMAIN cs[1].globalvars
    <2>1. 1 \in 1 .. n
      BY <1>1
    <2>2. SymbolNames({task}) = {}
      BY <1>1 DEF SymbolNames
    <2>3. cs[1].globalvars = compilers[1].globalvars
      BY <1>1, <1>5, <1>6, <2>1
    <2> QED
      BY <2>2, <2>3
  <1> HIDE DEF D
  <1> QED
    BY <1>1, <1>3, <1>4, <1>7, <1>8, ExpandLinked

(* Handlers that take labels: those that the tasks define are added to the *)
(* ones that were there.                                                   *)
LEMMA StringLinked ==
    ASSUME IInv, Linked, VisitString
    PROVE  Linked'
  <1> DEFINE D == {label(1), label(2)}
             P == Labels \cup D
             S == LinkedLines(P)
             out == jump_to(label(2))
                      \o <<define(label(1)), line("data"), define(label(2)),
                           with_label("push_imm", label(1))>>
  <1>1. work # <<>> /\ task.task # "emit" /\ ~IsSymbol(task)
    <2>1. {"String"} \subseteq ExprKind \cup StmtKind
      BY DEF ExprKind
    <2> QED
      BY <2>1, HeadLinked DEF VisitString
  <1>2. label(1) \in Nat /\ label(2) \in Nat /\ label(1) \in P /\ label(2) \in P
    BY NewLabels
  <1>3. Expand(emit(out), compilers, 2)
    BY DEF VisitString
  <1>4. \A c \in DOMAIN compilers : LinkedObject(c, compilers[c], P)
    <2>1. Labels \subseteq P
      OBVIOUS
    <2> HIDE DEF P
    <2> QED
      BY <2>1, LinkedMore DEF Linked
  <1>5. SymbolNames({task}) = {}
    BY <1>1 DEF SymbolNames
  <1> HIDE DEF P
  <1>6. line("data") \in S /\ with_label("push_imm", label(1)) \in S
    <2>1. line("data") \in Mute
      BY MuteType
    <2> QED
      BY <1>2, <2>1, LinkedLine
  <1>7. Links(out, D, P)
    <2>1. Links(<<define(label(1)), line("data"), define(label(2)),
                  with_label("push_imm", label(1))>>, D, P)
      BY <1>2, <1>6, LinksGroup
    <2> HIDE DEF D
    <2> QED
      BY <1>2, <2>1, LinksJump, LinksAround
  <1> HIDE DEF out, D
  <1>8. LinksAll(emit(out), D, P)
    BY <1>7, LinksEmit
  <1> QED
    BY <1>1, <1>3, <1>4, <1>5, <1>8, ExpandLinked DEF P

LEMMA IfLinked ==
    ASSUME IInv, Linked, VisitIf
    PROVE  Linked'
  <1> DEFINE n == Len(compilers)
             b == n + 1
             d == n + 2
             D1 == {label(1)}
             D2 == {label(2)}
             D == D1 \cup D2
             P == Labels \cup D
             cs == compilers \o <<this, this>>
             out == jump_to(label(2)) \o <<define(label(1))>>
             front == visit(node.condition, self) \o emit(branch_if_zero(label(1)))
                        \o visit_all(node.then_statements, b)
             tasks == front \o emit(out) \o visit_all(node.else_statements, d)
                        \o emit(<<define(label(2))>>)
  <1>1. /\ work # <<>> /\ task.task # "emit" /\ ~IsSymbol(task)
        /\ self \in 1 .. n /\ n \in Nat /\ DOMAIN compilers = 1 .. n /\ node \in Node
        /\ this \in CompilerObject /\ this = compilers[self]
        /\ LinkedObject(self, this, Labels) /\ self # 1
    <2>1. {"If"} \subseteq ExprKind \cup StmtKind /\ {"If"} \subseteq StmtKind
      BY DEF StmtKind
    <2>2. Visiting({"If"}) /\ node.kind \in StmtKind
      BY <2>1 DEF VisitIf, Visiting
    <2> QED
      BY <2>1, <2>2, HeadLinked
  <1>2. /\ node.condition \in Expr /\ node.then_statements \in Seq(Stmt)
        /\ node.else_statements \in Seq(Stmt)
    BY <1>1, NodeFields DEF VisitIf, Visiting
  <1>3. label(1) \in Nat /\ label(2) \in Nat /\ label(1) \in P /\ label(2) \in P
    BY NewLabels
  <1>4. Expand(tasks, cs, 2)
    <2>1. inner = b /\ inner + 1 = d
      BY <1>1 DEF inner
    <2> QED
      BY <2>1 DEF VisitIf
  <1>5. /\ self \in 1 .. n + 2 /\ b \in 1 .. n + 2 /\ d \in 1 .. n + 2 /\ n + 2 \in Nat
        /\ b # 1 /\ d # 1
    BY <1>1
  <1>6. /\ \A c \in DOMAIN cs : \/ c \in DOMAIN compilers /\ cs[c] = compilers[c]
                                \/ c # 1 /\ cs[c] = this
        /\ cs[1] = compilers[1]
    <2> DEFINE pair == <<this, this>>
    <2>1. compilers \in Seq(CompilerObject) /\ this \in CompilerObject
      BY <1>1 DEF IInv
    <2>2. pair \in Seq(CompilerObject) /\ Len(pair) = 2 /\ pair[1] = this /\ pair[2] = this
      BY <2>1
    <2> HIDE DEF pair
    <2>3. /\ DOMAIN cs = 1 .. n + 2
          /\ \A c \in 1 .. n : cs[c] = compilers[c]
          /\ cs[n + 1] = this /\ cs[n + 2] = this
      BY <1>1, <2>1, <2>2 DEF pair
    <2> HIDE DEF cs
    <2>4. \A c \in 1 .. n + 2 : c \in 1 .. n \/ c = n + 1 \/ c = n + 2
      BY <1>1
    <2> QED
      BY <1>1, <2>3, <2>4
  <1> HIDE DEF cs, b, d
  <1>7. \A c \in DOMAIN cs : LinkedObject(c, cs[c], P)
    <2>1. Labels \subseteq P
      OBVIOUS
    <2> HIDE DEF P
    <2>2. /\ \A c \in DOMAIN compilers : LinkedObject(c, compilers[c], P)
          /\ LinkedObject(self, this, P)
      BY <1>1, <2>1, LinkedMore DEF Linked
    <2>3. \A c : LinkedObject(c, this, P)
      BY <1>1, <2>2 DEF LinkedObject
    <2> QED
      BY <1>6, <2>2, <2>3
  <1>8. DOMAIN compilers[1].globalvars \cup SymbolNames({task}) \subseteq DOMAIN cs[1].globalvars
    BY <1>1, <1>6 DEF SymbolNames
  <1> HIDE DEF P
  <1>9. LinksAll(emit(out), D1, P) /\ LinksAll(emit(<<define(label(2))>>), D2, P)
    <2>1. Links(<<define(label(1))>>, D1, P) /\ Links(<<define(label(2))>>, D2, P)
      <3>1. \E p : p \in LinkedLines(P)
        BY LinkedLine
      <3> QED
        BY <1>3, <3>1, LinksGroup
    <2> HIDE DEF D1, D2
    <2>2. Links(out, D1, P)
      BY <1>3, <2>1, LinksJump, LinksAround
    <2> HIDE DEF out
    <2> QED
      BY <2>1, <2>2, LinksEmit
  <1>10. LinksAll(front, {}, P) /\ LinksAll(visit_all(node.else_statements, d), {}, P)
    <2>1. /\ LinksAll(visit(node.condition, self), {}, P)
          /\ LinksAll(visit_all(node.then_statements, b), {}, P)
          /\ LinksAll(visit_all(node.else_statements, d), {}, P)
      BY <1>2, <1>5, LinksPieces
    <2>2. LinksAll(emit(branch_if_zero(label(1))), {}, P)
      BY <1>3, LinksJump, LinksEmit
    <2> QED
      BY <2>1, <2>2, LinksAllAround
  <1> HIDE DEF out, front, D1, D2
  <1>11. LinksAll(front \o emit(out) \o visit_all(node.else_statements, d), D1, P)
    BY <1>9, <1>10, LinksAllAround
  <1>12. LinksAll(tasks, D, P)
    BY <1>9, <1>11, LinksAllConcat
  <1> HIDE DEF tasks, D
  <1> QED
    BY <1>1, <1>4, <1>7, <1>8, <1>12, ExpandLinked DEF P

(* One object more, with labels of its own.                                *)
LEMMA AppendedLinked ==
    ASSUME IInv, Linked, NEW object \in CompilerObject, NEW P, Labels \subseteq P,
           NEW cs, cs = Append(compilers, object), LinkedObject(inner, object, P)
    PROVE  /\ \A c \in DOMAIN cs : LinkedObject(c, cs[c], P)
           /\ DOMAIN compilers[1].globalvars \subseteq DOMAIN cs[1].globalvars
  <1>1. compilers \in Seq(CompilerObject) /\ 1 \in DOMAIN compilers
    BY DEF IInv
  <1>2. /\ DOMAIN cs = DOMAIN compilers \cup {inner}
        /\ cs[inner] = object /\ \A c \in DOMAIN compilers : cs[c] = compilers[c]
    BY <1>1 DEF inner
  <1>3. \A c \in DOMAIN compilers : LinkedObject(c, compilers[c], P)
    BY LinkedMore DEF Linked
  <1> QED
    BY <1>1, <1>2, <1>3

LEMMA WhileLinked ==
    ASSUME IInv, Linked, VisitWhile
    PROVE  Linked'
  <1> DEFINE n == Len(compilers)
             D1 == {label(1)}
             D2 == {label(2)}
             D == D1 \cup D2
             P == Labels \cup D
             object == with_break_continue_label(label(2), label(1))
             cs == Append(compilers, object)
             out == jump_to(label(1)) \o <<define(label(2))>>
             first == emit(<<define(label(1))>>)
             tasks == first \o visit(node.condition, self)
                        \o emit(branch_if_zero(label(2)))
                        \o visit_all(node.statements, inner) \o emit(out)
  <1>1. /\ work # <<>> /\ task.task # "emit" /\ ~IsSymbol(task)
        /\ self \in 1 .. n /\ n \in Nat /\ DOMAIN compilers = 1 .. n /\ node \in Node
        /\ this \in CompilerObject /\ this = compilers[self]
        /\ LinkedObject(self, this, Labels) /\ self # 1
    <2>1. {"While"} \subseteq ExprKind \cup StmtKind /\ {"While"} \subseteq StmtKind
      BY DEF StmtKind
    <2>2. Visiting({"While"}) /\ node.kind \in StmtKind
      BY <2>1 DEF VisitWhile, Visiting
    <2> QED
      BY <2>1, <2>2, HeadLinked
  <1>2. node.condition \in Expr /\ node.statements \in Seq(Stmt)
    BY <1>1, NodeFields DEF VisitWhile, Visiting
  <1>3. label(1) \in Nat /\ label(2) \in Nat /\ label(1) \in P /\ label(2) \in P
    BY NewLabels
  <1>4. Expand(tasks, cs, 2)
    BY DEF VisitWhile
  <1>5. self \in 1 .. n + 1 /\ inner \in 1 .. n + 1 /\ n + 1 \in Nat /\ inner # 1
    BY <1>1 DEF inner
  <1>6. /\ object \in CompilerObject /\ object.globalvars = this.globalvars
        /\ object.break_label = label(2) /\ object.continue_label = label(1)
        /\ object.return_label = this.return_label
    BY <1>1, <1>3 DEF CompilerObject, with_break_continue_label
  <1> HIDE DEF object
  <1>7. Labels \subseteq P /\ LinkedObject(inner, object, P)
    BY <1>1, <1>3, <1>6 DEF LinkedObject
  <1> HIDE DEF P
  <1>8. /\ \A c \in DOMAIN cs : LinkedObject(c, cs[c], P)
        /\ DOMAIN compilers[1].globalvars \cup SymbolNames({task})
              \subseteq DOMAIN cs[1].globalvars
    <2>1. SymbolNames({task}) = {}
      BY <1>1 DEF SymbolNames
    <2> QED
      BY <1>6, <1>7, <2>1, AppendedLinked
  <1> HIDE DEF cs
  <1>9. LinksAll(first, D1, P) /\ LinksAll(emit(out), D2, P)
    <2>1. Links(<<define(label(1))>>, D1, P) /\ Links(<<define(label(2))>>, D2, P)
      <3>1. \E p : p \in LinkedLines(P)
        BY LinkedLine
      <3> QED
        BY <1>3, <3>1, LinksGroup
    <2> HIDE DEF D1, D2
    <2>2. Links(out, D2, P)
      BY <1>3, <2>1, LinksJump, LinksAround
    <2> HIDE DEF out
    <2> QED
      BY <2>1, <2>2, LinksEmit
  <1>10. /\ LinksAll(visit(node.condition, self), {}, P)
         /\ LinksAll(emit(branch_if_zero(label(2))), {}, P)
         /\ LinksAll(visit_all(node.statements, inner), {}, P)
    <2>1. LinksAll(emit(branch_if_zero(label(2))), {}, P)
      BY <1>3, LinksJump, LinksEmit
    <2> QED
      BY <1>2, <1>5, <2>1, LinksPieces
  <1> HIDE DEF out, first, D1, D2
  <1>11. LinksAll(first \o visit(node.condition, self) \o emit(branch_if_zero(label(2)))
                    \o visit_all(node.statements, inner), D1, P)
    BY <1>9, <1>10, LinksAllAround
  <1>12. LinksAll(tasks, D, P)
    BY <1>9, <1>11, LinksAllConcat
  <1> HIDE DEF tasks, D
  <1> QED
    BY <1>1, <1>4, <1>8, <1>12, ExpandLinked DEF P

LEMMA ForLinked ==
    ASSUME IInv, Linked, VisitFor
    PROVE  Linked'
  <1> DEFINE n == Len(compilers)
             D1 == {label(1)}
             D2 == {label(2)}
             D3 == {label(3)}
             D == (D1 \cup D2) \cup D3
             P == Labels \cup D
             zero == emit(<<with_imm("push_imm", 0)>>)
             initial == assign(node.initial, self, node.name, inner)
             update == assign(node.update, inner, node.name, inner)
             out == jump_to(label(1)) \o <<define(label(3)), line("pop_eax")>>
             front == zero \o initial \o emit(<<define(label(1))>>)
                        \o visit(node.condition, inner)
                        \o emit(branch_if_zero(label(3)))
                        \o visit_all(node.statements, inner)
             middle == front \o emit(<<define(label(2))>>) \o update
             tasks == middle \o emit(out)
             body == with_break_continue_label(label(3), label(2))
             map == Bind(this.localvars, node.name, next_local_offset(this.localvars))
             object == [body EXCEPT !.localvars = map]
             cs == Append(compilers, object)
  <1>1. /\ work # <<>> /\ task.task # "emit" /\ ~IsSymbol(task)
        /\ self \in 1 .. n /\ n \in Nat /\ DOMAIN compilers = 1 .. n /\ node \in Node
        /\ this \in CompilerObject /\ this = compilers[self]
        /\ LinkedObject(self, this, Labels) /\ self # 1
    <2>1. {"For"} \subseteq ExprKind \cup StmtKind /\ {"For"} \subseteq StmtKind
      BY DEF StmtKind
    <2>2. Visiting({"For"}) /\ node.kind \in StmtKind
      BY <2>1 DEF VisitFor, Visiting
    <2> QED
      BY <2>1, <2>2, HeadLinked
  <1>2. /\ node.name \in Name /\ node.initial \in Expr /\ node.condition \in Expr
        /\ node.update \in Expr /\ node.statements \in Seq(Stmt)
    BY <1>1, NodeFields DEF VisitFor, Visiting
  <1>3. /\ label(1) \in Nat /\ label(2) \in Nat /\ label(3) \in Nat
        /\ label(1) \in P /\ label(2) \in P /\ label(3) \in P
    BY NewLabels
  <1>4. self \in 1 .. n + 1 /\ inner \in 1 .. n + 1 /\ n + 1 \in Nat /\ inner # 1
    BY <1>1 DEF inner
  <1>5. /\ body \in CompilerObject /\ body.globalvars = this.globalvars
        /\ body.localvars = this.localvars
        /\ body.break_label = label(3) /\ body.continue_label = label(2)
        /\ body.return_label = this.return_label
    BY <1>1, <1>3 DEF CompilerObject, with_break_continue_label
  <1>6. Expand(tasks, cs, 3)
    <2>1. object = [body EXCEPT !.localvars =
                       Bind(@, node.name, next_local_offset(this.localvars))]
      BY <1>5
    <2> QED
      BY <2>1 DEF VisitFor
  <1>7. map \in PartialMap(Int)
    <2> DEFINE S == Int
               old == this.localvars
               x == node.name
               offset == next_local_offset(this.localvars)
    <2>1. Frame(this.localvars)
      BY <1>1, Self
    <2>2. /\ offset \in S /\ old \in PartialMap(S) /\ x \in Name
          /\ map = Bind(old, x, offset)
      BY <1>2, <2>1, NextOffset DEF Frame
    <2> HIDE DEF offset, S, old, map, x
    <2>3. Bind(old, x, offset) \in PartialMap(S)
      BY <2>2, BindMap
    <2> QED
      BY <2>2, <2>3 DEF S
  <1> HIDE DEF body, map
  <1>8. /\ object \in CompilerObject /\ object.globalvars = this.globalvars
        /\ object.break_label = label(3) /\ object.continue_label = label(2)
        /\ object.return_label = this.return_label
    BY <1>5, <1>7 DEF CompilerObject
  <1> HIDE DEF object
  <1>9. Labels \subseteq P /\ LinkedObject(inner, object, P)
    BY <1>1, <1>3, <1>8 DEF LinkedObject
  <1> HIDE DEF P
  <1>10. /\ \A c \in DOMAIN cs : LinkedObject(c, cs[c], P)
         /\ DOMAIN compilers[1].globalvars \cup SymbolNames({task})
               \subseteq DOMAIN cs[1].globalvars
    <2>1. SymbolNames({task}) = {}
      BY <1>1 DEF SymbolNames
    <2> QED
      BY <1>8, <1>9, <2>1, AppendedLinked
  <1> HIDE DEF cs
  <1>11. /\ LinksAll(emit(<<define(label(1))>>), D1, P)
         /\ LinksAll(emit(<<define(label(2))>>), D2, P)
         /\ LinksAll(emit(out), D3, P)
    <2>1. line("pop_eax") \in LinkedLines(P)
      <3>1. line("pop_eax") \in Mute
        BY MuteType DEF Unlabelled, Macro
      <3> QED
        BY <3>1, LinkedLine
    <2>2. /\ Links(<<define(label(1))>>, D1, P) /\ Links(<<define(label(2))>>, D2, P)
          /\ Links(<<define(label(3)), line("pop_eax")>>, D3, P)
      BY <1>3, <2>1, LinksGroup
    <2> HIDE DEF D1, D2, D3
    <2>3. Links(out, D3, P)
      BY <1>3, <2>2, LinksJump, LinksAround
    <2> HIDE DEF out
    <2> QED
      BY <2>2, <2>3, LinksEmit
  <1>12. /\ LinksAll(zero, {}, P) /\ LinksAll(initial, {}, P) /\ LinksAll(update, {}, P)
         /\ LinksAll(visit(node.condition, inner), {}, P)
         /\ LinksAll(emit(branch_if_zero(label(3))), {}, P)
         /\ LinksAll(visit_all(node.statements, inner), {}, P)
    <2>1. <<with_imm("push_imm", 0)>> \in Seq(Mute)
      <3>1. with_imm("push_imm", 0) \in Mute
        BY MuteType DEF Unlabelled, Macro
      <3> QED
        BY <3>1
    <2>2. LinksAll(zero, {}, P)
      BY <2>1, LinksMute, LinksEmit
    <2>3. LinksAll(emit(branch_if_zero(label(3))), {}, P)
      BY <1>3, LinksJump, LinksEmit
    <2>4. LinksAll(initial, {}, P) /\ LinksAll(update, {}, P)
      BY <1>2, <1>4, LinksAssign
    <2>5. /\ LinksAll(visit(node.condition, inner), {}, P)
          /\ LinksAll(visit_all(node.statements, inner), {}, P)
      BY <1>2, <1>4, LinksPieces
    <2> QED
      BY <2>2, <2>3, <2>4, <2>5
  <1> HIDE DEF zero, initial, update, out, D1, D2, D3
  <1>13. LinksAll(front, D1, P)
    <2>1. LinksAll(zero \o initial, {}, P)
      BY <1>12, LinksAllAround
    <2>2. LinksAll(zero \o initial \o emit(<<define(label(1))>>), D1, P)
      BY <1>11, <2>1, LinksAllAround
    <2> QED
      BY <1>12, <2>2, LinksAllAround
  <1> HIDE DEF front
  <1>14. LinksAll(middle, D1 \cup D2, P)
    <2>1. LinksAll(front \o emit(<<define(label(2))>>), D1 \cup D2, P)
      BY <1>11, <1>13, LinksAllConcat
    <2> DEFINE E == D1 \cup D2
    <2> HIDE DEF E
    <2>2. LinksAll(front \o emit(<<define(label(2))>>), E, P)
      BY <2>1 DEF E
    <2>3. LinksAll(middle, E, P)
      BY <1>12, <2>2, LinksAllAround
    <2> QED
      BY <2>3 DEF E
  <1> HIDE DEF middle
  <1>15. LinksAll(tasks, D, P)
    <2> DEFINE E == D1 \cup D2
    <2>1. LinksAll(middle, E, P)
      BY <1>14
    <2> HIDE DEF E
    <2>2. LinksAll(tasks, E \cup D3, P)
      BY <1>11, <2>1, LinksAllConcat
    <2> QED
      BY <2>2 DEF E
  <1> HIDE DEF tasks, D
  <1> QED
    BY <1>1, <1>6, <1>10, <1>15, ExpandLinked DEF P

-----------------------------------------------------------------------------
(* Globals and functions: the name is bound to a label that the code of    *)
(* the handler defines, so "main" comes with a label.                      *)
LEMMA GlobalVarLinked ==
    ASSUME IInv, Covered, Linked, VisitGlobalVar
    PROVE  Linked'
  <1> DEFINE n == Len(compilers)
             D == {label(1), label(2)}
             P == Labels \cup D
             S == LinkedLines(P)
             name == node.name
             map == Bind(this.globalvars, name, label(1))
             object == [this EXCEPT !.globalvars = map]
             cs == [compilers EXCEPT ![self] = object]
             out1 == jump_to(label(2))
                       \o <<define(label(1)), zero_word, define(label(2))>>
             out2 == lines(<<"pop_ebx">>) \o store_label(label(1))
             tasks == emit(out1) \o visit(node.value, self) \o emit(out2)
  <1>1. /\ work # <<>> /\ task.task # "emit" /\ node \in Node /\ self = 1
        /\ 1 \in DOMAIN compilers /\ this = compilers[1] /\ this \in CompilerObject
    <2>1. Visiting({"GlobalVar", "Function"})
      BY DEF VisitGlobalVar, Visiting
    <2> QED
      BY <2>1, HeadSymbol
  <1>2. name \in Name /\ node.value \in Expr
    BY <1>1, NodeFields DEF VisitGlobalVar, Visiting
  <1>3. label(1) \in Nat /\ label(2) \in Nat /\ label(1) \in P /\ label(2) \in P
    BY NewLabels
  <1>4. n \in Nat /\ self \in 1 .. n
    BY <1>1, Self
  <1>5. Expand(tasks, cs, 2)
    BY DEF VisitGlobalVar, this
  <1>6. /\ DOMAIN map = DOMAIN this.globalvars \cup {name}
        /\ \A m \in DOMAIN map : m = name \/ m \in DOMAIN this.globalvars
        /\ \A m \in DOMAIN map : map[m] = IF m = name THEN label(1) ELSE this.globalvars[m]
    BY DEF Bind
  <1> HIDE DEF map
  <1>7. /\ object.globalvars = map /\ object.break_label = this.break_label
        /\ object.continue_label = this.continue_label
    BY <1>1 DEF CompilerObject
  <1> HIDE DEF object
  <1>8. /\ DOMAIN cs = DOMAIN compilers /\ cs[1] = object
        /\ \A c \in DOMAIN compilers : c # 1 => cs[c] = compilers[c]
    BY <1>1
  <1> HIDE DEF cs
  <1>9. DOMAIN compilers[1].globalvars \cup SymbolNames({task}) \subseteq DOMAIN cs[1].globalvars
    BY <1>1, <1>6, <1>7, <1>8 DEF SymbolNames, node
  <1>10. \A c \in DOMAIN cs : LinkedObject(c, cs[c], P)
    <2>1. Labels \subseteq P
      OBVIOUS
    <2> HIDE DEF P
    <2>2. \A c \in DOMAIN compilers : LinkedObject(c, compilers[c], P)
      BY <2>1, LinkedMore DEF Linked
    <2>3. LinkedObject(1, object, P)
      <3>1. LinkedObject(1, this, P)
        BY <1>1, <2>2
      <3>2. \A m \in DOMAIN map : map[m] \in P
        BY <1>3, <1>6, <3>1 DEF LinkedObject
      <3> QED
        BY <1>7, <3>1, <3>2 DEF LinkedObject
    <2> QED
      BY <1>8, <2>2, <2>3
  <1> HIDE DEF P
  <1>11. Links(out1, D, P)
    <2>1. zero_word \in S
      <3>1. zero_word \in Mute
        BY MuteType DEF zero_word
      <3> QED
        BY <3>1, LinkedLine
    <2>2. Links(<<define(label(1)), zero_word, define(label(2))>>, D, P)
      BY <1>3, <2>1, LinksGroup
    <2> HIDE DEF D
    <2> QED
      BY <1>3, <2>2, LinksJump, LinksAround
  <1>12. Links(out2, {}, P)
    <2>1. Links(lines(<<"pop_ebx">>), {}, P)
      BY PiecesMute, LinksMute
    <2>2. Links(store_label(label(1)), {}, P)
      BY <1>3, LinksJump
    <2> QED
      BY <2>1, <2>2, LinksAround
  <1> HIDE DEF out1, out2, D
  <1>13. LinksAll(tasks, D, P)
    <2>1. LinksAll(emit(out1), D, P) /\ LinksAll(emit(out2), {}, P)
      BY <1>11, <1>12, LinksEmit
    <2>2. LinksAll(visit(node.value, self), {}, P)
      BY <1>2, <1>4, LinksPieces
    <2> QED
      BY <2>1, <2>2, LinksAllAround
  <1> HIDE DEF tasks
  <1> QED
    BY <1>1, <1>5, <1>9, <1>10, <1>13, ExpandLinked DEF P

LEMMA FunctionLinked ==
    ASSUME IInv, Covered, Linked, VisitFunction
    PROVE  Linked'
  <1> DEFINE n == Len(compilers)
             D1 == {label(1), label(3)}
             D2 == {label(4)}
             D3 == {label(2)}
             D == D1 \cup (D2 \cup D3)
             P == Labels \cup D
             S == LinkedLines(P)
             name == node.name
             map == Bind(this.globalvars, name, label(1))
             offsets == argument_offsets(node.arguments)
             outer == [this EXCEPT !.globalvars = map, !.localvars = offsets]
             object == [outer EXCEPT !.return_label = label(4)]
             cs1 == [compilers EXCEPT ![self] = outer]
             cs == Append(cs1, object)
             out1 == jump_to(label(2))
                       \o <<define(label(1)), zero_word, define(label(3))>>
                       \o lines(<<"push_ebp", "mov_ebp_esp">>)
             left == <<with_imm("push_imm", 0), define(label(4))>>
                       \o lines(<<"pop_eax", "mov_esp_ebp", "pop_ebp", "ret">>)
             out2 == left
                       \o <<define(label(2)), with_label("mov_eax_imm", label(3)),
                            line("mov_ebx_eax")>>
                       \o store_label(label(1))
             tasks == emit(out1) \o visit_all(node.statements, inner) \o emit(out2)
  <1>1. /\ work # <<>> /\ task.task # "emit" /\ node \in Node /\ self = 1
        /\ 1 \in DOMAIN compilers /\ this = compilers[1] /\ this \in CompilerObject
    <2>1. Visiting({"GlobalVar", "Function"})
      BY DEF VisitFunction, Visiting
    <2> QED
      BY <2>1, HeadSymbol
  <1>2. name \in Name /\ node.statements \in Seq(Stmt) /\ node.arguments \in Seq(Name)
    BY <1>1, NodeFields DEF VisitFunction, Visiting
  <1>3. /\ label(1) \in Nat /\ label(2) \in Nat /\ label(3) \in Nat /\ label(4) \in Nat
        /\ label(1) \in P /\ label(2) \in P /\ label(3) \in P /\ label(4) \in P
    BY NewLabels
  <1>4. /\ n \in Nat /\ n + 1 \in Nat /\ self \in 1 .. n /\ DOMAIN compilers = 1 .. n
        /\ inner \in 1 .. n + 1 /\ inner = n + 1 /\ inner # 1
    <2>1. n \in Nat /\ self \in 1 .. n /\ DOMAIN compilers = 1 .. n
      BY <1>1, Self
    <2> QED
      BY <2>1 DEF inner
  <1>5. Expand(tasks, cs, 4)
    <2>1. outer = [this EXCEPT !.globalvars = Bind(@, node.name, label(1)),
                               !.localvars = argument_offsets(node.arguments)]
      OBVIOUS
    <2> HIDE DEF outer
    <2> QED
      BY <2>1 DEF VisitFunction
  <1>6. /\ DOMAIN map = DOMAIN this.globalvars \cup {name}
        /\ \A m \in DOMAIN map : map[m] = IF m = name THEN label(1) ELSE this.globalvars[m]
    BY DEF Bind
  <1>7. map \in PartialMap(Nat) /\ offsets \in PartialMap(Int)
    <2>1. this.globalvars \in PartialMap(Nat)
      BY <1>1 DEF CompilerObject
    <2>2. map \in PartialMap(Nat)
      BY <1>2, <1>3, <2>1, BindMap
    <2>3. Frame(offsets)
      BY <1>2, ArgumentFrame
    <2> QED
      BY <2>2, <2>3 DEF Frame
  <1> HIDE DEF map, offsets
  <1>8. /\ outer \in CompilerObject /\ outer.globalvars = map
        /\ outer.break_label = 0
    BY <1>1, <1>7 DEF CompilerObject, Covered
  <1> HIDE DEF outer
  <1>9. /\ object \in CompilerObject /\ object.globalvars = map
        /\ object.break_label = 0 /\ object.return_label = label(4)
    BY <1>3, <1>8 DEF CompilerObject
  <1> HIDE DEF object
  <1>10. /\ DOMAIN cs = 1 .. n + 1 /\ cs[1] = outer /\ cs[n + 1] = object
         /\ \A c \in 1 .. n : c # 1 => cs[c] = compilers[c]
    <2>1. compilers \in Seq(CompilerObject)
      BY DEF IInv
    <2>2. /\ cs1 \in Seq(CompilerObject) /\ Len(cs1) = n /\ cs1[1] = outer
          /\ \A c \in 1 .. n : c # 1 => cs1[c] = compilers[c]
      BY <1>1, <1>4, <1>8, <2>1
    <2> HIDE DEF cs1
    <2> QED
      BY <1>1, <1>4, <1>9, <2>2
  <1> HIDE DEF cs1, cs
  <1>11. DOMAIN compilers[1].globalvars \cup SymbolNames({task}) \subseteq DOMAIN cs[1].globalvars
    BY <1>1, <1>6, <1>8, <1>10 DEF SymbolNames, node
  <1>12. \A c \in DOMAIN cs : LinkedObject(c, cs[c], P)
    <2>1. Labels \subseteq P
      OBVIOUS
    <2> HIDE DEF P
    <2>2. \A c \in DOMAIN compilers : LinkedObject(c, compilers[c], P)
      BY <2>1, LinkedMore DEF Linked
    <2>3. \A m \in DOMAIN map : map[m] \in P
      BY <1>1, <1>3, <1>6, <2>2 DEF LinkedObject
    <2>4. LinkedObject(1, outer, P) /\ LinkedObject(n + 1, object, P)
      BY <1>3, <1>8, <1>9, <2>3 DEF LinkedObject
    <2>5. \A c \in 1 .. n + 1 : c = 1 \/ c = n + 1 \/ (c \in 1 .. n /\ c # 1)
      BY <1>4
    <2> QED
      BY <1>4, <1>10, <2>2, <2>4, <2>5
  <1> HIDE DEF P, S
  <1>13. Links(out1, D1, P)
    <2>1. zero_word \in LinkedLines(P)
      <3>1. zero_word \in Mute
        BY MuteType DEF zero_word
      <3> QED
        BY <3>1, LinkedLine
    <2>2. Links(<<define(label(1)), zero_word, define(label(3))>>, D1, P)
      BY <1>3, <2>1, LinksGroup
    <2>3. Links(jump_to(label(2)), {}, P)
      BY <1>3, LinksJump
    <2>4. Links(lines(<<"push_ebp", "mov_ebp_esp">>), {}, P)
      BY PiecesMute, LinksMute
    <2> HIDE DEF D1
    <2> QED
      BY <2>2, <2>3, <2>4, LinksAround
  <1>14. Links(out2, D2 \cup D3, P)
    <2>1. /\ with_imm("push_imm", 0) \in LinkedLines(P)
          /\ with_label("mov_eax_imm", label(3)) \in LinkedLines(P)
          /\ line("mov_ebx_eax") \in LinkedLines(P)
      <3>1. line("mov_ebx_eax") \in Mute
        BY MuteType DEF Unlabelled, Macro
      <3> QED
        BY <1>3, <3>1, LinkedLine
    <2>2. /\ Links(<<with_imm("push_imm", 0), define(label(4))>>, D2, P)
          /\ Links(<<define(label(2)), with_label("mov_eax_imm", label(3)),
                     line("mov_ebx_eax")>>, D3, P)
      BY <1>3, <2>1, LinksGroup
    <2>3. Links(lines(<<"pop_eax", "mov_esp_ebp", "pop_ebp", "ret">>), {}, P)
      BY PiecesMute, LinksMute
    <2>4. Links(store_label(label(1)), {}, P)
      BY <1>3, LinksJump
    <2> HIDE DEF D2, D3
    <2>5. Links(left, D2, P)
      BY <2>2, <2>3, LinksAround
    <2> HIDE DEF left
    <2>6. Links(left \o <<define(label(2)), with_label("mov_eax_imm", label(3)),
                          line("mov_ebx_eax")>>, D2 \cup D3, P)
      BY <2>2, <2>5, LinksConcat
    <2> DEFINE E == D2 \cup D3
    <2>7. Links(left \o <<define(label(2)), with_label("mov_eax_imm", label(3)),
                          line("mov_ebx_eax")>>, E, P)
      BY <2>6
    <2> HIDE DEF E
    <2>8. Links(out2, E, P)
      BY <2>4, <2>7, LinksAround
    <2> QED
      BY <2>8 DEF E
  <1> HIDE DEF out1, left, out2
  <1>15. LinksAll(tasks, D, P)
    <2> DEFINE E == D2 \cup D3
    <2>1. Links(out2, E, P)
      BY <1>14
    <2> HIDE DEF D1, E
    <2>2. LinksAll(emit(out1), D1, P) /\ LinksAll(emit(out2), E, P)
      BY <1>13, <2>1, LinksEmit
    <2>3. LinksAll(visit_all(node.statements, inner), {}, P)
      BY <1>2, <1>4, LinksPieces
    <2>4. LinksAll(emit(out1) \o visit_all(node.statements, inner), D1, P)
      BY <2>2, <2>3, LinksAllAround
    <2>5. LinksAll(tasks, D1 \cup E, P)
      BY <2>2, <2>4, LinksAllConcat
    <2> QED
      BY <2>5 DEF E
  <1> HIDE DEF tasks, D
  <1> QED
    BY <1>1, <1>5, <1>11, <1>12, <1>15, ExpandLinked DEF P

-----------------------------------------------------------------------------
LEMMA InitLinked ==
    ASSUME Init, WellScopedProgram(program)
    PROVE  Linked
  <1> DEFINE g == program.globalvars
             f == program.functions
             gs == visit_all(g, 1)
             fs == visit_all(f, 1)
             T(x) == [task |-> "visit", node |-> x, compiler |-> 1]
             S == LinkedTasks(Labels)
  <1>1. /\ g \in Seq(GlobalVar) /\ f \in Seq(Function)
        /\ work = gs \o fs /\ code = <<>> /\ outcome = "compiling"
        /\ \E k \in DOMAIN f : f[k].name = "main"
    BY AstAssumption DEF Init, Start, WellScopedProgram
  <1>2. /\ gs = [i \in 1 .. Len(g) |-> T(g[i])] /\ Len(g) \in Nat
        /\ fs = [i \in 1 .. Len(f) |-> T(f[i])] /\ Len(f) \in Nat
        /\ DOMAIN g = 1 .. Len(g) /\ DOMAIN f = 1 .. Len(f)
    <2> HIDE DEF g, f
    <2> QED
      BY <1>1 DEF visit_all
  <1>3. \A x \in GlobalVar \cup Function : T(x) \in S /\ T(x) \in Task
    <2> TAKE x \in GlobalVar \cup Function
    <2>1. T(x) \in Task
      BY DEF Task
    <2>2. x \notin Stmt
      <3>1. x \in Node /\ x.kind \in {"GlobalVar", "Function"}
        BY Kinds DEF Node
      <3> QED
        BY <3>1, Classes
    <2> QED
      BY <2>1, <2>2 DEF LinkedTasks
  <1>4. \A x \in Function : IsSymbol(T(x)) /\ T(x).node = x
    BY Kinds DEF IsSymbol, IsVisit
  <1> HIDE DEF g, f, T, S
  <1>5. /\ gs \in Seq(S) /\ fs \in Seq(S) /\ gs \in Seq(Task) /\ fs \in Seq(Task)
        /\ Len(fs) = Len(f) /\ \A i \in 1 .. Len(f) : fs[i] = T(f[i])
    <2>1. /\ \A i \in 1 .. Len(g) : T(g[i]) \in S /\ T(g[i]) \in Task
          /\ \A i \in 1 .. Len(f) : T(f[i]) \in S /\ T(f[i]) \in Task
      <3>1. /\ \A i \in 1 .. Len(g) : g[i] \in GlobalVar
            /\ \A i \in 1 .. Len(f) : f[i] \in Function
        BY <1>1, <1>2
      <3> QED
        BY <1>3, <3>1
    <2> HIDE DEF gs, fs
    <2>2. /\ gs \in [1 .. Len(g) -> S] /\ fs \in [1 .. Len(f) -> S]
          /\ gs \in [1 .. Len(g) -> Task] /\ fs \in [1 .. Len(f) -> Task]
      BY <1>2, <2>1
    <2>3. gs \in Seq(S) /\ fs \in Seq(S) /\ gs \in Seq(Task) /\ fs \in Seq(Task)
      BY <1>2, <2>2, SeqDef
    <2> QED
      BY <1>2, <2>3
  <1> HIDE DEF gs, fs
  <1>6. work \in Seq(S)
    BY <1>1, <1>5
  <1>7. MainComes
    <2>1. PICK k \in DOMAIN f : f[k].name = "main"
      BY <1>1
    <2>2. f[k] \in Function /\ k \in 1 .. Len(fs) /\ fs[k] = T(f[k])
      BY <1>1, <1>2, <1>5, <2>1
    <2> DEFINE t == fs[k]
               F == First(fs, Len(fs))
               W == First(work, Len(work))
    <2>3. t \in F /\ IsSymbol(t) /\ t.node.name = "main"
      BY <1>4, <2>1, <2>2 DEF First
    <2>4. F \subseteq W
      BY <1>1, <1>5, FirstOfConcat
    <2> HIDE DEF t, F, W
    <2>5. "main" \in SymbolNames(W)
      BY <2>3, <2>4 DEF SymbolNames
    <2> QED
      BY <2>5 DEF MainComes, W
  <1>8. \A c \in DOMAIN compilers : LinkedObject(c, compilers[c], Labels)
    <2> DEFINE object == [globalvars |-> Nothing, localvars |-> Nothing,
                          return_label |-> 0, break_label |-> 0, continue_label |-> 0]
    <2>1. compilers = <<object>> /\ object.break_label = 0 /\ DOMAIN object.globalvars = {}
      BY DEF Init, Start, Nothing
    <2> HIDE DEF object
    <2>2. \A c \in DOMAIN compilers : c = 1 /\ compilers[c] = object
      BY <2>1
    <2> QED
      BY <2>1, <2>2 DEF LinkedObject
  <1>9. code \in Seq(LinkedLines(Labels))
    BY <1>1
  <1> QED
    BY <1>1, <1>6, <1>7, <1>8, <1>9 DEF Linked, S

LEMMA NextLinked ==
    ASSUME IInv, Covered, Linked, [Next]_vars
    PROVE  Linked'
  <1>1. CASE UNCHANGED vars
    <2>1. Labels' = Labels /\ MainComes'
      BY <1>1 DEF vars, Labels, Linked, MainComes
    <2> QED
      BY <1>1, <2>1 DEF vars, Linked
  <1>2. CASE Next
    BY <1>2, EmitLinked, AddressOfLinked, SimpleExpressionLinked, OperationLinked,
       StringLinked, SimpleStatementLinked, VarLinked, IfLinked, WhileLinked, ForLinked,
       GlobalVarLinked, FunctionLinked, ProgramEndLinked DEF Next
  <1> QED
    BY <1>1, <1>2

(* At the end no task is left that could define a label: what a line       *)
(* refers to stands in the code, and only once.                            *)
LEMMA LinkedCode ==
    ASSUME LabelsTaken, Linked, outcome = "done", NEW i \in DOMAIN code
    PROVE  \/ code[i].op \notin {"mov_eax_imm", "push_imm"}
           \/ code[i].op = "push_imm" /\ code[i].label = 0
           \/ code[i] = with_imm("mov_eax_imm", 1)
           \/ \E j \in DOMAIN code :
                 {k \in DOMAIN code : code[k].op = "define" /\ code[k].label = code[i].label}
                     = {j}
  <1>1. Labels = defined_in(code)
    <2>1. work = <<>>
      BY DEF Linked
    <2>2. Promises(work) = {}
      BY <2>1 DEF Promises
    <2> QED
      BY <2>2 DEF Labels
  <1>2. code[i] \in LinkedLines(Labels)
    <2> DEFINE S == LinkedLines(Labels)
    <2>1. code \in Seq(S)
      BY DEF Linked
    <2> HIDE DEF S
    <2>2. code[i] \in S
      BY <2>1
    <2> QED
      BY <2>2 DEF S
  <1>3. CASE code[i].label \in defined_in(code)
    <2>1. PICK j \in DOMAIN code : code[j].op = "define" /\ code[j].label = code[i].label
      BY <1>3 DEF defined_in
    <2>2. \A k \in DOMAIN code :
             code[k].op = "define" /\ code[k].label = code[i].label => k = j
      BY <2>1 DEF LabelsTaken, Writes, Distinct
    <2> QED
      BY <2>1, <2>2
  <1> QED
    BY <1>1, <1>2, <1>3 DEF LinkedLines
=============================================================================
