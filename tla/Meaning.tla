-------------------------------- MODULE Meaning --------------------------------
(***************************************************************************)
(* What a program of the language computes: a reference definition, by     *)
(* recursion on the syntax, that knows nothing of stacks and labels.  An   *)
(* expression is evaluated in a state s and leaves its value in s.value;   *)
(* s.stop tells why execution does not go on with the next statement.      *)
(*                                                                         *)
(* The repository has no description of the meaning of a program, so the   *)
(* order of evaluation is the one the compiler chooses: the left operand   *)
(* first, both operands of && and ||, and the last argument first.         *)
(***************************************************************************)
EXTENDS Ast, Bitwise

CONSTANT Width   \* number of bits of an integer

Unsigned(x) == x % 2 ^ Width
Signed(x) ==
    LET u == Unsigned(x) IN IF u < 2 ^ (Width - 1) THEN u ELSE u - 2 ^ Width

(* Values that are not numbers lie outside of the numbers: function i, and *)
(* any other address.                                                      *)
FunctionValue(i) == 2 ^ Width + i
SomeAddress == 2 ^ Width

Running(s) == s.stop = "no"
Stop(s, why) == [s EXCEPT !.stop = why]
Value(s, v) == [s EXCEPT !.value = v]
Resume(s, why) == IF s.stop \in why THEN Stop(s, "no") ELSE s

Lookup(s, name) ==
    IF name \in DOMAIN s.globals THEN s.globals[name] ELSE s.locals[name]
Assign(s, name) ==
    IF name \in DOMAIN s.globals THEN [s EXCEPT !.globals[name] = s.value]
    ELSE [s EXCEPT !.locals[name] = s.value]
Declare(s, name) ==
    [s EXCEPT !.locals = [n \in DOMAIN s.locals \cup {name} |->
                             IF n = name THEN s.value ELSE s.locals[n]]]
(* What remains of state t at the end of a block entered in state s.       *)
LeaveBlock(s, t) == [t EXCEPT !.locals = [n \in DOMAIN s.locals |-> t.locals[n]]]

truth(b) == IF b THEN 1 ELSE 0
abs(x) == IF x < 0 THEN -x ELSE x
divided(a, b) == (abs(a) \div abs(b)) * (IF (a < 0) = (b < 0) THEN 1 ELSE -1)

UndefinedDivision(token, a, b) ==
    /\ token \in {"divide", "modulo"}
    /\ IF b = 0 THEN TRUE ELSE divided(a, b) # Signed(divided(a, b))

Binary(token, a, b) ==
    CASE token = "plus" -> Signed(a + b)
      [] token = "minus" -> Signed(a - b)
      [] token = "multiply" -> Signed(a * b)
      [] token = "divide" -> divided(a, b)
      [] token = "modulo" -> a - b * divided(a, b)
      [] token = "log_and" -> truth(a # 0 /\ b # 0)
      [] token = "log_or" -> truth(a # 0 \/ b # 0)
      [] token = "bit_and" -> Signed(Unsigned(a) & Unsigned(b))
      [] token = "bit_or" -> Signed(Unsigned(a) | Unsigned(b))
      [] token = "bit_xor" -> Signed(Unsigned(a) ^^ Unsigned(b))
      [] token = "equal" -> truth(a = b)
      [] token = "notequal" -> truth(a # b)
      [] token = "less" -> truth(a < b)
      [] token = "lessequal" -> truth(a <= b)
      [] token = "greater" -> truth(a > b)
      [] token = "greaterequal" -> truth(a >= b)

Unary(token, a) ==
    CASE token = "plus" -> a
      [] token = "minus" -> Signed(-a)
      [] token = "bit_not" -> -a - 1
      [] token = "log_not" -> truth(a = 0)

-----------------------------------------------------------------------------
(* Fuel is spent by calls and by rounds of loops: a program that runs out  *)
(* of it is not taken to have a meaning.                                   *)
Burn(s) == IF s.fuel = 0 THEN Stop(s, "fuel") ELSE [s EXCEPT !.fuel = @ - 1]

RECURSIVE Eval(_, _), EvalLast(_, _), Apply(_, _, _), Exec(_, _), Block(_, _), Loop(_, _)

Eval(e, s) ==
    IF ~Running(s) THEN s
    ELSE CASE e.kind = "Numeral" -> Value(s, Signed(e.number))
           [] e.kind \in {"String", "AddressOf"} -> Value(s, SomeAddress)
           [] e.kind = "Variable" -> Value(s, Lookup(s, e.name))
           [] e.kind = "UnOp" ->
                LET t == Eval(e.rhs, s)
                IN IF Running(t) THEN Value(t, Unary(e.token, t.value)) ELSE t
           [] e.kind = "BinOp" ->
                LET l == Eval(e.lhs, s)
                    r == Eval(e.rhs, l)
                IN IF ~Running(r) THEN r
                   ELSE IF UndefinedDivision(e.token, l.value, r.value) THEN Stop(r, "fault")
                   ELSE Value(r, Binary(e.token, l.value, r.value))
           [] e.kind = "Call" ->
                LET t == EvalLast(e.arguments, [s EXCEPT !.arguments = <<>>])
                IN Apply(e.name, t, s)

(* Evaluates the arguments from the last to the first.                     *)
EvalLast(es, s) ==
    IF es = <<>> \/ ~Running(s) THEN s
    ELSE LET t == Eval(es[Len(es)], s)
         IN EvalLast(SubSeq(es, 1, Len(es) - 1),
                     [t EXCEPT !.arguments = <<t.value>> \o s.arguments])

(* Calls the function that name stands for in state t, for a caller in     *)
(* state s.                                                                *)
Apply(name, t, s) ==
    IF ~Running(t) THEN t
    ELSE LET f == t.functions[Lookup(t, name) - FunctionValue(0)]
             begin == [Burn(t) EXCEPT
                          !.locals = [n \in {f.arguments[i] : i \in DOMAIN f.arguments} |->
                              t.arguments[CHOOSE i \in DOMAIN f.arguments : f.arguments[i] = n]]]
             end == Block(f.statements, begin)
             result == IF Running(end) THEN Value(end, 0) ELSE Resume(end, {"return"})
         IN [result EXCEPT !.locals = t.locals, !.arguments = s.arguments]

Block(ss, s) ==
    IF ss = <<>> \/ ~Running(s) THEN s ELSE Block(Tail(ss), Exec(Head(ss), s))

(* Rounds of a loop; a "while" has no update.                              *)
Loop(x, s) ==
    LET t == Eval(x.condition, Burn(s))
    IN IF ~Running(t) \/ t.value = 0 THEN t
       ELSE LET body == Resume(LeaveBlock(t, Block(x.statements, t)), {"continue"})
                next == IF x.kind = "While" \/ ~Running(body) THEN body
                        ELSE Assign(Eval(x.update, body), x.name)
            IN IF Running(next) THEN Loop(x, next) ELSE next

Exec(x, s) ==
    IF ~Running(s) THEN s
    ELSE CASE x.kind = "ExpressionStatement" -> Eval(x.expression, s)
           [] x.kind = "Return" ->
                LET t == Eval(x.expression, s) IN IF Running(t) THEN Stop(t, "return") ELSE t
           [] x.kind = "Break" -> Stop(s, "break")
           [] x.kind = "Continue" -> Stop(s, "continue")
           [] x.kind = "Let" ->
                LET t == Eval(x.expression, s) IN IF Running(t) THEN Assign(t, x.name) ELSE t
           [] x.kind = "Var" ->
                LET t == Eval(x.expression, s) IN IF Running(t) THEN Declare(t, x.name) ELSE t
           [] x.kind = "If" ->
                LET t == Eval(x.condition, s)
                IN IF ~Running(t) THEN t
                   ELSE LeaveBlock(t, Block(IF t.value # 0 THEN x.then_statements
                                            ELSE x.else_statements, t))
           [] x.kind = "While" -> Resume(Loop(x, s), {"break"})
           [] x.kind = "For" ->
                LET t == Eval(x.initial, s)
                IN IF ~Running(t) THEN t
                   ELSE LeaveBlock(t, Resume(Loop(x, Declare(t, x.name)), {"break"}))

(* The state in which main has returned, or why it did not.                *)
Meaning(p, fuel) ==
    LET vars == {p.globalvars[i].name : i \in DOMAIN p.globalvars}
        funs == {p.functions[i].name : i \in DOMAIN p.functions}
        constant(n) == (CHOOSE i \in DOMAIN p.globalvars : p.globalvars[i].name = n)
        number(n) == (CHOOSE i \in DOMAIN p.functions : p.functions[i].name = n)
        none == [n \in {} |-> 0]
        begin == [globals |-> none, locals |-> none, functions |-> p.functions,
                  arguments |-> <<>>, value |-> 0, fuel |-> fuel, stop |-> "no"]
    IN Apply("main",
             [begin EXCEPT !.globals =
                 [n \in vars \cup funs |->
                     IF n \in vars THEN Eval(p.globalvars[constant(n)].value, begin).value
                     ELSE FunctionValue(number(n))]],
             begin)
=============================================================================
