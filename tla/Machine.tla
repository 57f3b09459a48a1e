------------------------------- MODULE Machine -------------------------------
(***************************************************************************)
(* The processor that runs the output of the compiler: what the macros of  *)
(* hex_compiler_header in src/src/arabilis_cpp/backend.cpp mean, according *)
(* to the machine instruction that each of them stands for.                *)
(*                                                                         *)
(* A line of code has its index for an address; the definition of a label  *)
(* occupies no memory and is stepped over.  Memory is the words that the   *)
(* code reserves, at the address of their label, and the stack.  Registers *)
(* and words hold signed integers of Width bits.                           *)
(***************************************************************************)
EXTENDS Integers, Sequences, Bitwise

CONSTANTS Width,      \* number of bits of a register
          StackTop,   \* initial value of esp
          StackWords  \* number of words the stack may hold

VARIABLES code,       \* the lines that are executed
          pc,         \* address of the next line
          registers,  \* the registers eax, ebx, edx, ebp and esp
          flags,      \* outcome of the last cmp
          memory,     \* address -> word
          frames,     \* per active call, the registers that it has to restore
          status      \* "running", "exited" or "fault"

vars == <<code, pc, registers, flags, memory, frames, status>>

eax == registers.eax
ebx == registers.ebx
edx == registers.edx
ebp == registers.ebp
esp == registers.esp

Modulus == 2 ^ Width
Unsigned(x) == x % Modulus
Wrap(x) ==
    LET u == Unsigned(x) IN IF u < Modulus \div 2 THEN u ELSE u - Modulus

OnStack(address) ==
    /\ address < StackTop /\ address >= StackTop - 4 * StackWords
    /\ (StackTop - address) % 4 = 0

current == code[pc]

AddressOfLabel(l) == CHOOSE i \in DOMAIN code : code[i].op = "define" /\ code[i].label = l

(* The immediate operand: the address of a label or a number.              *)
immediate ==
    IF current.label = 0 THEN Wrap(current.imm) ELSE AddressOfLabel(current.label)

Write(map, address, value) ==
    [a \in DOMAIN map \cup {address} |-> IF a = address THEN value ELSE map[a]]

Init ==
    /\ pc = 1
    /\ registers = [eax |-> 0, ebx |-> 0, edx |-> 0, ebp |-> 0, esp |-> StackTop]
    /\ flags = [equal |-> FALSE, less |-> FALSE]
    /\ memory = [a \in {} |-> 0]
    /\ frames = <<>>
    /\ status = "running"

-----------------------------------------------------------------------------
(* Words of code that were never written are zero.                         *)
Reserved(address) ==
    /\ address + 1 \in DOMAIN code
    /\ code[address].op = "define" /\ code[address + 1].op = "word"

Accessible(address) == OnStack(address) \/ Reserved(address)

Load(address) == IF address \in DOMAIN memory THEN memory[address] ELSE 0

pushed ==
    CASE current.op = "push_eax" -> {eax}
      [] current.op = "push_ebx" -> {ebx}
      [] current.op = "push_edx" -> {edx}
      [] current.op = "push_ebp" -> {ebp}
      [] current.op = "push_imm" -> {immediate}
      [] current.op = "call_ref_eax" -> {pc + 1}
      [] OTHER -> {}

target == [pop_eax |-> "eax", pop_ebx |-> "ebx", pop_edx |-> "edx", pop_ebp |-> "ebp"]

(* The words of memory that the line at pc refers to.                      *)
referenced == IF current.op \in {"mov_eax_ref_eax", "mov_ref_eax_ebx", "call_ref_eax"}
              THEN {eax} ELSE {}
popped == IF current.op \in DOMAIN target \cup {"ret"} THEN {esp} ELSE {}
accessed == referenced \cup popped \cup (IF pushed # {} THEN {esp - 4} ELSE {})

(* idiv divides the number in edx and eax and truncates towards zero.      *)
magnitude(x) == IF x < 0 THEN -x ELSE x
dividend == edx * Modulus + Unsigned(eax)
quotient == (magnitude(dividend) \div magnitude(ebx))
              * (IF (dividend < 0) = (ebx < 0) THEN 1 ELSE -1)

(* Outside of the code, at data in the middle of it, a word that is not    *)
(* there, a quotient that eax does not hold, or a system call other than   *)
(* exit.                                                                   *)
Faulting ==
    \/ pc \notin DOMAIN code
    \/ current.op \in {"word", "data"}
    \/ \E a \in accessed : ~Accessible(a)
    \/ current.op = "idiv_ebx" /\ (IF ebx = 0 THEN TRUE ELSE quotient # Wrap(quotient))
    \/ current.op = "int_80" /\ eax # 1

Fault ==
    /\ status = "running"
    /\ Faulting
    /\ status' = "fault"
    /\ UNCHANGED <<code, pc, registers, flags, memory, frames>>

-----------------------------------------------------------------------------
Executing(ops) ==
    /\ status = "running"
    /\ pc \in DOMAIN code
    /\ current.op \in ops
    /\ ~Faulting

(* Instructions that only change registers.                                *)
Registers(registers2) ==
    /\ registers' = registers2
    /\ pc' = pc + 1
    /\ UNCHANGED <<code, flags, memory, frames, status>>

set_eax(value) == Registers([registers EXCEPT !.eax = Wrap(value)])

with_low_byte(value, byte) == Wrap(value - (value % 256) + byte)
truth(bit) == IF bit THEN 1 ELSE 0
set_al(bit) == set_eax(with_low_byte(eax, truth(bit)))

Define ==
    /\ Executing({"define"})
    /\ Registers(registers)

Arithmetic ==
    \/ Executing({"add_eax_ebx"}) /\ set_eax(eax + ebx)
    \/ Executing({"sub_eax_ebx"}) /\ set_eax(eax - ebx)
    \/ Executing({"imul_eax_ebx"}) /\ set_eax(eax * ebx)
    \/ Executing({"and_eax_ebx"}) /\ set_eax(Unsigned(eax) & Unsigned(ebx))
    \/ Executing({"or_eax_ebx"}) /\ set_eax(Unsigned(eax) | Unsigned(ebx))
    \/ Executing({"xor_eax_ebx"}) /\ set_eax(Unsigned(eax) ^^ Unsigned(ebx))
    \/ Executing({"neg_eax"}) /\ set_eax(-eax)
    \/ Executing({"not_eax"}) /\ set_eax(-eax - 1)
    \/ Executing({"add_eax_imm"}) /\ set_eax(eax + immediate)
    \/ /\ Executing({"add_esp_imm"})
       /\ Registers([registers EXCEPT !.esp = Wrap(@ + immediate)])
    \/ /\ Executing({"cdq"})
       /\ Registers([registers EXCEPT !.edx = IF eax < 0 THEN -1 ELSE 0])
    \/ /\ Executing({"idiv_ebx"})
       /\ Registers([registers EXCEPT !.eax = quotient,
                                      !.edx = dividend - quotient * ebx])

Move ==
    \/ Executing({"mov_eax_imm"}) /\ set_eax(immediate)
    \/ Executing({"mov_eax_ebp"}) /\ set_eax(ebp)
    \/ Executing({"mov_eax_edx"}) /\ set_eax(edx)
    \/ Executing({"mov_ebx_eax"}) /\ Registers([registers EXCEPT !.ebx = eax])
    \/ Executing({"mov_ebp_esp"}) /\ Registers([registers EXCEPT !.ebp = esp])
    \/ Executing({"mov_esp_ebp"}) /\ Registers([registers EXCEPT !.esp = ebp])
    \/ Executing({"mov_eax_ref_eax"}) /\ set_eax(Load(eax))
    \/ Executing({"movzx_eax_al"}) /\ set_eax(eax % 256)
    \/ /\ Executing({"movzx_ebx_bl"})
       /\ Registers([registers EXCEPT !.ebx = @ % 256])

Compare(a, b) ==
    /\ flags' = [equal |-> a = b, less |-> a < b]
    /\ pc' = pc + 1
    /\ UNCHANGED <<code, registers, memory, frames, status>>

Comparison ==
    \/ Executing({"cmp_eax_ebx"}) /\ Compare(eax, ebx)
    \/ Executing({"cmp_eax_imm"}) /\ Compare(eax, immediate)
    \/ Executing({"cmp_ebx_imm"}) /\ Compare(ebx, immediate)

Condition ==
    \/ Executing({"sete_al"}) /\ set_al(flags.equal)
    \/ Executing({"setne_al"}) /\ set_al(~flags.equal)
    \/ Executing({"setl_al"}) /\ set_al(flags.less)
    \/ Executing({"setle_al"}) /\ set_al(flags.less \/ flags.equal)
    \/ Executing({"setg_al"}) /\ set_al(~flags.less /\ ~flags.equal)
    \/ Executing({"setge_al"}) /\ set_al(~flags.less)
    \/ /\ Executing({"setne_bl"})
       /\ Registers([registers EXCEPT !.ebx = with_low_byte(@, truth(~flags.equal))])

Store ==
    /\ Executing({"mov_ref_eax_ebx"})
    /\ memory' = Write(memory, eax, ebx)
    /\ pc' = pc + 1
    /\ UNCHANGED <<code, registers, flags, frames, status>>

Push ==
    /\ memory' = Write(memory, esp - 4, CHOOSE value \in pushed : TRUE)
    /\ registers' = [registers EXCEPT !.esp = @ - 4]
    /\ UNCHANGED <<code, flags, status>>

Pushing ==
    /\ Executing({"push_eax", "push_ebx", "push_edx", "push_ebp", "push_imm"})
    /\ Push
    /\ pc' = pc + 1
    /\ UNCHANGED frames

Popping ==
    /\ Executing(DOMAIN target)
    /\ Registers([registers EXCEPT ![target[current.op]] = Load(esp), !.esp = esp + 4])

Jump ==
    /\ Executing({"jmp_eax", "hop_ne"})
    /\ pc' = IF current.op = "jmp_eax" THEN eax
             ELSE IF flags.equal THEN pc + 1 ELSE pc + 3
    /\ UNCHANGED <<code, registers, flags, memory, frames, status>>

Call ==
    /\ Executing({"call_ref_eax"})
    /\ Push
    /\ pc' = Load(eax)
    /\ frames' = <<[pc |-> pc + 1, esp |-> esp, ebp |-> ebp, ebx |-> ebx]>> \o frames

Return ==
    /\ Executing({"ret"})
    /\ pc' = Load(esp)
    /\ registers' = [registers EXCEPT !.esp = @ + 4]
    /\ frames' = Tail(frames)
    /\ UNCHANGED <<code, flags, memory, status>>

Exit ==
    /\ Executing({"int_80"})
    /\ status' = "exited"
    /\ UNCHANGED <<code, pc, registers, flags, memory, frames>>

Next ==
    \/ Define
    \/ Arithmetic
    \/ Move
    \/ Comparison
    \/ Condition
    \/ Store
    \/ Pushing
    \/ Popping
    \/ Jump
    \/ Call
    \/ Return
    \/ Exit
    \/ Fault

-----------------------------------------------------------------------------
TypeOK ==
    LET Word == -(Modulus \div 2) .. Modulus \div 2 - 1
    IN /\ pc \in Int
       /\ registers \in [{"eax", "ebx", "edx", "ebp", "esp"} -> Word]
       /\ flags \in [{"equal", "less"} -> BOOLEAN]
       /\ \A a \in DOMAIN memory : Accessible(a) /\ memory[a] \in Word
       /\ status \in {"running", "exited", "fault"}
=============================================================================
