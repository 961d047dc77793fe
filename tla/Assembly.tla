------------------------------ MODULE Assembly ------------------------------
(***************************************************************************)
(* The assembly language the code generator writes: one record for each    *)
(* form of instruction that occurs in its output, names for labels.        *)
(***************************************************************************)
EXTENDS Integers, Sequences

\* An address is a register and a displacement.
At(r, d)           == [reg |-> r, disp |-> d]
MovI(r, n)         == [op |-> "movi", r |-> r, n |-> n]
MovR(r, s)         == [op |-> "movr", r |-> r, s |-> s]
Load(r, m, n, u)   == [op |-> "load", r |-> r, m |-> m, n |-> n, u |-> u]
Store(m, r, n)     == [op |-> "store", r |-> r, m |-> m, n |-> n]
StoreI(m, v)       == [op |-> "storei", m |-> m, n |-> v]     \* one byte
Lea(r, m)          == [op |-> "lea", r |-> r, m |-> m]
LeaLabel(r, l)     == [op |-> "leal", r |-> r, l |-> l]
Extending(n, u)    == [op |-> "ext", n |-> n, u |-> u]        \* rax from its low part
Arith(o, r, s)     == [op |-> "arith", o |-> o, r |-> r, s |-> s]
ArithI(o, r, n)    == [op |-> "arithi", o |-> o, r |-> r, n |-> n]
Idiv               == [op |-> "idiv"]                         \* cqo; idiv rbx
CmpZero            == [op |-> "cmpi"]                         \* cmp rax, 0
Cmp                == [op |-> "cmp"]                          \* cmp rax, rbx
Set(cc)            == [op |-> "set", cc |-> cc]               \* setcc al; movzx rax, al
Label(l)           == [op |-> "label", l |-> l]
Jmp(l)             == [op |-> "jmp", l |-> l]
J(cc, l)           == [op |-> "j", cc |-> cc, l |-> l]
Call(l)            == [op |-> "call", l |-> l]
Ret                == [op |-> "ret"]
Push(r)            == [op |-> "push", r |-> r]
Pop(r)             == [op |-> "pop", r |-> r]

ArgRegs == <<"rcx", "rdx", "r8", "r9">>

\* Positions of the labels in a program, and the labels it refers to.
LabelsOf(code)   == {code[i].l : i \in {j \in DOMAIN code : code[j].op = "label"}}
LabelsUsed(code) == {code[i].l : i \in {j \in DOMAIN code : code[j].op \in {"jmp", "j", "call", "leal"}}}
PositionOf(code, l) == CHOOSE i \in DOMAIN code : code[i].op = "label" /\ code[i].l = l
=============================================================================
