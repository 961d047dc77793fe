------------------------------ MODULE Machine ------------------------------
(***************************************************************************)
(* The processor that runs what the code generator emits: the x86-64       *)
(* instructions that occur in its output, the Win64 convention of the      *)
(* functions it calls, and ExitProcess.  None of it is code of the         *)
(* repository.                                                             *)
(*                                                                         *)
(* A register has eight bytes, and a byte Radix values instead of 256, so  *)
(* that the width of every load, store and conversion matters while words  *)
(* stay small enough to be multiplied.                                     *)
(***************************************************************************)
EXTENDS Assembly, TLC

CONSTANTS
    MaxInstructions, \* bound: instructions of a run
    Radix,      \* values of a byte
    StackTop,   \* rsp when main is called
    StringBase  \* address of the first string literal

WordSize == Radix^8

ASSUME MachineAssumption ==
    /\ Radix \in Nat /\ Radix % 2 = 0 /\ Radix > 1
    /\ StackTop % 16 = 0 /\ StackTop < StringBase /\ StringBase < WordSize

Word(n)     == n % WordSize
Signed(w)   == IF w < WordSize \div 2 THEN w ELSE w - WordSize
Byte(w, i)  == (w \div Radix^i) % Radix

\* The low n bytes of a word, extended to a word.
Extend(w, n, unsigned) ==
    LET low == w % Radix^n
    IN  IF unsigned \/ low < Radix^n \div 2 THEN low ELSE Word(low - Radix^n)

Truth(b) == IF b THEN 1 ELSE 0

\* The relations the set instructions know; operands are signed.
Holds(cc, l, r) ==
    CASE cc = "e" -> l = r [] cc = "ne" -> l # r [] cc = "l" -> l < r
      [] cc = "g" -> l > r [] cc = "le" -> l <= r [] cc = "ge" -> l >= r

\* Division truncates towards zero.
Quotient(l, r) ==
    LET q == (IF l < 0 THEN -l ELSE l) \div (IF r < 0 THEN -r ELSE r)
    IN  IF (l < 0) = (r < 0) THEN q ELSE -q

\* An idiv that the processor refuses: by zero, or with a quotient too large.
Unquotable(l, r) == r = 0 \/ (l = -(WordSize \div 2) /\ r = -1)

-----------------------------------------------------------------------------
(* A machine state: registers, the bytes of memory written so far, the     *)
(* operands of the last comparison, the next instruction, the calls that   *)
(* have not returned (history: where each must return to, and the stack    *)
(* pointer and rbp there), the external calls made, the instructions left  *)
(* to the bound, and whether it still runs.                                *)

Registers == {"rax", "rbx", "rcx", "rdx", "r8", "r9", "rsp", "rbp"}
Volatile  == {"rax", "rcx", "rdx", "r8", "r9"}

Junk == Radix - 1  \* what a byte holds that nobody has written

Start(memory) ==
    [regs |-> [r \in Registers |-> IF r = "rsp" THEN StackTop - 8 ELSE 0],
     mem |-> memory, cmp |-> <<0, 0>>, pc |-> 1, open |-> <<>>, log |-> <<>>,
     left |-> MaxInstructions, status |-> "up"]

R(m, r)   == m.regs[r]
Addr(m, a) == Word(R(m, a.reg) + a.disp)

Peek(m, a) == IF a \in DOMAIN m.mem THEN m.mem[a] ELSE Junk
RECURSIVE ReadBytes(_, _, _)
ReadBytes(m, a, n) == IF n = 0 THEN 0 ELSE Peek(m, Word(a)) + Radix * ReadBytes(m, a + 1, n - 1)
WriteBytes(mem, a, w, n) == [i \in {Word(a + k) : k \in 0..n - 1} |-> Byte(w, Word(i - a))] @@ mem

Put(m, r, w)      == [m EXCEPT !.regs[r] = Word(w), !.pc = @ + 1]
PutMem(m, a, w, n) == [m EXCEPT !.mem = WriteBytes(@, a, w, n), !.pc = @ + 1]
Fault(m)          == [m EXCEPT !.status = "fault"]

Compute(o, l, r) == CASE o = "add" -> l + r [] o = "sub" -> l - r [] o = "imul" -> l * r

\* The arguments a callee finds: four in registers, the others above its home space.
Argument(m, i) ==
    IF i <= 4 THEN R(m, ArgRegs[i]) ELSE ReadBytes(m, R(m, "rsp") + 32 + 8 * (i - 5), 8)

\* An external function of n arguments: it may use its home space and every
\* volatile register as it likes, and returns its first argument plus one.
External(m, f, n) ==
    LET args == [i \in 1..n |-> Signed(Argument(m, i))]
    IN  [m EXCEPT !.log = Append(@, <<f, args>>),
                  !.regs = [r \in Registers |-> IF r = "rax" THEN Word(args[1] + 1)
                                                ELSE IF r \in Volatile THEN WordSize - 1 ELSE @[r]],
                  !.mem = [a \in R(m, "rsp")..R(m, "rsp") + 31 |-> Junk] @@ @,
                  !.pc = @ + 1]

\* One instruction i of code; arity gives the external functions' argument counts,
\* strings the addresses of the string literals' labels.
Perform(m, i, code, arity, strings) ==
    CASE i.op = "movi"   -> Put(m, i.r, i.n)
      [] i.op = "movr"   -> Put(m, i.r, R(m, i.s))
      [] i.op = "load"   -> Put(m, i.r, Extend(ReadBytes(m, Addr(m, i.m), i.n), i.n, i.u))
      [] i.op = "store"  -> PutMem(m, Addr(m, i.m), R(m, i.r), i.n)
      [] i.op = "storei" -> PutMem(m, Addr(m, i.m), i.n, 1)
      [] i.op = "lea"    -> Put(m, i.r, Addr(m, i.m))
      [] i.op = "leal"   -> Put(m, i.r, strings[i.l])
      [] i.op = "ext"    -> Put(m, "rax", Extend(R(m, "rax"), i.n, i.u))
      [] i.op = "arith"  -> Put(m, i.r, Compute(i.o, Signed(R(m, i.r)), Signed(R(m, i.s))))
      [] i.op = "arithi" -> Put(m, i.r, Compute(i.o, Signed(R(m, i.r)), i.n))
      [] i.op = "idiv"   ->
               LET l == Signed(R(m, "rax"))
                   r == Signed(R(m, "rbx"))
               IN  IF Unquotable(l, r) THEN Fault(m)
                   ELSE [Put(m, "rax", Quotient(l, r)) EXCEPT !.regs["rdx"] = Word(l - r * Quotient(l, r))]
      [] i.op = "cmpi"   -> [m EXCEPT !.cmp = <<Signed(R(m, "rax")), 0>>, !.pc = @ + 1]
      [] i.op = "cmp"    -> [m EXCEPT !.cmp = <<Signed(R(m, "rax")), Signed(R(m, "rbx"))>>, !.pc = @ + 1]
      [] i.op = "set"    -> Put(m, "rax", Truth(Holds(i.cc, m.cmp[1], m.cmp[2])))
      [] i.op = "label"  -> [m EXCEPT !.pc = @ + 1]
      [] i.op = "jmp"    -> [m EXCEPT !.pc = PositionOf(code, i.l)]
      [] i.op = "j"      -> [m EXCEPT !.pc = IF Holds(i.cc, m.cmp[1], m.cmp[2]) THEN PositionOf(code, i.l) ELSE @ + 1]
      [] i.op = "push"   -> [PutMem(m, R(m, "rsp") - 8, R(m, i.r), 8) EXCEPT !.regs["rsp"] = @ - 8]
      [] i.op = "pop"    -> [Put(m, i.r, ReadBytes(m, R(m, "rsp"), 8)) EXCEPT !.regs["rsp"] = @ + 8]
      [] i.op = "call"   ->
               IF i.l = "ExitProcess"
               THEN [m EXCEPT !.log = Append(@, <<"ExitProcess", <<Signed(R(m, "rcx"))>>>>), !.status = "exited"]
               ELSE IF i.l \in DOMAIN arity THEN External(m, i.l, arity[i.l])
               ELSE [PutMem(m, R(m, "rsp") - 8, m.pc + 1, 8) EXCEPT
                        !.regs["rsp"] = @ - 8, !.pc = PositionOf(code, i.l),
                        !.open = Append(@, [to |-> m.pc + 1, rsp |-> R(m, "rsp"), rbp |-> R(m, "rbp")])]
      [] i.op = "ret"    ->
               [m EXCEPT !.pc = ReadBytes(m, R(m, "rsp"), 8), !.regs["rsp"] = @ + 8,
                         !.open = IF @ = <<>> THEN @ ELSE SubSeq(@, 1, Len(@) - 1)]

\* The next instruction, if there is one and the bound allows it.
Execute(m, code, arity, strings) ==
    IF m.left = 0 THEN [m EXCEPT !.status = "spent"]
    ELSE IF m.pc \notin DOMAIN code THEN [m EXCEPT !.status = "lost"]
    ELSE [Perform(m, code[m.pc], code, arity, strings) EXCEPT !.left = @ - 1]
=============================================================================
