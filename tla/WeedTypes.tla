----------------------------- MODULE WeedTypes -----------------------------
(***************************************************************************)
(* The sizes and alignments of WeedLang types, as Type::size and           *)
(* Type::alignment (AST.cpp) compute them, and the rounding helpers of the *)
(* code generator.  A type is a record                                     *)
(*     [base |-> b, ptr |-> n, arr |-> k]                                  *)
(* with b the name of a scalar or of a struct, n the pointer level and k   *)
(* the array size (0: not an array).  Signedness never changes a size.     *)
(* A registry is a function from the struct names declared so far to their *)
(* [size, align, members] (globalStructs).                                 *)
(***************************************************************************)
EXTENDS Integers

ScalarBytes == [i8  |-> 1, u8  |-> 1, i16 |-> 2, u16 |-> 2,
                i32 |-> 4, u32 |-> 4, i64 |-> 8, u64 |-> 8]

Scalars == {"i8", "u8", "i16", "u16", "i32", "u32", "i64", "u64"}

TypeRecord(Structs) ==
    [base : Scalars \cup Structs, ptr : Nat, arr : Nat]

IsStructValue(t) == t.ptr = 0 /\ t.base \notin Scalars

\* A scalar or a pointer: a value that one mov stores.
IsWord(t) == t.arr = 0 /\ ~IsStructValue(t)

\* Type::size once the base's size is known.
SizeWith(t, base) ==
    IF t.ptr > 0 THEN 8
    ELSE IF t.arr > 0 THEN base * t.arr ELSE base

\* The size of a type: a struct that is not declared has size 0.
TypeSize(t, registry) ==
    SizeWith(t, IF t.base \in Scalars THEN ScalarBytes[t.base]
                ELSE IF t.base \in DOMAIN registry THEN registry[t.base].size
                ELSE 0)

\* Type::alignment calls size() with the resolver it was given, and that
\* resolver answers with the struct's ALIGNMENT (1 for an unknown struct).
TypeAlign(t, registry) ==
    LET sz == SizeWith(t, IF t.base \in Scalars THEN ScalarBytes[t.base]
                          ELSE IF t.base \in DOMAIN registry
                               THEN registry[t.base].align
                          ELSE 1)
    IN  IF t.ptr > 0 THEN 8
        ELSE IF sz <= 0 THEN 1
        ELSE IF sz >= 8 THEN 8 ELSE sz

\* Bit 2^k of n, as 0 or 1, for the three bits an alignment mask can have.
Bit0(n) == n % 2
Bit1(n) == (n \div 2) % 2
Bit2(n) == (n \div 4) % 2

\* Mutation of AlignUp: the rounding is forgotten.
AlignUpNot(x, a) == x

\* (x + (a - 1)) & ~(a - 1) for 0 <= a <= 8: the bits of a - 1 are cleared in
\* the sum, whether or not a is a power of two, and a = 0 clears every bit.
AlignUp(x, a) ==
    IF a = 0 THEN 0
    ELSE LET m == a - 1
             y == x + m
         IN  y - Bit0(m) * Bit0(y) - 2 * (Bit1(m) * Bit1(y))
               - 4 * (Bit2(m) * Bit2(y))

\* (n + 15) & ~15
Align16(n) == 16 * ((n + 15) \div 16)

\* The bytes the mov of a value of size n writes: ptrSizeQualifier and the
\* register chosen with it fall back to a quadword.
StoreWidth(n) == IF n \in {1, 2, 4} THEN n ELSE 8

Larger(a, b) == IF a < b THEN b ELSE a
=============================================================================
