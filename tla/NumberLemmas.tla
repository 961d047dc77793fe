---------------------------- MODULE NumberLemmas ----------------------------
(***************************************************************************)
(* Facts about numbers that several modules of proofs share: the rounding  *)
(* of module WeedTypes, for the frame and the struct layout; least         *)
(* elements, for the import order, the linker and the front end.           *)
(***************************************************************************)
EXTENDS WeedTypes, WellFoundedInduction, TLAPS

\* alignUp never moves the offset back and skips fewer than a bytes, for every
\* alignment 1..8 the compiler computes, whether or not it is a power of two.
LEMMA AlignUpBounds ==
    ASSUME NEW x \in Nat, NEW a \in 1..8
    PROVE  AlignUp(x, a) \in Nat /\ x <= AlignUp(x, a) /\ AlignUp(x, a) < x + a
<1>1. CASE a = 1  BY <1>1 DEF AlignUp, Bit0, Bit1, Bit2
<1>2. CASE a = 2  BY <1>2 DEF AlignUp, Bit0, Bit1, Bit2
<1>3. CASE a = 3  BY <1>3 DEF AlignUp, Bit0, Bit1, Bit2
<1>4. CASE a = 4  BY <1>4 DEF AlignUp, Bit0, Bit1, Bit2
<1>5. CASE a = 5  BY <1>5 DEF AlignUp, Bit0, Bit1, Bit2
<1>6. CASE a = 6  BY <1>6 DEF AlignUp, Bit0, Bit1, Bit2
<1>7. CASE a = 7  BY <1>7 DEF AlignUp, Bit0, Bit1, Bit2
<1>8. CASE a = 8  BY <1>8 DEF AlignUp, Bit0, Bit1, Bit2
<1>9. QED  BY <1>1, <1>2, <1>3, <1>4, <1>5, <1>6, <1>7, <1>8

\* For a power of two alignUp is what its name says.
LEMMA AlignUpMultiple ==
    ASSUME NEW x \in Nat, NEW a \in {1, 2, 4, 8}
    PROVE  AlignUp(x, a) % a = 0
<1>1. CASE a = 1  BY <1>1 DEF AlignUp, Bit0, Bit1, Bit2
<1>2. CASE a = 2  BY <1>2 DEF AlignUp, Bit0, Bit1, Bit2
<1>3. CASE a = 4  BY <1>3 DEF AlignUp, Bit0, Bit1, Bit2
<1>4. CASE a = 8  BY <1>4 DEF AlignUp, Bit0, Bit1, Bit2
<1>5. QED  BY <1>1, <1>2, <1>3, <1>4

LEMMA Align16Bounds ==
    ASSUME NEW n \in Nat
    PROVE  Align16(n) \in Nat /\ n <= Align16(n) /\ Align16(n) % 16 = 0
BY DEF Align16

LEMMA ScalarBytesRange ==
    ASSUME NEW b \in Scalars
    PROVE  ScalarBytes[b] \in {1, 2, 4, 8}
BY DEF Scalars, ScalarBytes

LEMMA ProductNat ==
    ASSUME NEW m \in Nat, NEW n \in Nat
    PROVE  m * n \in Nat /\ (n > 0 => m <= m * n)
OBVIOUS

-----------------------------------------------------------------------------
Less == {p \in Nat \X Nat : p[1] < p[2]}

\* A nonempty set of natural numbers has a least element.
LEMMA LeastElement ==
    ASSUME NEW T, T \subseteq Nat, T # {}
    PROVE  \E x \in T : \A y \in T : x <= y
<1>1. IsWellFoundedOn(Less, Nat)  BY NatLessThanWellFounded DEF OpToRel, Less
<1>2. PICK x \in T : \A y \in T : ~(<<y, x>> \in Less)  BY <1>1, WFMin
<1>3. ASSUME NEW y \in T  PROVE x <= y
  <2>1. x \in Nat /\ y \in Nat  OBVIOUS
  <2>2. ~(<<y, x>> \in Less)  BY <1>2
  <2>3. ~(y < x)  BY <2>1, <2>2 DEF Less
  <2>4. QED  BY <2>1, <2>3
<1>4. QED  BY <1>3

\* What holds at 1 and goes on from each number to the next holds up to n.
LEMMA UpTo ==
    ASSUME NEW n \in Nat, NEW T, n > 0 => 1 \in T,
           \A i \in 1..n - 1 : i \in T => i + 1 \in T
    PROVE  1..n \subseteq T
<1> DEFINE B == {i \in 1..n : i \notin T}
<1>1. SUFFICES ASSUME B # {} PROVE FALSE  OBVIOUS
<1>0. B \subseteq Nat  OBVIOUS
<1>2. PICK x \in B : \A y \in B : x <= y
  <2> HIDE DEF B
  <2>1. QED  BY <1>0, <1>1, LeastElement
<1>3. x \in 1..n /\ x \notin T  OBVIOUS
<1>4. x # 1  BY <1>3
<1>5. x - 1 \in 1..n - 1 /\ x - 1 + 1 = x /\ x - 1 < x  BY <1>3, <1>4
<1>6. x - 1 \in T  BY <1>2, <1>5
<1>7. QED  BY <1>3, <1>5, <1>6

\* What holds at a number up to n if it holds at all the larger ones holds at all.
LEMMA DownTo ==
    ASSUME NEW n \in Nat, NEW T,
           \A k \in 1..n : (\A j \in k + 1..n : j \in T) => k \in T
    PROVE  1..n \subseteq T
<1> DEFINE B == {d \in 0..n - 1 : n - d \notin T}
<1>1. SUFFICES ASSUME B # {} PROVE FALSE
  <2>1. ASSUME NEW k \in 1..n, k \notin T  PROVE B # {}
    <3>1. n - k \in 0..n - 1 /\ n - (n - k) = k  OBVIOUS
    <3>2. n - k \in B  BY <2>1, <3>1
    <3>3. QED  BY <3>2
  <2>2. QED  BY <2>1
<1>0. B \subseteq Nat  OBVIOUS
<1>2. PICK x \in B : \A y \in B : x <= y
  <2> HIDE DEF B
  <2>1. QED  BY <1>0, <1>1, LeastElement
<1>3. x \in 0..n - 1 /\ n - x \notin T /\ n - x \in 1..n  OBVIOUS
<1>4. ASSUME NEW j \in n - x + 1..n  PROVE j \in T
  <2>1. n - j \in 0..n - 1 /\ n - j < x /\ n - (n - j) = j  BY <1>3
  <2>2. n - j \notin B  BY <1>2, <2>1
  <2>3. QED  BY <2>1, <2>2
<1>5. QED  BY <1>3, <1>4
=============================================================================
