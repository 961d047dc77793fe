--------------------------- MODULE FrontEndProofs ---------------------------
(***************************************************************************)
(* Proofs about FrontEnd, for every text, whatever the rules of macros are *)
(* and do, and whatever the parser does: names that expansions make are    *)
(* different, and the tokens are the text.                                 *)
(***************************************************************************)
EXTENDS FrontEnd, NumberLemmas, SequenceTheorems, FiniteSetTheorems, TLAPS

-----------------------------------------------------------------------------
(* Numerals *)

\* Division by ten, as the provers need it.
LEMMA Division ==
    \A n \in Nat : n >= 10 => /\ n \div 10 \in Nat /\ n \div 10 < n
                              /\ n % 10 \in 0..9 /\ n = 10 * (n \div 10) + (n % 10)
OBVIOUS

\* Ten digits, all different.
LEMMA DigitsTyped ==
    /\ \A k \in 0..9 : DigitOf[k + 1] \in Digits
    /\ \A j, k \in 0..9 : DigitOf[j + 1] = DigitOf[k + 1] => j = k
BY DEF DigitOf, Digits

\* What a numeral is made of, given the numerals g before it.
NumeralAfter(g, n) ==
    IF n < 10 THEN <<DigitOf[n + 1]>> ELSE Append(g[n \div 10], DigitOf[(n % 10) + 1])

\* g gives the numerals up to m.
Counts(g, m) ==
    /\ g \in [0..m -> Seq(Digits)]
    /\ \A n \in 0..m : g[n] = NumeralAfter(g, n)

\* Digits behind digits are digits.
LEMMA NumeralAfterTyped ==
    ASSUME NEW n \in Nat, NEW g, \A k \in 0..n - 1 : g[k] \in Seq(Digits)
    PROVE  NumeralAfter(g, n) \in Seq(Digits)
<1>1. CASE n < 10
  <2>1. n \in 0..9  BY <1>1
  <2>2. DigitOf[n + 1] \in Digits  BY <2>1, DigitsTyped
  <2>3. QED  BY <1>1, <2>2 DEF NumeralAfter
<1>2. CASE n >= 10
  <2>1. n \div 10 \in 0..n - 1 /\ n % 10 \in 0..9  BY <1>2, Division
  <2>2. g[n \div 10] \in Seq(Digits) /\ DigitOf[(n % 10) + 1] \in Digits  BY <2>1, DigitsTyped
  <2>3. QED  BY <1>2, <2>2 DEF NumeralAfter
<1>3. QED  BY <1>1, <1>2

\* A numeral depends on smaller ones only.
LEMMA NumeralAfterSame ==
    ASSUME NEW n \in Nat, NEW g, NEW h, \A k \in 0..n - 1 : g[k] = h[k]
    PROVE  NumeralAfter(g, n) = NumeralAfter(h, n)
<1>1. n >= 10 => n \div 10 \in 0..n - 1  BY Division
<1>2. QED  BY <1>1 DEF NumeralAfter

\* There are numerals up to every number, and only one for each.
LEMMA CountsExists == \A m \in Nat : \E g : Counts(g, m)
<1> DEFINE B == {m \in Nat : ~\E g : Counts(g, m)}
<1>1. SUFFICES ASSUME B # {} PROVE FALSE  OBVIOUS
<1>0. B \subseteq Nat  OBVIOUS
<1>2. PICK x \in B : \A y \in B : x <= y
  <2> HIDE DEF B
  <2>1. QED  BY <1>0, <1>1, LeastElement
<1>3. x \in Nat /\ ~\E g : Counts(g, x)  OBVIOUS
<1>4. PICK f : \A k \in 0..x - 1 : f[k] \in Seq(Digits) /\ f[k] = NumeralAfter(f, k)
  <2>1. CASE x = 0  BY <2>1
  <2>2. CASE x > 0
    <3>1. x - 1 \in Nat /\ x - 1 < x  BY <1>3, <2>2
    <3>2. x - 1 \notin B  BY <1>2, <3>1
    <3>3. PICK f : Counts(f, x - 1)  BY <3>1, <3>2
    <3>4. QED  BY <3>3 DEF Counts
  <2>3. QED  BY <1>3, <2>1, <2>2
<1> DEFINE g == [k \in 0..x |-> IF k = x THEN NumeralAfter(f, x) ELSE f[k]]
<1>5. \A k \in 0..x - 1 : g[k] = f[k]  BY <1>3
<1>6. g[x] = NumeralAfter(f, x)  BY <1>3
<1>7. NumeralAfter(f, x) \in Seq(Digits)  BY <1>3, <1>4, NumeralAfterTyped
<1>8. g \in [0..x -> Seq(Digits)]
  <2>1. ASSUME NEW k \in 0..x  PROVE (IF k = x THEN NumeralAfter(f, x) ELSE f[k]) \in Seq(Digits)
    <3>1. k # x => k \in 0..x - 1  BY <1>3
    <3>2. QED  BY <1>4, <1>7, <3>1
  <2>2. QED  BY <2>1
<1> HIDE DEF g
<1>9. ASSUME NEW k \in 0..x  PROVE g[k] = NumeralAfter(g, k)
  <2>1. NumeralAfter(f, k) = NumeralAfter(g, k)
    <3>1. \A j \in 0..k - 1 : f[j] = g[j]  BY <1>3, <1>5
    <3>2. k \in Nat  OBVIOUS
    <3>3. QED  BY <3>1, <3>2, NumeralAfterSame
  <2>2. CASE k = x  BY <1>6, <2>1, <2>2
  <2>3. CASE k # x
    <3>1. k \in 0..x - 1  BY <1>3, <2>3
    <3>2. QED  BY <1>4, <1>5, <2>1, <3>1
  <2>4. QED  BY <2>2, <2>3
<1>10. QED  BY <1>3, <1>8, <1>9 DEF Counts

\* Numerals up to a number and up to a greater one agree.
LEMMA CountsUnique ==
    ASSUME NEW l \in Nat, NEW m \in Nat, NEW g, NEW h, Counts(g, l), Counts(h, m),
           NEW n \in Nat, n <= l, n <= m
    PROVE  g[n] = h[n]
<1> DEFINE B == {k \in 0..n : g[k] # h[k]}
<1>1. SUFFICES ASSUME B # {} PROVE FALSE  OBVIOUS
<1>0. B \subseteq Nat  OBVIOUS
<1>2. PICK x \in B : \A y \in B : x <= y
  <2> HIDE DEF B
  <2>1. QED  BY <1>0, <1>1, LeastElement
<1>3. x \in 0..n /\ g[x] # h[x]  OBVIOUS
<1>4. ASSUME NEW k \in 0..x - 1  PROVE g[k] = h[k]
  <2>1. k \in 0..n /\ k < x  BY <1>3
  <2>2. QED  BY <1>2, <2>1
<1>5. NumeralAfter(g, x) = NumeralAfter(h, x)
  <2> HIDE DEF B
  <2>1. QED  BY <1>3, <1>4, NumeralAfterSame
<1>6. g[x] = NumeralAfter(g, x) /\ h[x] = NumeralAfter(h, x)
  <2>1. x \in 0..l /\ x \in 0..m  BY <1>3
  <2>2. QED  BY <2>1 DEF Counts
<1>7. QED  BY <1>3, <1>5, <1>6

\* The numerals are what their definition says, and made of digits.
LEMMA NumeralIs ==
    \A n \in Nat : Numeral[n] \in Seq(Digits) /\ Numeral[n] = NumeralAfter(Numeral, n)
<1> DEFINE C(m) == CHOOSE g : Counts(g, m)
           F == [n \in Nat |-> C(n)[n]]
<1>1. \A m \in Nat : Counts(C(m), m)  BY CountsExists
<1> HIDE DEF C
<1>2. \A m \in Nat : \A k \in 0..m : F[k] = C(m)[k]
  <2> TAKE m \in Nat
  <2> TAKE k \in 0..m
  <2>1. k \in Nat /\ k <= k /\ k <= m  OBVIOUS
  <2>2. C(k)[k] = C(m)[k]  BY <1>1, <2>1, CountsUnique
  <2>3. QED  BY <2>1, <2>2
<1>3. ASSUME NEW n \in Nat  PROVE F[n] \in Seq(Digits) /\ F[n] = NumeralAfter(F, n)
  <2>1. Counts(C(n), n) /\ n \in 0..n  BY <1>1
  <2>2. F[n] = C(n)[n]  OBVIOUS
  <2>3. C(n)[n] \in Seq(Digits) /\ C(n)[n] = NumeralAfter(C(n), n)  BY <2>1 DEF Counts
  <2>4. \A k \in 0..n - 1 : F[k] = C(n)[k]  BY <1>2
  <2> HIDE DEF F
  <2>5. NumeralAfter(F, n) = NumeralAfter(C(n), n)  BY <2>4, NumeralAfterSame
  <2>6. QED  BY <2>2, <2>3, <2>5
<1>4. F = [n \in Nat |-> IF n < 10 THEN <<DigitOf[n + 1]>>
                         ELSE Append(F[n \div 10], DigitOf[(n % 10) + 1])]
  <2>1. \A n \in Nat : F[n] = NumeralAfter(F, n)  BY <1>3
  <2>2. F = [n \in Nat |-> F[n]]  OBVIOUS
  <2> HIDE DEF F
  <2>3. QED  BY <2>1, <2>2 DEF NumeralAfter
<1> HIDE DEF F
<1>5. Numeral = [n \in Nat |-> IF n < 10 THEN <<DigitOf[n + 1]>>
                               ELSE Append(Numeral[n \div 10], DigitOf[(n % 10) + 1])]
  BY <1>4 DEF Numeral
<1>6. \A n \in Nat : Numeral[n] = NumeralAfter(Numeral, n)  BY <1>5 DEF NumeralAfter
<1>7. \A n \in Nat : Numeral[n] = F[n]
  <2> DEFINE B == {n \in Nat : Numeral[n] # F[n]}
  <2>1. SUFFICES ASSUME B # {} PROVE FALSE  OBVIOUS
  <2>0. B \subseteq Nat  OBVIOUS
  <2>2. PICK x \in B : \A y \in B : x <= y
    <3> HIDE DEF B
    <3>1. QED  BY <2>0, <2>1, LeastElement
  <2>3. x \in Nat /\ Numeral[x] # F[x]  OBVIOUS
  <2>4. \A k \in 0..x - 1 : Numeral[k] = F[k]  BY <2>2, <2>3
  <2>5. NumeralAfter(Numeral, x) = NumeralAfter(F, x)
    <3> HIDE DEF B
    <3>1. QED  BY <2>3, <2>4, NumeralAfterSame
  <2>6. QED  BY <1>3, <1>6, <2>3, <2>5
<1>8. QED  BY <1>3, <1>6, <1>7

\* The last digit, and the numeral before it.
LEMMA OneDigit == \A n \in Nat : n < 10 => Numeral[n] = <<DigitOf[n + 1]>>
BY NumeralIs DEF NumeralAfter

\* A numeral of two digits and more.
LEMMA MoreDigits ==
    \A n \in Nat : n >= 10 => Numeral[n] = Append(Numeral[n \div 10], DigitOf[(n % 10) + 1])
<1> TAKE n \in Nat
<1> HAVE n >= 10
<1>1. Numeral[n] = NumeralAfter(Numeral, n)  BY NumeralIs
<1>2. ~(n < 10)  OBVIOUS
<1>3. QED  BY <1>1, <1>2, Zenon DEF NumeralAfter

\* No numeral is empty, and none has anything but digits.
LEMMA NumeralNonempty ==
    \A n \in Nat : Numeral[n] \in Seq(Digits) /\ Len(Numeral[n]) \in Nat /\ Len(Numeral[n]) > 0
<1> TAKE n \in Nat
<1>0. \A s \in Seq(Digits) : Len(s) \in Nat  OBVIOUS
<1>1. \A k \in Nat : Numeral[k] \in Seq(Digits)  BY NumeralIs
<1>2. CASE n < 10
  <2>1. Numeral[n] = <<DigitOf[n + 1]>>  BY <1>2, OneDigit
  <2>2. Len(<<DigitOf[n + 1]>>) = 1  OBVIOUS
  <2>3. Len(Numeral[n]) = 1  BY <2>1, <2>2
  <2>4. QED  BY <1>1, <2>3
<1>3. CASE n >= 10
  <2> DEFINE q == n \div 10  d == DigitOf[(n % 10) + 1]
  <2>1. q \in Nat /\ n % 10 \in 0..9  BY <1>3, Division
  <2>2. d \in Digits  BY <2>1, DigitsTyped
  <2>3. Numeral[n] = Append(Numeral[q], d)  BY <1>3, MoreDigits
  <2> HIDE DEF q, d
  <2>4. Numeral[q] \in Seq(Digits)  BY <1>1, <2>1
  <2>5. Len(Numeral[n]) = Len(Numeral[q]) + 1  BY <2>2, <2>3, <2>4
  <2>6. Len(Numeral[q]) \in Nat  BY <1>0, <2>4
  <2>7. QED  BY <1>1, <2>5, <2>6
<1>4. QED  BY <1>2, <1>3

\* Different numbers have different numerals.
LEMMA NumeralInjective ==
    \A m, n \in Nat : Numeral[m] = Numeral[n] => m = n
<1> DEFINE B == {m \in Nat : \E n \in Nat : Numeral[m] = Numeral[n] /\ m # n}
<1>1. SUFFICES ASSUME B # {} PROVE FALSE  OBVIOUS
<1>0. B \subseteq Nat  OBVIOUS
<1>2. PICK m \in B : \A y \in B : m <= y
  <2> HIDE DEF B
  <2>1. QED  BY <1>0, <1>1, LeastElement
<1>3. m \in Nat  OBVIOUS
<1>4. PICK n \in Nat : Numeral[m] = Numeral[n] /\ m # n  OBVIOUS
<1>5. n \in B  BY <1>3, <1>4
<1>6. m < n  BY <1>2, <1>3, <1>4, <1>5
<1>7. \A k \in Nat : Numeral[k] \in Seq(Digits)  BY NumeralIs
<1>20. \A y \in Nat : y < m => y \notin B  BY <1>2, <1>3
<1>21. \A y, z \in Nat : y < m /\ Numeral[y] = Numeral[z] => y = z  BY <1>20
<1> HIDE DEF B
<1>8. CASE n < 10
  <2>1. m \in 0..9 /\ n \in 0..9  BY <1>3, <1>6, <1>8
  <2>2. <<DigitOf[m + 1]>> = <<DigitOf[n + 1]>>  BY <1>4, <1>8, <2>1, OneDigit
  <2>3. m = n  BY <2>1, <2>2, DigitsTyped
  <2>4. QED  BY <1>4, <2>3
<1>9. CASE n >= 10
  <2> DEFINE q == n \div 10  r == n % 10
  <2>1. q \in Nat /\ r \in 0..9 /\ n = 10 * q + r  BY <1>9, Division
  <2>0. q > 0 /\ n - 1 \in Nat  BY <1>9, <2>1
  <2>2. Numeral[n] = Append(Numeral[q], DigitOf[r + 1])  BY <1>9, MoreDigits
  <2> HIDE DEF q, r
  <2>3. Numeral[q] \in Seq(Digits) /\ Len(Numeral[q]) \in Nat /\ Len(Numeral[q]) > 0  BY <2>1, NumeralNonempty
  <2>4. Len(Numeral[n]) = Len(Numeral[q]) + 1  BY <2>2, <2>3
  <2>5. m >= 10
    <3>1. SUFFICES ASSUME m < 10 PROVE FALSE  BY <1>3
    <3>4. Numeral[m] = <<DigitOf[m + 1]>>  BY <1>3, <3>1, OneDigit
    <3>5. Len(<<DigitOf[m + 1]>>) = 1  OBVIOUS
    <3>2. Len(Numeral[m]) = 1  BY <3>4, <3>5
    <3>3. Len(Numeral[n]) = 1  BY <1>4, <3>2
    <3>6. PICK l : l = Len(Numeral[q])  OBVIOUS
    <3>7. l \in Nat /\ l > 0  BY <2>3, <3>6
    <3>8. l + 1 = 1  BY <2>4, <3>3, <3>6
    <3>9. QED  BY <3>7, <3>8
  <2> DEFINE p == m \div 10  s == m % 10
  <2>6. p \in Nat /\ p < m /\ s \in 0..9 /\ m = 10 * p + s  BY <1>3, <2>5, Division
  <2>7. Numeral[m] = Append(Numeral[p], DigitOf[s + 1])  BY <1>3, <2>5, MoreDigits
  <2> HIDE DEF p, s
  <2>8. Append(Numeral[p], DigitOf[s + 1]) = Append(Numeral[q], DigitOf[r + 1])
    BY <1>4, <2>2, <2>7
  <2>9. Numeral[p] \in Seq(Digits) /\ DigitOf[s + 1] \in Digits /\ DigitOf[r + 1] \in Digits
    BY <1>7, <2>1, <2>6, DigitsTyped
  <2>10. Numeral[p] = Numeral[q] /\ DigitOf[s + 1] = DigitOf[r + 1]
    <3> DEFINE a == Numeral[p]  b == Numeral[q]  x == DigitOf[s + 1]  y == DigitOf[r + 1]
    <3>1. a \in Seq(Digits) /\ b \in Seq(Digits) /\ x \in Digits /\ y \in Digits  BY <2>3, <2>9
    <3>2. Append(a, x) = Append(b, y)  BY <2>8
    <3> HIDE DEF a, b, x, y
    <3>3. a = b /\ x = y  BY <3>1, <3>2, AppendInjective
    <3>4. QED  BY <3>3 DEF a, b, x, y
  <2>11. p = q  BY <1>21, <2>1, <2>6, <2>10
  <2>12. s = r  BY <2>1, <2>6, <2>10, DigitsTyped
  <2>13. QED  BY <1>4, <2>1, <2>6, <2>11, <2>12
<1>10. QED  BY <1>8, <1>9

-----------------------------------------------------------------------------
(* Fresh names *)

\* The mark in front of the number is no digit.
LEMMA UnderscoreNoDigit == Underscore \notin Digits
BY Zenon DEF Underscore, Digits

\* What stands where in a name, a mark and a numeral put together.
LEMMA NameParts ==
    ASSUME NEW v \in Seq(Alphabet), NEW a \in Seq(Digits)
    PROVE  LET x == v \o <<Underscore>> \o a
           IN  /\ Len(x) = Len(v) + 1 + Len(a) /\ x[Len(v) + 1] = Underscore
               /\ \A i \in 1..Len(a) : x[Len(v) + 1 + i] = a[i]
<1> DEFINE u == v \o <<Underscore>>  x == u \o a
<1>1. u \in Seq(Alphabet) /\ Len(u) = Len(v) + 1 /\ u[Len(v) + 1] = Underscore
  BY AlphabetAssumption
<1>2. a \in Seq(Alphabet)
  <2>1. Digits \subseteq Alphabet  BY AlphabetAssumption
  <2>2. QED  BY <2>1, SeqMonotonic
<1> HIDE DEF u
<1>3. Len(v) \in Nat /\ Len(u) \in Nat /\ Len(a) \in Nat  BY <1>1
<1>4. Len(x) = Len(u) + Len(a) /\ x[Len(u)] = u[Len(u)]
  <2>1. Len(u) \in 1..Len(u)  BY <1>1, <1>3
  <2>2. QED  BY <1>1, <1>2, <2>1
<1>5. ASSUME NEW i \in 1..Len(a)  PROVE x[Len(u) + i] = a[i]  BY <1>1, <1>2, <1>3
<1>6. QED  BY <1>1, <1>4, <1>5 DEF u

\* The number in a fresh name can be read back, as a numeral has no underscore.
LEMMA LaterMark ==
    ASSUME NEW v \in Seq(Alphabet), NEW w \in Seq(Alphabet), NEW a \in Seq(Digits), NEW b \in Seq(Digits),
           v \o <<Underscore>> \o a = w \o <<Underscore>> \o b
    PROVE  Len(a) >= Len(b)
<1> DEFINE x == v \o <<Underscore>> \o a
<1>1. Len(v) \in Nat /\ Len(w) \in Nat /\ Len(a) \in Nat /\ Len(b) \in Nat  OBVIOUS
<1>2. /\ Len(x) = Len(v) + 1 + Len(a) /\ x[Len(v) + 1] = Underscore
      /\ Len(x) = Len(w) + 1 + Len(b) /\ \A i \in 1..Len(b) : x[Len(w) + 1 + i] = b[i]
  BY NameParts
<1> HIDE DEF x
<1>3. SUFFICES ASSUME Len(a) < Len(b) PROVE FALSE  BY <1>1
<1>4. PICK i : i = Len(v) - Len(w)  OBVIOUS
<1>5. i \in 1..Len(b) /\ Len(w) + 1 + i = Len(v) + 1  BY <1>1, <1>2, <1>3, <1>4
<1>6. b[i] = Underscore  BY <1>2, <1>5
<1>7. b[i] \in Digits  BY <1>5
<1>8. QED  BY <1>6, <1>7, UnderscoreNoDigit

\* Two fresh names that are equal have equal numbers.
LEMMA NumberOfName ==
    ASSUME NEW v \in Seq(Alphabet), NEW w \in Seq(Alphabet), NEW m \in Nat, NEW n \in Nat,
           v \o <<Underscore>> \o Numeral[m] = w \o <<Underscore>> \o Numeral[n]
    PROVE  m = n
<1> DEFINE a == Numeral[m]  b == Numeral[n]  x == v \o <<Underscore>> \o a
<1>1. a \in Seq(Digits) /\ b \in Seq(Digits)  BY NumeralIs
<1>2. x = w \o <<Underscore>> \o b  OBVIOUS
<1>9. a = b => m = n  BY NumeralInjective
<1> HIDE DEF a, b
<1>3. Len(v) \in Nat /\ Len(w) \in Nat /\ Len(a) \in Nat /\ Len(b) \in Nat  BY <1>1
<1>4. Len(a) = Len(b)
  <2>1. Len(a) >= Len(b)  BY <1>1, <1>2, LaterMark
  <2>2. Len(b) >= Len(a)  BY <1>1, <1>2, LaterMark
  <2>3. QED  BY <1>3, <2>1, <2>2
<1>5. /\ Len(x) = Len(v) + 1 + Len(a) /\ \A i \in 1..Len(a) : x[Len(v) + 1 + i] = a[i]
      /\ Len(x) = Len(w) + 1 + Len(b) /\ \A i \in 1..Len(b) : x[Len(w) + 1 + i] = b[i]
  BY <1>1, <1>2, NameParts
<1> HIDE DEF x
<1>6. Len(v) = Len(w)  BY <1>3, <1>4, <1>5
<1>7. \A i \in 1..Len(a) : a[i] = b[i]  BY <1>4, <1>5, <1>6
<1>8. a = b  BY <1>1, <1>4, <1>7, SeqEqual
<1>10. QED  BY <1>8, <1>9

\* The numbers of two expansions within the stride differ.
LEMMA NumbersApart ==
    ASSUME NEW p \in Nat, NEW q \in Nat, NEW i \in 1..Stride, NEW j \in 1..Stride,
           p * Stride + (i - 1) = q * Stride + (j - 1)
    PROVE  p = q /\ i = j
<1>0. Stride \in Nat  BY FrontEndAssumption
<1>1. ASSUME NEW r \in Nat, NEW s \in Nat, r < s  PROVE r * Stride + Stride <= s * Stride
  <2>1. PICK k \in Nat : s = r + 1 + k  BY <1>1
  <2>2. k * Stride \in Nat  BY <1>0
  <2>3. s * Stride = r * Stride + Stride + k * Stride  BY <1>0, <2>1
  <2>4. r * Stride \in Nat  BY <1>0
  <2>5. QED  BY <1>0, <2>2, <2>3, <2>4
<1>2. p * Stride \in Nat /\ q * Stride \in Nat  BY <1>0
<1>3. ~(p < q)
  <2>1. SUFFICES ASSUME p < q PROVE FALSE  OBVIOUS
  <2>2. p * Stride + Stride <= q * Stride  BY <1>1, <2>1
  <2>3. QED  BY <1>0, <1>2, <2>2
<1>4. ~(q < p)
  <2>1. SUFFICES ASSUME q < p PROVE FALSE  OBVIOUS
  <2>2. q * Stride + Stride <= p * Stride  BY <1>1, <2>1
  <2>3. QED  BY <1>0, <1>2, <2>2
<1>5. p = q  BY <1>3, <1>4
<1>6. QED  BY <1>0, <1>2, <1>5

\* The least element that Min chooses.
LEMMA MinIs ==
    ASSUME NEW T, T \subseteq Nat, T # {}
    PROVE  Min(T) \in T /\ \A y \in T : Min(T) <= y
<1>1. \E x \in T : \A y \in T : x <= y  BY LeastElement
<1>2. QED  BY <1>1, Zenon DEF Min

\* A group is closed behind the place it is opened at.
LEMMA CloseOfLater ==
    ASSUME NEW ts, NEW i \in Nat, CloseOf(ts, i) # 0
    PROVE  CloseOf(ts, i) \in Nat /\ CloseOf(ts, i) > i
<1> DEFINE o == ts[i].t
           c == MatchingClose(o)
           ends == {j \in i + 1..Len(ts) : ts[j].t = c /\ Depth(ts, o, c, i, j) = 0}
<1>1. ends \subseteq i + 1..Len(ts)  OBVIOUS
<1>2. CloseOf(ts, i) = IF ends = {} THEN 0 ELSE Min(ends)  BY DEF CloseOf
<1> HIDE DEF ends
<1>3. ends # {} /\ CloseOf(ts, i) = Min(ends)  BY <1>2
<1>4. \A j \in ends : j \in Nat /\ j > i  BY <1>1
<1>5. Min(ends) \in ends  BY <1>3, <1>4, MinIs
<1>6. QED  BY <1>3, <1>4, <1>5

-----------------------------------------------------------------------------
(* Expansions *)

\* The names that an expansion recorded as e has made.
EntryOK(e) ==
    /\ e.pass \in Nat /\ e.place \in Nat \ {0}
    /\ \A v \in e.fresh : \E w \in LocalNames :
          v = w \o <<Underscore>> \o Numeral[e.pass * Stride + (e.place - 1)]

\* Expansions so far lie behind: in an earlier pass, or at an earlier place.
Behind ==
    /\ pos \in Nat \ {0}
    /\ \A e \in log : e.pass < pass \/ (e.pass = pass /\ e.place < pos)

\* What is known of the expansions: each is recorded once, behind where the pass is.
HInv ==
    /\ pass \in Nat
    /\ phase \in {"lex", "collect", "expand"} => pass < PassLimit
    /\ phase \in {"lex", "collect"} => log = {}
    /\ phase = "expand" => Behind
    /\ \A e \in log : EntryOK(e)
    /\ \A d, e \in log : d.pass = e.pass /\ d.place = e.place => d = e

\* No expansion has been recorded at the start.
LEMMA InitHInv == Init => HInv
BY FrontEndAssumption DEF Init, HInv

\* What is recorded of an expansion are its own place and names.
LEMMA EntryIsOK ==
    ASSUME pass \in Nat, pos \in Nat \ {0}, NEW e
    PROVE  EntryOK(Entry(e)) /\ Entry(e).pass = pass /\ Entry(e).place = pos
<1>1. /\ Entry(e).pass = pass /\ Entry(e).place = pos
      /\ Entry(e).fresh = {Fresh(tok, GensymId).v : tok \in {t \in ToSet(e.rule.replacement) : Local(t)}}
  BY DEF Entry
<1>2. ASSUME NEW v \in Entry(e).fresh
      PROVE  \E w \in LocalNames : v = w \o <<Underscore>> \o Numeral[pass * Stride + (pos - 1)]
  <2>1. PICK tok : Local(tok) /\ v = Fresh(tok, GensymId).v  BY <1>1
  <2>2. tok.v \in LocalNames /\ v = tok.v \o <<Underscore>> \o Numeral[GensymId]
    BY <2>1 DEF Local, Fresh, Token
  <2>3. QED  BY <2>2 DEF GensymId
<1>3. QED  BY <1>1, <1>2 DEF EntryOK

\* An expansion is recorded at the place it leaves behind.
LEMMA ExpandHInv == ASSUME HInv, ExpandInvocation PROVE HInv'
<1>1. /\ phase = "expand" /\ phase' = phase /\ pass' = pass
      /\ pos' = CloseOf(toks, pos + 2) + 1
  BY DEF ExpandInvocation, AtInvocation
<1>2. PICK e \in Expansion : log' = log \cup {Entry(e)}  BY DEF ExpandInvocation
<1>3. pass \in Nat /\ Behind /\ pos \in Nat \ {0} /\ pass < PassLimit
  BY <1>1 DEF HInv, Behind
<1>4. CloseOf(toks, pos + 2) # 0  BY <1>2 DEF Expansion
<1>5. pos' \in Nat \ {0} /\ pos' > pos
  <2>1. pos + 2 \in Nat  BY <1>3
  <2>2. CloseOf(toks, pos + 2) \in Nat /\ CloseOf(toks, pos + 2) > pos + 2
    BY <1>4, <2>1, CloseOfLater
  <2>3. QED  BY <1>1, <1>3, <2>2
<1>6. EntryOK(Entry(e)) /\ Entry(e).pass = pass /\ Entry(e).place = pos  BY <1>3, EntryIsOK
<1> DEFINE n == Entry(e)
<1> HIDE DEF n
<1>7. log' = log \cup {n} /\ EntryOK(n) /\ n.pass = pass /\ n.place = pos  BY <1>2, <1>6 DEF n
<1>8. \A d \in log : EntryOK(d) /\ (d.pass < pass \/ (d.pass = pass /\ d.place < pos))
  BY <1>3 DEF HInv, Behind
<1>9. Behind'
  <2>1. ASSUME NEW d \in log'  PROVE d.pass < pass \/ (d.pass = pass /\ d.place < pos')
    <3>1. CASE d \in log
      <4>1. d.pass \in Nat /\ d.place \in Nat  BY <1>8, <3>1 DEF EntryOK
      <4>2. QED  BY <1>3, <1>5, <1>8, <3>1, <4>1
    <3>2. CASE d = n  BY <1>5, <1>7, <3>2
    <3>3. QED  BY <1>7, <3>1, <3>2
  <2>2. QED  BY <1>1, <1>5, <2>1 DEF Behind
<1>10. \A d \in log' : EntryOK(d)'
  <2>1. \A d \in log' : EntryOK(d)  BY <1>7, <1>8
  <2>2. QED  BY <2>1 DEF EntryOK
<1>11. ASSUME NEW c \in log', NEW d \in log', c.pass = d.pass, c.place = d.place
       PROVE  c = d
  <2>1. ASSUME NEW x \in log  PROVE ~(x.pass = pass /\ x.place = pos)
    <3>1. x.pass \in Nat /\ x.place \in Nat  BY <1>8 DEF EntryOK
    <3>2. QED  BY <1>3, <1>8, <3>1
  <2>2. CASE c \in log /\ d \in log  BY <1>11, <2>2 DEF HInv
  <2>3. CASE c = n /\ d = n  BY <2>3
  <2>4. CASE c \in log /\ d = n  BY <1>7, <1>11, <2>1, <2>4
  <2>5. CASE c = n /\ d \in log  BY <1>7, <1>11, <2>1, <2>5
  <2>6. QED  BY <1>7, <2>2, <2>3, <2>4, <2>5
<1>12. QED  BY <1>1, <1>3, <1>9, <1>10, <1>11 DEF HInv

\* Steps after which every expansion so far is still behind.
LEMMA LogKeptHInv ==
    ASSUME HInv, log' = log, pass' \in Nat,
           phase' \in {"lex", "collect", "expand"} => pass' < PassLimit,
           phase' \in {"lex", "collect"} => phase \in {"lex", "collect"},
           phase' = "expand" => Behind'
    PROVE  HInv'
<1>1. \A e \in log' : EntryOK(e)'  BY DEF HInv, EntryOK
<1>2. QED  BY <1>1 DEF HInv

\* Copying a token leaves all expansions behind.
LEMMA CopyHInv == ASSUME HInv, CopyUnexpanded PROVE HInv'
<1>1. /\ phase = "expand" /\ phase' = phase /\ pass' = pass /\ log' = log /\ pos' = pos + 1
  BY DEF CopyUnexpanded, CopyOne
<1>2. pass \in Nat /\ pos \in Nat \ {0} /\ pass < PassLimit /\ Behind  BY <1>1 DEF HInv, Behind
<1>3. ASSUME NEW d \in log  PROVE d.pass < pass \/ (d.pass = pass /\ d.place < pos + 1)
  <2>1. d.pass \in Nat /\ d.place \in Nat  BY DEF HInv, EntryOK
  <2>2. QED  BY <1>2, <2>1 DEF Behind
<1>4. Behind'  BY <1>1, <1>2, <1>3 DEF Behind
<1>5. QED  BY <1>1, <1>2, <1>4, LogKeptHInv

\* A new pass leaves all expansions behind, unless the limit is reached.
LEMMA EndPassHInv == ASSUME HInv, EndPass PROVE HInv'
<1>1. /\ phase = "expand" /\ log' = log /\ pos' = 1
      /\ phase' = (IF LastPass THEN "parse" ELSE "expand")
      /\ pass' = Min({pass + 1, PassLimit})
  BY DEF EndPass, Enter
<1>2. pass \in Nat /\ PassLimit \in Nat /\ pass < PassLimit /\ Behind
  BY <1>1, FrontEndAssumption DEF HInv
<1>3. pass' = pass + 1
  <2>1. {pass + 1, PassLimit} \subseteq Nat  BY <1>2
  <2>2. Min({pass + 1, PassLimit}) \in {pass + 1, PassLimit}
        /\ Min({pass + 1, PassLimit}) <= pass + 1
    BY <2>1, MinIs
  <2>3. QED  BY <1>1, <1>2, <2>2
<1>4. CASE LastPass
  <2>1. phase' = "parse"  BY <1>1, <1>4
  <2>2. QED  BY <1>1, <1>2, <1>3, <2>1, LogKeptHInv
<1>5. CASE ~LastPass
  <2>1. pass' < PassLimit /\ phase' = "expand"  BY <1>1, <1>2, <1>3, <1>5 DEF LastPass
  <2>2. ASSUME NEW d \in log  PROVE d.pass < pass'
    <3>1. d.pass \in Nat  BY DEF HInv, EntryOK
    <3>2. QED  BY <1>2, <1>3, <3>1 DEF Behind
  <2>3. Behind'  BY <1>1, <2>2 DEF Behind
  <2>4. QED  BY <1>1, <1>2, <1>3, <2>1, <2>3, LogKeptHInv
<1>6. QED  BY <1>4, <1>5

\* Every step keeps what is known of the expansions.
LEMMA StepHInv == HInv /\ [Next]_vars => HInv'
<1> SUFFICES ASSUME HInv, [Next]_vars PROVE HInv'  OBVIOUS
<1>0. pass \in Nat /\ (phase \in {"lex", "collect", "expand"} => pass < PassLimit)  BY DEF HInv
<1>1. CASE ExpandInvocation  BY <1>1, ExpandHInv
<1>2. CASE CopyUnexpanded  BY <1>2, CopyHInv
<1>3. CASE EndPass  BY <1>3, EndPassHInv
<1>4. CASE ReadToken
  <2>1. phase = "lex" /\ phase' \in {"lex", "collect"} /\ log' = log /\ pass' = pass
    BY <1>4 DEF ReadToken, Enter
  <2>2. QED  BY <1>0, <2>1, LogKeptHInv
<1>5. CASE CollectDefinition
  <2>1. phase = "collect" /\ phase' = phase /\ log' = log /\ pass' = pass
    BY <1>5 DEF CollectDefinition, AtDefinition
  <2>2. QED  BY <1>0, <2>1, LogKeptHInv
<1>6. CASE CopyToken
  <2>1. phase = "collect" /\ phase' \in {"collect", "expand"} /\ log' = log /\ pass' = pass
        /\ (phase' = "expand" => pos' = 1)
    BY <1>6 DEF CopyToken, Enter
  <2>2. log = {}  BY <2>1 DEF HInv
  <2>3. phase' = "expand" => Behind'  BY <2>1, <2>2 DEF Behind
  <2>4. QED  BY <1>0, <2>1, <2>3, LogKeptHInv
<1>7. CASE Fail \/ SpinInvocation \/ ParseTurn \/ EndParse
  <2>1. phase' \in {"failed", "spinning", "parse", "parsed"} /\ log' = log /\ pass' = pass
    BY <1>7 DEF Fail, SpinInvocation, ParseTurn, EndParse
  <2>2. QED  BY <1>0, <2>1, LogKeptHInv
<1>8. CASE UNCHANGED vars
  <2>1. phase' = phase /\ log' = log /\ pass' = pass /\ pos' = pos  BY <1>8 DEF vars
  <2>2. phase' = "expand" => Behind'  BY <2>1 DEF HInv, Behind
  <2>3. QED  BY <1>0, <2>1, <2>2, LogKeptHInv
<1>9. QED
  BY <1>1, <1>2, <1>3, <1>4, <1>5, <1>6, <1>7, <1>8
  DEF Next, RejectDefinition, RejectInvocation, Stopped

\* Names of expansions at different places and passes differ.
LEMMA HInvHygienic == HInv => Hygienic
<1> SUFFICES ASSUME HInv, NEW d \in log, NEW e \in log, d # e, d.place <= Stride, e.place <= Stride,
                    NEW v \in d.fresh, v \in e.fresh
             PROVE  FALSE
  BY DEF Hygienic
<1>1. EntryOK(d) /\ EntryOK(e)  BY DEF HInv
<1>2. d.pass \in Nat /\ e.pass \in Nat /\ d.place \in 1..Stride /\ e.place \in 1..Stride
  BY <1>1, FrontEndAssumption DEF EntryOK
<1> DEFINE m == d.pass * Stride + (d.place - 1)
           n == e.pass * Stride + (e.place - 1)
<1>3. m \in Nat /\ n \in Nat
  <2>1. Stride \in Nat  BY FrontEndAssumption
  <2>2. \A a \in Nat : a * Stride \in Nat  BY <2>1
  <2>3. d.pass * Stride \in Nat /\ e.pass * Stride \in Nat  BY <1>2, <2>2
  <2>4. QED  BY <1>2, <2>3
<1>4. PICK w \in LocalNames, x \in LocalNames :
        v = w \o <<Underscore>> \o Numeral[m] /\ v = x \o <<Underscore>> \o Numeral[n]
  BY <1>1 DEF EntryOK
<1>5. m = n
  <2> HIDE DEF m, n
  <2>1. w \in Seq(Alphabet) /\ x \in Seq(Alphabet)  BY DEF LocalNames
  <2>2. w \o <<Underscore>> \o Numeral[m] = x \o <<Underscore>> \o Numeral[n]  BY <1>4
  <2>3. QED  BY <1>3, <2>1, <2>2, NumberOfName
<1>6. d.pass = e.pass /\ d.place = e.place  BY <1>2, <1>5, NumbersApart
<1>7. QED  BY <1>6 DEF HInv

\* Two expansions never make the same local name (expandMacros, Macros.cpp:419), however
\* many invocations and passes there are, whatever their macros are and expand to, as
\* long as the files have no more tokens than the stride.
THEOREM NamesStayLocal == Spec => []Hygienic
<1>1. HInv /\ [Next]_vars => HInv'  BY StepHInv
<1>2. QED  BY <1>1, InitHInv, HInvHygienic, PTL DEF Spec

-----------------------------------------------------------------------------
(* Loops *)

\* Each turn of a loop stays where it is or goes on.
GoesOn(step, n) == \A k \in 1..n : step[k] \in k..n

\* The recursive function that a loop is exists, as no turn goes back.
LEMMA LoopDefined ==
    ASSUME NEW n \in Nat, NEW step, DOMAIN step = 1..n, GoesOn(step, n)
    PROVE  \E g : g = [k \in 1..n |-> IF step[k] = k THEN k ELSE g[step[k]]]
<1> DEFINE From(g, m) == \A k \in m..n : g[k] = IF step[k] = k THEN k ELSE g[step[k]]
           T == {m \in 1..n : \E g : From(g, m)}
<1>1. ASSUME NEW m \in 1..n, \A j \in m + 1..n : j \in T  PROVE m \in T
  <2>1. PICK f : From(f, m + 1)
    <3>1. CASE m = n  BY <3>1
    <3>2. CASE m < n  BY <1>1, <3>2
    <3>3. QED  BY <3>1, <3>2
  <2> DEFINE last == IF step[m] = m THEN m ELSE f[step[m]]
             g == [k \in m..n |-> IF k = m THEN last ELSE f[k]]
  <2>2. ASSUME NEW k \in m..n  PROVE g[k] = IF step[k] = k THEN k ELSE g[step[k]]
    <3>1. step[k] \in k..n  BY DEF GoesOn
    <3>2. step[k] # k => g[step[k]] = f[step[k]]  BY <3>1
    <3>3. CASE k = m  BY <3>2, <3>3
    <3>4. CASE k # m  BY <2>1, <3>2, <3>4
    <3>5. QED  BY <3>3, <3>4
  <2> HIDE DEF g
  <2>3. QED  BY <2>2
<1>2. 1..n \subseteq T
  <2> HIDE DEF T
  <2>1. QED  BY <1>1, DownTo
<1>3. CASE n = 0
  <2>1. 1..n = {}  BY <1>3
  <2> DEFINE g == [k \in {} |-> 0]
  <2>2. g = [k \in {} |-> IF step[k] = k THEN k ELSE g[step[k]]]  OBVIOUS
  <2> HIDE DEF g
  <2>3. QED  BY <2>1, <2>2
<1>4. CASE n > 0
  <2>1. PICK f : From(f, 1)  BY <1>2, <1>4
  <2> DEFINE g == [k \in 1..n |-> f[k]]
  <2>2. ASSUME NEW k \in 1..n  PROVE g[k] = IF step[k] = k THEN k ELSE g[step[k]]
    <3>1. step[k] \in 1..n  BY DEF GoesOn
    <3>2. QED  BY <2>1, <3>1
  <2>3. g = [k \in 1..n |-> g[k]]  OBVIOUS
  <2> HIDE DEF g
  <2>4. g = [k \in 1..n |-> IF step[k] = k THEN k ELSE g[step[k]]]  BY <2>2, <2>3
  <2>5. QED  BY <2>4
<1>5. QED  BY <1>3, <1>4

\* A loop that stays at a place has ended there; else it goes on as from the next place.
LEMMA LoopIs ==
    ASSUME NEW n \in Nat, NEW step, DOMAIN step = 1..n, GoesOn(step, n), NEW i \in 1..n
    PROVE  Loop(step, i) = IF step[i] = i THEN i ELSE Loop(step, step[i])
<1> DEFINE Is(g) == g = [k \in DOMAIN step |-> IF step[k] = k THEN k ELSE g[step[k]]]
           end == CHOOSE g : Is(g)
<1>1. \E g : Is(g)  BY LoopDefined
<1>2. Is(end)
  <2> HIDE DEF Is
  <2>1. QED  BY <1>1
<1>3. \A k : Loop(step, k) = end[k]  BY DEF Loop
<1>4. end[i] = IF step[i] = i THEN i ELSE end[step[i]]
  <2> HIDE DEF end
  <2>1. QED  BY <1>2
<1> HIDE DEF end
<1>5. QED  BY <1>3, <1>4
-----------------------------------------------------------------------------
(* Searches *)

\* EndOf stops at the first character of another kind, or with the text.
LEMMA EndOfIs ==
    ASSUME NEW A, NEW s \in Seq(A), NEW i \in 1..Len(s) + 1, NEW C
    PROVE  LET e == EndOf(s, i, C)
           IN  /\ e \in i..Len(s) + 1
               /\ \A k \in i..e - 1 : s[k] \in C
               /\ e <= Len(s) => s[e] \notin C
<1> DEFINE T == {k \in i..Len(s) : s[k] \notin C} \cup {Len(s) + 1}
<1>1. Len(s) \in Nat  OBVIOUS
<1>2. T \subseteq i..Len(s) + 1 /\ Len(s) + 1 \in T  BY <1>1
<1>3. \A k \in i..Len(s) : k \in T <=> s[k] \notin C  BY <1>1
<1>4. EndOf(s, i, C) = Min(T)  BY DEF EndOf
<1> HIDE DEF T
<1>5. Min(T) \in T /\ \A k \in T : Min(T) <= k
  <2>1. T \subseteq Nat /\ T # {}  BY <1>1, <1>2
  <2>2. QED  BY <2>1, MinIs
<1>6. PICK e : e = Min(T)  OBVIOUS
<1>7. e \in i..Len(s) + 1 /\ e \in T  BY <1>2, <1>5, <1>6
<1>8. ASSUME NEW k \in i..e - 1  PROVE s[k] \in C
  <2>1. k \in i..Len(s) /\ k < e  BY <1>1, <1>7
  <2>2. k \notin T  BY <1>5, <1>6, <1>7, <2>1
  <2>3. QED  BY <1>3, <2>1, <2>2
<1>9. e <= Len(s) => s[e] \notin C
  <2>1. e <= Len(s) => e \in i..Len(s)  BY <1>1, <1>7
  <2>2. QED  BY <1>3, <1>7, <2>1
<1>10. QED  BY <1>4, <1>6, <1>7, <1>8, <1>9

\* NextChar stops at the first such character, or with the text.
LEMMA NextCharIs ==
    ASSUME NEW A, NEW s \in Seq(A), NEW i \in 1..Len(s) + 1, NEW c
    PROVE  LET e == NextChar(s, i, c)
           IN  /\ e \in i..Len(s) + 1
               /\ \A k \in i..e - 1 : s[k] # c
               /\ e <= Len(s) => s[e] = c
<1> DEFINE T == {k \in i..Len(s) : s[k] = c} \cup {Len(s) + 1}
<1>1. Len(s) \in Nat  OBVIOUS
<1>2. T \subseteq i..Len(s) + 1 /\ Len(s) + 1 \in T  BY <1>1
<1>3. \A k \in i..Len(s) : k \in T <=> s[k] = c  BY <1>1
<1>4. NextChar(s, i, c) = Min(T)  BY DEF NextChar
<1> HIDE DEF T
<1>5. Min(T) \in T /\ \A k \in T : Min(T) <= k
  <2>1. T \subseteq Nat /\ T # {}  BY <1>1, <1>2
  <2>2. QED  BY <2>1, MinIs
<1>6. PICK e : e = Min(T)  OBVIOUS
<1>7. e \in i..Len(s) + 1 /\ e \in T  BY <1>2, <1>5, <1>6
<1>8. ASSUME NEW k \in i..e - 1  PROVE s[k] # c
  <2>1. k \in i..Len(s) /\ k < e  BY <1>1, <1>7
  <2>2. k \notin T  BY <1>5, <1>6, <1>7, <2>1
  <2>3. QED  BY <1>3, <2>1, <2>2
<1>9. e <= Len(s) => s[e] = c
  <2>1. e <= Len(s) => e \in i..Len(s)  BY <1>1, <1>7
  <2>2. QED  BY <1>3, <1>7, <2>1
<1>10. QED  BY <1>4, <1>6, <1>7, <1>8, <1>9

-----------------------------------------------------------------------------
(* White space and comments *)

\* The text and how long it is.
TextOK == text \in Seq(Alphabet)

\* Two stretches of white space and comments make one.
LEMMA BlankJoins ==
    ASSUME NEW i \in Nat, NEW j \in Nat, NEW k \in Nat, i <= j, j <= k + 1,
           Blank(i, j - 1), Blank(j, k)
    PROVE  Blank(i, k)
<1>1. ASSUME NEW n \in i..k
      PROVE  \/ text[n] \in Space
             \/ \E c \in i..n : c < k /\ CommentAt(text, c) /\ \A m \in c..n : text[m] # "\n"
  <2>1. CASE n < j
    <3>1. n \in i..j - 1  BY <2>1
    <3>2. CASE text[n] \in Space  BY <3>2
    <3>3. CASE \E c \in i..n : c < j - 1 /\ CommentAt(text, c)
                                 /\ \A m \in c..n : text[m] # "\n"
      BY <3>3
    <3>4. QED  BY <3>1, <3>2, <3>3 DEF Blank
  <2>2. CASE n >= j
    <3>1. n \in j..k  BY <2>2
    <3>2. CASE text[n] \in Space  BY <3>2
    <3>3. CASE \E c \in j..n : c < k /\ CommentAt(text, c)
                                 /\ \A m \in c..n : text[m] # "\n"
      BY <3>3
    <3>4. QED  BY <3>1, <3>2, <3>3 DEF Blank
  <2>3. QED  BY <2>1, <2>2
<1>2. QED  BY <1>1 DEF Blank

\* A white space is one.
LEMMA SpaceIsBlank ==
    ASSUME NEW i \in Nat, text[i] \in Space  PROVE Blank(i, i)
BY DEF Blank

\* So is a comment, up to the end of its line.
LEMMA CommentIsBlank ==
    ASSUME TextOK, NEW i \in 1..Len(text), CommentAt(text, i)
    PROVE  LET e == NextChar(text, i, "\n")
           IN  e \in i + 2..Len(text) + 1 /\ Blank(i, e - 1)
<1> DEFINE e == NextChar(text, i, "\n")
<1>1. Len(text) \in Nat  BY DEF TextOK
<1>2. /\ e \in i..Len(text) + 1
      /\ \A k \in i..e - 1 : text[k] # "\n"
      /\ e <= Len(text) => text[e] = "\n"
  BY <1>1, NextCharIs DEF TextOK
<1> HIDE DEF e
<1>3. i < Len(text) /\ text[i] = "/" /\ text[i + 1] = "/"  BY DEF CommentAt
<1>4. "/" # "\n"  OBVIOUS
<1>5. e # i /\ e # i + 1  BY <1>1, <1>2, <1>3, <1>4
<1>6. e \in i + 2..Len(text) + 1  BY <1>1, <1>2, <1>5
<1>7. ASSUME NEW k \in i..e - 1
      PROVE  \E c \in i..k : c < e - 1 /\ CommentAt(text, c) /\ \A m \in c..k : text[m] # "\n"
  <2>1. i \in i..k /\ i < e - 1  BY <1>6
  <2>2. \A m \in i..k : text[m] # "\n"  BY <1>2
  <2>3. QED  BY <2>1, <2>2
<1>8. Blank(i, e - 1)  BY <1>7 DEF Blank
<1>9. QED  BY <1>6, <1>8 DEF e

\* A turn of the loop that skips passes a blank stretch, or is at its end.
LEMMA SkipStepIs ==
    ASSUME TextOK
    PROVE  /\ DOMAIN SkipStep(text) = 1..Len(text) + 1 /\ GoesOn(SkipStep(text), Len(text) + 1)
           /\ \A k \in 1..Len(text) + 1 :
                LET n == SkipStep(text)[k]
                IN  /\ n = k /\ k <= Len(text) => text[k] \notin Space /\ ~CommentAt(text, k)
                    /\ n # k => n > k /\ Blank(k, n - 1)
<1>1. Len(text) \in Nat  BY DEF TextOK
<1>2. DOMAIN SkipStep(text) = 1..Len(text) + 1  BY DEF SkipStep
<1>3. ASSUME NEW k \in 1..Len(text) + 1
      PROVE  LET n == SkipStep(text)[k]
             IN  /\ n \in k..Len(text) + 1
                 /\ n = k /\ k <= Len(text) => text[k] \notin Space /\ ~CommentAt(text, k)
                 /\ n # k => n > k /\ Blank(k, n - 1)
  <2> DEFINE n == SkipStep(text)[k]
  <2>1. n = IF Char(text, k) \in Space THEN k + 1
            ELSE IF CommentAt(text, k) THEN NextChar(text, k, "\n") ELSE k
    BY DEF SkipStep
  <2> HIDE DEF n
  <2>2. CASE k = Len(text) + 1
    <3>0. k \notin 1..Len(text)  BY <1>1, <2>2
    <3>1. Char(text, k) = ""  BY <3>0, Zenon DEF Char
    <3>2. Char(text, k) \notin Space  BY <3>1, Zenon DEF Space
    <3>3. ~CommentAt(text, k)  BY <1>1, <2>2 DEF CommentAt
    <3>4. n = k  BY <2>1, <3>2, <3>3
    <3>5. QED  BY <1>1, <2>2, <3>4 DEF n
  <2>3. CASE k <= Len(text)
    <3>1. k \in 1..Len(text) /\ Char(text, k) = text[k]  BY <1>1, <2>3 DEF Char
    <3>2. CASE text[k] \in Space
      <4>1. n = k + 1 /\ n - 1 = k  BY <2>1, <3>1, <3>2
      <4>2. Blank(k, n - 1)  BY <3>1, <3>2, <4>1, SpaceIsBlank
      <4>3. QED  BY <1>1, <3>1, <4>1, <4>2 DEF n
    <3>3. CASE text[k] \notin Space /\ CommentAt(text, k)
      <4>1. n = NextChar(text, k, "\n")  BY <2>1, <3>1, <3>3
      <4>2. n \in k + 2..Len(text) + 1 /\ Blank(k, n - 1)  BY <3>1, <3>3, <4>1, CommentIsBlank
      <4>3. QED  BY <1>1, <3>1, <4>2 DEF n
    <3>4. CASE text[k] \notin Space /\ ~CommentAt(text, k)
      <4>1. n = k  BY <2>1, <3>1, <3>4
      <4>2. QED  BY <1>1, <3>1, <3>4, <4>1 DEF n
    <3>5. QED  BY <3>2, <3>3, <3>4
  <2>4. QED  BY <1>1, <2>2, <2>3
<1>4. GoesOn(SkipStep(text), Len(text) + 1)  BY <1>3 DEF GoesOn
<1>5. QED  BY <1>2, <1>3, <1>4

\* Skip passes white space and comments, and all of them.
LEMMA SkipIs ==
    ASSUME TextOK, NEW p \in 1..Len(text) + 1
    PROVE  LET i == Skip(text, p)
           IN  /\ i \in p..Len(text) + 1 /\ Blank(p, i - 1)
               /\ i <= Len(text) => text[i] \notin Space /\ ~CommentAt(text, i)
<1> DEFINE n == Len(text) + 1
           step == SkipStep(text)
           Good(k) == LET i == Loop(step, k)
                      IN  /\ i \in k..n /\ Blank(k, i - 1)
                          /\ i <= Len(text) => text[i] \notin Space /\ ~CommentAt(text, i)
           T == {k \in 1..n : Good(k)}
<1>1. Len(text) \in Nat /\ n \in Nat  BY DEF TextOK
<1>2. DOMAIN step = 1..n /\ GoesOn(step, n)  BY SkipStepIs
<1>3. \A k \in 1..n : step[k] \in k..n  BY <1>2 DEF GoesOn
<1>4. \A k \in 1..n : step[k] # k => Blank(k, step[k] - 1)  BY SkipStepIs
<1>5. ASSUME NEW k \in 1..n, step[k] = k, k <= Len(text)
      PROVE  text[k] \notin Space /\ ~CommentAt(text, k)
  BY <1>5, SkipStepIs
<1> HIDE DEF n, step
<1>6. ASSUME NEW k \in 1..n, \A j \in k + 1..n : j \in T  PROVE k \in T
  <2>1. Loop(step, k) = IF step[k] = k THEN k ELSE Loop(step, step[k])  BY <1>1, <1>2, LoopIs
  <2>2. CASE step[k] = k
    <3>1. Loop(step, k) = k  BY <2>1, <2>2
    <3>2. Blank(k, k - 1)  BY DEF Blank
    <3>3. k <= Len(text) => text[k] \notin Space /\ ~CommentAt(text, k)  BY <1>5, <2>2
    <3>4. k \in k..n  BY <1>1
    <3>5. QED  BY <3>1, <3>2, <3>3, <3>4
  <2>3. CASE step[k] # k
    <3>1. PICK j : j = step[k]  OBVIOUS
    <3>2. j \in k..n /\ j # k /\ Blank(k, j - 1)  BY <1>3, <1>4, <2>3, <3>1
    <3>3. j \in k + 1..n  BY <1>1, <3>2
    <3>4. Good(j)  BY <1>6, <3>3
    <3>5. PICK i : i = Loop(step, k)  OBVIOUS
    <3>6. /\ i \in j..n /\ Blank(j, i - 1) /\ Blank(k, j - 1)
          /\ i <= Len(text) => text[i] \notin Space /\ ~CommentAt(text, i)
      BY <2>1, <2>3, <3>1, <3>2, <3>4, <3>5
    <3>7. Blank(k, i - 1)
      <4>1. k \in Nat /\ j \in Nat /\ i - 1 \in Nat /\ k <= j /\ j <= i - 1 + 1  BY <1>1, <3>3, <3>6
      <4>2. QED  BY <3>6, <4>1, BlankJoins
    <3>8. i \in k..n  BY <1>1, <3>3, <3>6
    <3>9. QED  BY <3>5, <3>6, <3>7, <3>8
  <2>4. QED  BY <2>2, <2>3
<1>7. p \in T
  <2>1. 1..n \subseteq T
    <3> HIDE DEF T
    <3>1. QED  BY <1>1, <1>6, DownTo
  <2>2. p \in 1..n  BY DEF n
  <2> HIDE DEF T
  <2>3. QED  BY <2>1, <2>2
<1>8. Good(p)  BY <1>7
<1>9. QED  BY <1>8 DEF Skip, n, step

-----------------------------------------------------------------------------
(* Strings *)

\* The two characters that count in a string differ.
LEMMA QuoteIsNoBackslash == QuoteMark # Backslash
BY Zenon DEF QuoteMark, Backslash

\* A character is escaped if the one before it is a backslash that is not.
LEMMA EscapedStep ==
    ASSUME NEW i \in Nat, NEW j \in Nat, i <= j
    PROVE  Escaped(i, j + 1) <=> text[j] = Backslash /\ ~Escaped(i, j)
<1>1. ASSUME Escaped(i, j + 1)  PROVE text[j] = Backslash /\ ~Escaped(i, j)
  <2>1. PICK n \in 1..j + 1 - i :
          /\ n % 2 = 1
          /\ \A k \in j + 1 - n..j + 1 - 1 : text[k] = Backslash
          /\ j + 1 - n > i => text[j + 1 - n - 1] # Backslash
    BY <1>1 DEF Escaped
  <2>2. text[j] = Backslash
    <3>1. j \in j + 1 - n..j + 1 - 1  OBVIOUS
    <3>2. QED  BY <2>1, <3>1
  <2>3. SUFFICES ASSUME Escaped(i, j) PROVE FALSE  BY <2>2
  <2>4. PICK m \in 1..j - i :
          /\ m % 2 = 1
          /\ \A k \in j - m..j - 1 : text[k] = Backslash
          /\ j - m > i => text[j - m - 1] # Backslash
    BY <2>3 DEF Escaped
  <2>5. n \in Nat /\ m \in Nat /\ n >= 1 /\ m >= 1 /\ n <= j + 1 - i /\ m <= j - i  OBVIOUS
  <2>6. n - 1 # m  BY <2>1, <2>4, <2>5
  <2>7. CASE m < n - 1
    <3>1. j - m > i /\ j - m - 1 \in j + 1 - n..j + 1 - 1  BY <2>5, <2>7
    <3>2. QED  BY <2>1, <2>4, <3>1
  <2>8. CASE m > n - 1
    <3>1. j + 1 - n > i /\ j + 1 - n - 1 \in j - m..j - 1  BY <2>5, <2>8
    <3>2. QED  BY <2>1, <2>4, <3>1
  <2>9. QED  BY <2>5, <2>6, <2>7, <2>8
<1>2. ASSUME text[j] = Backslash, ~Escaped(i, j)  PROVE Escaped(i, j + 1)
  <2> DEFINE D == {r \in 0..j - i : r = j - i \/ text[j - r - 1] # Backslash}
  <2>1. D \subseteq Nat /\ j - i \in D  OBVIOUS
  <2>2. PICK r \in D : \A y \in D : r <= y
    <3> HIDE DEF D
    <3>1. QED  BY <2>1, LeastElement
  <2>3. r \in 0..j - i /\ (r = j - i \/ text[j - r - 1] # Backslash)  OBVIOUS
  <2>4. ASSUME NEW k \in j - r..j - 1  PROVE text[k] = Backslash
    <3>1. PICK y : y = j - 1 - k  OBVIOUS
    <3>2. y \in 0..j - i /\ y < r /\ j - y - 1 = k  BY <2>3, <3>1
    <3>3. y \notin D
      <4> HIDE DEF D
      <4>1. r \in Nat /\ y \in Nat  BY <2>3, <3>2
      <4>2. QED  BY <2>2, <3>2, <4>1
    <3>4. text[j - y - 1] = Backslash  BY <3>2, <3>3
    <3>5. QED  BY <3>2, <3>4
  <2> HIDE DEF D
  <2>5. j - r > i => text[j - r - 1] # Backslash  BY <2>3
  <2>6. r % 2 # 1
    <3>1. SUFFICES ASSUME r % 2 = 1 PROVE FALSE  OBVIOUS
    <3>2. r \in 1..j - i  BY <2>3, <3>1
    <3>3. QED  BY <1>2, <2>4, <2>5, <3>1, <3>2 DEF Escaped
  <2>7. PICK n : n = r + 1  OBVIOUS
  <2>8. n \in 1..j + 1 - i /\ n % 2 = 1  BY <2>3, <2>6, <2>7
  <2>9. ASSUME NEW k \in j + 1 - n..j + 1 - 1  PROVE text[k] = Backslash
    <3>1. k = j \/ k \in j - r..j - 1  BY <2>3, <2>7
    <3>2. QED  BY <1>2, <2>4, <3>1
  <2>10. j + 1 - n > i => text[j + 1 - n - 1] # Backslash
    <3>1. j + 1 - n = j - r /\ j + 1 - n - 1 = j - r - 1  BY <2>3, <2>7
    <3>2. QED  BY <2>5, <3>1
  <2>11. QED  BY <2>8, <2>9, <2>10 DEF Escaped
<1>3. QED  BY <1>1, <1>2

\* The first character of a string is not escaped.
LEMMA NothingEscaped == \A i \in Nat : ~Escaped(i, i)
BY DEF Escaped

\* What a turn of the loop that reads a string passes.
LEMMA QuoteStepIs ==
    ASSUME TextOK
    PROVE  LET step == QuoteStep(text)
               n == Len(text) + 1
           IN  /\ DOMAIN step = 1..n /\ GoesOn(step, n)
               /\ \A k \in 1..n :
                    \/ step[k] = k /\ k = n
                    \/ step[k] = k /\ k < n /\ text[k] = QuoteMark
                    \/ /\ step[k] = k + 2 /\ k + 2 <= n
                       /\ text[k] = Backslash
                    \/ /\ step[k] = k + 1 /\ k < n /\ text[k] # QuoteMark
                       /\ text[k] # Backslash \/ k + 1 = n
<1> DEFINE step == QuoteStep(text)
           n == Len(text) + 1
<1>1. Len(text) \in Nat  BY DEF TextOK
<1>2. DOMAIN step = 1..n  BY DEF QuoteStep
<1>3. ASSUME NEW k \in 1..n
      PROVE  step[k] = IF k > Len(text) \/ Char(text, k) = QuoteMark THEN k
                       ELSE IF text[k] = Backslash /\ k < Len(text) THEN k + 2 ELSE k + 1
  BY DEF QuoteStep
<1>4. ASSUME NEW k \in 1..Len(text)  PROVE Char(text, k) = text[k]  BY DEF Char
<1> HIDE DEF step
<1>5. ASSUME NEW k \in 1..n
      PROVE  \/ step[k] = k /\ k = n
             \/ step[k] = k /\ k < n /\ text[k] = QuoteMark
             \/ /\ step[k] = k + 2 /\ k + 2 <= n
                /\ text[k] = Backslash
             \/ /\ step[k] = k + 1 /\ k < n /\ text[k] # QuoteMark
                /\ text[k] # Backslash \/ k + 1 = n
  <2>1. CASE k > Len(text)  BY <1>1, <1>3, <2>1
  <2>2. CASE k <= Len(text)
    <3>1. k \in 1..Len(text) /\ Char(text, k) = text[k] /\ k < n  BY <1>1, <1>4, <2>2
    <3>2. CASE text[k] = QuoteMark  BY <1>3, <3>1, <3>2
    <3>3. CASE text[k] # QuoteMark /\ text[k] = Backslash /\ k < Len(text)
      <4>1. step[k] = k + 2 /\ k + 2 <= n  BY <1>1, <1>3, <3>1, <3>3
      <4>2. QED  BY <3>3, <4>1
    <3>4. CASE text[k] # QuoteMark /\ ~(text[k] = Backslash /\ k < Len(text))
      <4>1. step[k] = k + 1  BY <1>1, <1>3, <3>1, <3>4
      <4>2. text[k] # Backslash \/ k + 1 = n  BY <1>1, <3>1, <3>4
      <4>3. QED  BY <3>1, <3>4, <4>1, <4>2
    <3>5. QED  BY <3>2, <3>3, <3>4
  <2>3. QED  BY <1>1, <2>1, <2>2
<1>6. GoesOn(step, n)
  <2>1. ASSUME NEW k \in 1..n  PROVE step[k] \in k..n  BY <1>1, <1>5
  <2>2. QED  BY <2>1 DEF GoesOn
<1>7. QED  BY <1>2, <1>5, <1>6 DEF step

\* A string ends at the first quotation mark that is not escaped, or with the text.
LEMMA QuoteIs ==
    ASSUME TextOK, NEW i \in 1..Len(text) + 1
    PROVE  LET q == Quote(text, i)
           IN  /\ q \in i..Len(text) + 1
               /\ q <= Len(text) => text[q] = QuoteMark /\ ~Escaped(i, q)
               /\ \A j \in i..q - 1 : text[j] = QuoteMark => Escaped(i, j)
<1> DEFINE n == Len(text) + 1
           step == QuoteStep(text)
           Good(k, q) == /\ q \in k..n
                         /\ q < n => text[q] = QuoteMark /\ ~Escaped(i, q)
                         /\ \A j \in k..q - 1 : text[j] = QuoteMark => Escaped(i, j)
           T == {k \in 1..n : k >= i /\ (k < n => ~Escaped(i, k)) => Good(k, Loop(step, k))}
<1>1. Len(text) \in Nat /\ n \in Nat  BY DEF TextOK
<1>2. /\ DOMAIN step = 1..n /\ GoesOn(step, n)
      /\ \A k \in 1..n :
           \/ step[k] = k /\ k = n
           \/ step[k] = k /\ k < n /\ text[k] = QuoteMark
           \/ step[k] = k + 2 /\ k + 2 <= n /\ text[k] = Backslash
           \/ /\ step[k] = k + 1 /\ k < n /\ text[k] # QuoteMark
              /\ text[k] # Backslash \/ k + 1 = n
  BY QuoteStepIs
<1>3. i \in 1..n  OBVIOUS
<1>4. Len(text) = n - 1  BY <1>1
<1> HIDE DEF n, step
<1>5. ASSUME NEW k \in 1..n, \A j \in k + 1..n : j \in T  PROVE k \in T
  <2>1. SUFFICES ASSUME k >= i, k < n => ~Escaped(i, k)  PROVE Good(k, Loop(step, k))  OBVIOUS
  <2>2. Loop(step, k) = IF step[k] = k THEN k ELSE Loop(step, step[k])  BY <1>1, <1>2, LoopIs
  <2>3. i \in Nat /\ k \in Nat  BY <1>1, <1>3
  <2>4. CASE step[k] = k
    <3>1. k = n \/ (k < n /\ text[k] = QuoteMark)  BY <1>1, <1>2, <2>3, <2>4
    <3>2. QED  BY <1>1, <2>1, <2>2, <2>3, <2>4, <3>1
  <2>5. CASE step[k] = k + 2 /\ k + 2 <= n /\ text[k] = Backslash
    <3>1. ~Escaped(i, k)  BY <1>1, <2>1, <2>3, <2>5
    <3>2. Escaped(i, k + 1)  BY <2>1, <2>3, <2>5, <3>1, EscapedStep
    <3>3. ~Escaped(i, k + 2)
      <4>1. k + 1 \in Nat /\ i <= k + 1 /\ (k + 1) + 1 = k + 2  BY <2>1, <2>3
      <4>2. Escaped(i, (k + 1) + 1) <=> text[k + 1] = Backslash /\ ~Escaped(i, k + 1)
        BY <2>3, <4>1, EscapedStep
      <4>3. QED  BY <3>2, <4>1, <4>2
    <3>4. k + 2 \in k + 1..n /\ k + 2 >= i  BY <1>1, <2>1, <2>3, <2>5
    <3>5. Good(k + 2, Loop(step, k + 2))  BY <1>5, <3>3, <3>4
    <3>6. PICK q : q = Loop(step, k)  OBVIOUS
    <3>7. Good(k + 2, q)  BY <2>2, <2>3, <2>5, <3>5, <3>6
    <3>8. ASSUME NEW j \in k..q - 1, text[j] = QuoteMark  PROVE Escaped(i, j)
      <4>1. j # k  BY <2>5, <3>8, QuoteIsNoBackslash
      <4>2. CASE j = k + 1  BY <3>2, <4>2
      <4>3. CASE j # k + 1
        <5>1. j \in k + 2..q - 1  BY <2>3, <3>7, <4>1, <4>3
        <5>2. QED  BY <3>7, <3>8, <5>1
      <4>4. QED  BY <4>2, <4>3
    <3>9. q \in k..n  BY <1>1, <2>3, <3>7
    <3>10. QED  BY <3>6, <3>7, <3>8, <3>9
  <2>6. CASE step[k] = k + 1 /\ k < n /\ text[k] # QuoteMark /\ (text[k] # Backslash \/ k + 1 = n)
    <3>1. k + 1 < n => ~Escaped(i, k + 1)
      <4>1. SUFFICES ASSUME k + 1 < n PROVE ~Escaped(i, k + 1)  OBVIOUS
      <4>2. text[k] # Backslash  BY <2>6, <4>1
      <4>3. QED  BY <2>1, <2>3, <4>2, EscapedStep
    <3>2. k + 1 \in k + 1..n /\ k + 1 >= i  BY <1>1, <2>1, <2>3, <2>6
    <3>3. Good(k + 1, Loop(step, k + 1))  BY <1>5, <3>1, <3>2
    <3>4. PICK q : q = Loop(step, k)  OBVIOUS
    <3>5. Good(k + 1, q)  BY <2>2, <2>3, <2>6, <3>3, <3>4
    <3>6. ASSUME NEW j \in k..q - 1, text[j] = QuoteMark  PROVE Escaped(i, j)
      <4>1. j # k  BY <2>6, <3>6
      <4>2. j \in k + 1..q - 1  BY <2>3, <3>5, <4>1
      <4>3. QED  BY <3>5, <3>6, <4>2
    <3>7. q \in k..n  BY <1>1, <2>3, <3>5
    <3>8. QED  BY <3>4, <3>5, <3>6, <3>7
  <2>7. QED  BY <1>2, <2>4, <2>5, <2>6
<1>6. 1..n \subseteq T
  <2> HIDE DEF T
  <2>1. QED  BY <1>1, <1>5, DownTo
<1>7. Good(i, Loop(step, i))
  <2>1. i \in T  BY <1>3, <1>6
  <2>2. ~Escaped(i, i) /\ i >= i  BY <1>1, <1>3, NothingEscaped
  <2>3. QED  BY <2>1, <2>2
<1>8. PICK q : q = Quote(text, i)  OBVIOUS
<1>9. Good(i, q)  BY <1>7, <1>8 DEF Quote, step
<1>10. q \in i..Len(text) + 1  BY <1>9 DEF n
<1>11. q <= Len(text) => text[q] = QuoteMark /\ ~Escaped(i, q)
  <2>1. q <= Len(text) => q < n  BY <1>1, <1>4, <1>10
  <2>2. QED  BY <1>9, <2>1
<1>12. QED  BY <1>8, <1>9, <1>10, <1>11

-----------------------------------------------------------------------------
(* Braces *)

\* An opening brace is no closing one.
LEMMA BracesDiffer == LeftBrace # RightBrace
BY Zenon DEF LeftBrace, RightBrace

\* Counting a character from i on: nothing before i, and one by one behind.
LEMMA CountIs ==
    ASSUME NEW c, NEW i \in Nat
    PROVE  /\ \A k \in Int : Count(text, c, i, k) \in Nat
           /\ Count(text, c, i, i - 1) = 0
           /\ \A k \in Int : i <= k + 1 =>
                Count(text, c, i, k + 1) = Count(text, c, i, k) + (IF text[k + 1] = c THEN 1 ELSE 0)
<1> DEFINE S(k) == {j \in i..k : text[j] = c}
<1>1. ASSUME NEW k \in Int  PROVE IsFiniteSet(S(k)) /\ Cardinality(S(k)) \in Nat
  <2>1. IsFiniteSet(i..k)  BY FS_Interval
  <2>2. IsFiniteSet(S(k))  BY <2>1, FS_Subset
  <2>3. QED  BY <2>2, FS_CardinalityType
<1>2. Cardinality(S(i - 1)) = 0
  <2>1. S(i - 1) = {}  OBVIOUS
  <2>2. QED  BY <2>1, FS_EmptySet
<1>3. ASSUME NEW k \in Int, i <= k + 1
      PROVE  Cardinality(S(k + 1)) = Cardinality(S(k)) + (IF text[k + 1] = c THEN 1 ELSE 0)
  <2>1. CASE text[k + 1] = c
    <3>1. S(k + 1) = S(k) \cup {k + 1} /\ k + 1 \notin S(k)  BY <1>3, <2>1
    <3>2. IsFiniteSet(S(k))  BY <1>1
    <3> HIDE DEF S
    <3>3. Cardinality(S(k + 1)) = Cardinality(S(k)) + 1  BY <3>1, <3>2, FS_AddElement
    <3>4. QED  BY <2>1, <3>3
  <2>2. CASE text[k + 1] # c
    <3>1. S(k + 1) = S(k)  BY <1>3, <2>2
    <3>2. Cardinality(S(k)) \in Nat  BY <1>1
    <3> HIDE DEF S
    <3>3. QED  BY <2>2, <3>1, <3>2
  <2>3. QED  BY <2>1, <2>2
<1>4. \A k : Count(text, c, i, k) = Cardinality(S(k))  BY DEF Count
<1> HIDE DEF S
<1>5. QED  BY <1>1, <1>2, <1>3, <1>4

\* An asm block ends at the first brace that closes one more than were opened,
\* or with the text.
LEMMA AsmEndIs ==
    ASSUME TextOK, NEW i \in 1..Len(text) + 1
    PROVE  LET n == AsmEnd(text, i)
           IN  /\ n \in i..Len(text) + 1
               /\ \A k \in i..n - 1 : Nesting(i, k) >= 0
               /\ n <= Len(text) => text[n] = RightBrace /\ Nesting(i, n - 1) = 0
<1> DEFINE T == {k \in i..Len(text) : Count(text, RightBrace, i, k) > Count(text, LeftBrace, i, k)}
                  \cup {Len(text) + 1}
<1>1. Len(text) \in Nat /\ i \in Nat  BY DEF TextOK
<1>2. T \subseteq i..Len(text) + 1 /\ Len(text) + 1 \in T  BY <1>1
<1>3. \A k \in i..Len(text) : k \in T <=> Nesting(i, k) < 0
  <2>1. ASSUME NEW k \in i..Len(text)  PROVE k \in T <=> Nesting(i, k) < 0
    <3>1. k \in T <=> Count(text, RightBrace, i, k) > Count(text, LeftBrace, i, k)  BY <1>1
    <3> HIDE DEF T
    <3>2. Count(text, RightBrace, i, k) \in Nat /\ Count(text, LeftBrace, i, k) \in Nat
      <4>1. k \in Int  BY <1>1
      <4>2. QED  BY <1>1, <4>1, CountIs
    <3>3. QED  BY <3>1, <3>2 DEF Nesting
  <2>2. QED  BY <2>1
<1>4. AsmEnd(text, i) = Min(T)  BY DEF AsmEnd
<1> HIDE DEF T
<1>5. Min(T) \in T /\ \A k \in T : Min(T) <= k
  <2>1. T \subseteq Nat /\ T # {}  BY <1>1, <1>2
  <2>2. QED  BY <2>1, MinIs
<1>6. PICK n : n = Min(T)  OBVIOUS
<1>7. n \in i..Len(text) + 1 /\ n \in T  BY <1>2, <1>5, <1>6
<1>8. \A k \in Int : Nesting(i, k) \in Int
  <2>1. ASSUME NEW k \in Int PROVE Nesting(i, k) \in Int
    <3>1. Count(text, RightBrace, i, k) \in Nat /\ Count(text, LeftBrace, i, k) \in Nat  BY <1>1, CountIs
    <3>2. QED  BY <3>1 DEF Nesting
  <2>2. QED  BY <2>1
<1>9. ASSUME NEW k \in i..n - 1  PROVE Nesting(i, k) >= 0
  <2>1. k \in i..Len(text) /\ k < n  BY <1>1, <1>7
  <2>2. k \notin T  BY <1>5, <1>6, <1>7, <2>1
  <2>3. ~(Nesting(i, k) < 0)  BY <1>3, <2>1, <2>2
  <2>4. QED  BY <1>8, <2>1, <2>3
<1>10. ASSUME n <= Len(text)  PROVE text[n] = RightBrace /\ Nesting(i, n - 1) = 0
  <2>1. n \in i..Len(text) /\ Nesting(i, n) < 0  BY <1>1, <1>3, <1>7, <1>10
  <2>2. PICK m \in Int : m = n - 1 /\ m + 1 = n /\ i <= m + 1  BY <1>1, <1>7
  <2>3. Nesting(i, m) >= 0
    <3>1. CASE m = i - 1
      <4>1. Count(text, RightBrace, i, m) = 0 /\ Count(text, LeftBrace, i, m) = 0  BY <1>1, <3>1, CountIs
      <4>2. QED  BY <4>1 DEF Nesting
    <3>2. CASE m # i - 1
      <4>1. m \in i..n - 1  BY <1>1, <1>7, <2>2, <3>2
      <4>2. QED  BY <1>9, <4>1
    <3>3. QED  BY <3>1, <3>2
  <2>4. PICK a \in Nat : a = Count(text, LeftBrace, i, m)  BY <1>1, <2>2, CountIs
  <2>5. PICK b \in Nat : b = Count(text, RightBrace, i, m)  BY <1>1, <2>2, CountIs
  <2>6. /\ Count(text, LeftBrace, i, n) = a + (IF text[n] = LeftBrace THEN 1 ELSE 0)
        /\ Count(text, RightBrace, i, n) = b + (IF text[n] = RightBrace THEN 1 ELSE 0)
    <3>1. ASSUME NEW c
          PROVE  Count(text, c, i, n) = Count(text, c, i, m) + (IF text[n] = c THEN 1 ELSE 0)
      <4>1. \A k \in Int : i <= k + 1 =>
              Count(text, c, i, k + 1) = Count(text, c, i, k) + (IF text[k + 1] = c THEN 1 ELSE 0)
        BY <1>1, CountIs
      <4>2. QED  BY <2>2, <4>1
    <3>2. QED  BY <2>4, <2>5, <3>1
  <2>7. Nesting(i, m) = a - b  BY <2>4, <2>5 DEF Nesting
  <2>8. Nesting(i, n) = a + (IF text[n] = LeftBrace THEN 1 ELSE 0) - (b + (IF text[n] = RightBrace THEN 1 ELSE 0))
    BY <2>6 DEF Nesting
  <2>9. text[n] = RightBrace  BY <2>1, <2>3, <2>7, <2>8
  <2>10. Nesting(i, m) = 0
    <3>1. text[n] # LeftBrace  BY <2>9, BracesDiffer
    <3>2. QED  BY <2>1, <2>3, <2>7, <2>8, <2>9, <3>1
  <2>11. QED  BY <2>2, <2>9, <2>10
<1>11. QED  BY <1>4, <1>6, <1>7, <1>9, <1>10

-----------------------------------------------------------------------------
(* Tokens *)

\* The types of tokens with text, and the tokens there can be.
ReadTypes ==
    Keywords \cup Pairs \cup Singles \cup {"string", "asm", "number", "id", "unknown"}

TokenSet == [t : ReadTypes \cup {"eof"}, v : Seq(Alphabet), at : Nat]

\* Token a is spelled up to some place, and up to b there is nothing else.
Follows(a, b) == \E e \in a.at..b.at : Spells(a, e) /\ Blank(e, b.at - 1)

\* The tokens of the text before p.
TokensTo(ts, p) ==
    /\ ts \in Seq(TokenSet) /\ p \in 1..Len(text) + 1
    /\ ts = <<>> => p = 1
    /\ ts # <<>> => Blank(1, ts[1].at - 1) /\ ts[Len(ts)].at < p /\ Spells(ts[Len(ts)], p)
    /\ \A k \in 1..Len(ts) - 1 : Follows(ts[k], ts[k + 1])

\* The tokens of the whole text.
AllTokens(ts) ==
    /\ ts \in Seq(TokenSet) /\ ts # <<>>
    /\ Blank(1, ts[1].at - 1)
    /\ \A k \in 1..Len(ts) - 1 : Follows(ts[k], ts[k + 1])
    /\ ts[Len(ts)].t = "eof" /\ ts[Len(ts)].at = Len(text) + 1

\* The tokens read so far are those of the text before pos.
TInv ==
    /\ TextOK
    /\ phase = "lex" => TokensTo(out, pos)
    /\ phase = "collect" => AllTokens(toks)

\* As long as the text stays, so does what it spells.
LEMMA TextKept ==
    ASSUME text' = text
    PROVE  /\ TextOK' <=> TextOK
           /\ \A i, j : Blank(i, j)' <=> Blank(i, j)
           /\ \A a, e : Spells(a, e)' <=> Spells(a, e)
           /\ \A a, b : Follows(a, b)' <=> Follows(a, b)
           /\ \A ts, p : TokensTo(ts, p)' <=> TokensTo(ts, p)
           /\ \A ts : AllTokens(ts)' <=> AllTokens(ts)
<1>1. TextOK' <=> TextOK  BY DEF TextOK
<1>2. \A i, j : Blank(i, j)' <=> Blank(i, j)  BY DEF Blank
<1>3. \A a, e : Spells(a, e)' <=> Spells(a, e)
  <2>1. \A v, i, e : SpellsString(v, i, e)' <=> SpellsString(v, i, e)
    BY DEF SpellsString, Enclosed, Escaped
  <2>2. \A i, j : Nesting(i, j)' = Nesting(i, j)  BY DEF Nesting
  <2>3. \A v, i, e : SpellsAsm(v, i, e)' <=> SpellsAsm(v, i, e)
    BY DEF SpellsAsm, Enclosed, Blank, Nesting, Count, CommentAt
  <2>4. \A v, i, e : SpellsNumber(v, i, e)' <=> SpellsNumber(v, i, e)
    BY DEF SpellsNumber, Plain, AllOf
  <2>5. \A t, v, i, e : SpellsWord(t, v, i, e)' <=> SpellsWord(t, v, i, e)
    BY DEF SpellsWord, Plain, AllOf
  <2>6. \A t, v, i, e : SpellsOperator(t, v, i, e)' <=> SpellsOperator(t, v, i, e)
    BY DEF SpellsOperator, Plain
  <2>7. QED  BY <2>1, <2>3, <2>4, <2>5, <2>6 DEF Spells
<1>4. \A a, b : Follows(a, b)' <=> Follows(a, b)  BY <1>2, <1>3 DEF Follows
<1>5. \A ts, p : TokensTo(ts, p)' <=> TokensTo(ts, p)  BY <1>2, <1>3, <1>4 DEF TokensTo
<1>6. \A ts : AllTokens(ts)' <=> AllTokens(ts)  BY <1>2, <1>4 DEF AllTokens
<1>7. QED  BY <1>1, <1>2, <1>3, <1>4, <1>5, <1>6

\* What is read at i: a token that begins there, and the place after it.
Read(f, i) ==
    /\ f.tok \in [t : ReadTypes, v : Seq(Alphabet), at : {i}]
    /\ f.next \in i + 1..Len(text) + 1
    /\ Spells(f.tok, f.next)

\* A part of the text.
LEMMA PartIs ==
    ASSUME TextOK, NEW i \in Nat, NEW e \in Nat, 1 <= i, i <= e, e <= Len(text) + 1
    PROVE  LET v == SubSeq(text, i, e - 1)
           IN  /\ v \in Seq(Alphabet) /\ Len(v) = e - i
               /\ \A k \in 1..e - i : v[k] = text[i + k - 1]
               /\ i < e => v[1] = text[i]
               /\ \A C : (\A k \in i..e - 1 : text[k] \in C) => ToSet(v) \subseteq C
<1> DEFINE v == SubSeq(text, i, e - 1)
<1>1. Len(text) \in Nat /\ \A k \in 1..Len(text) : text[k] \in Alphabet  BY DEF TextOK
<1>2. PICK m \in Int : m = e - 1  OBVIOUS
<1>3. \A k \in i..m : text[k] \in Alphabet  BY <1>1, <1>2
<1>4. /\ SubSeq(text, i, m) \in Seq(Alphabet)
      /\ Len(SubSeq(text, i, m)) = IF i <= m THEN m - i + 1 ELSE 0
      /\ \A k \in 1..m - i + 1 : SubSeq(text, i, m)[k] = text[i + k - 1]
  BY <1>3, SubSeqProperties
<1>5. v = SubSeq(text, i, m)  BY <1>2
<1> HIDE DEF v
<1>6. v \in Seq(Alphabet) /\ Len(v) = e - i /\ \A k \in 1..e - i : v[k] = text[i + k - 1]
  BY <1>2, <1>4, <1>5
<1>7. i < e => v[1] = text[i]
  <2>1. SUFFICES ASSUME i < e PROVE v[1] = text[i]  OBVIOUS
  <2>2. 1 \in 1..e - i /\ i + 1 - 1 = i  BY <2>1
  <2>3. v[1] = text[i + 1 - 1]  BY <1>6, <2>2
  <2>4. QED  BY <2>2, <2>3
<1>8. ASSUME NEW C, \A k \in i..e - 1 : text[k] \in C  PROVE ToSet(v) \subseteq C
  <2>1. DOMAIN v = 1..e - i  BY <1>6
  <2>2. ASSUME NEW k \in 1..e - i  PROVE v[k] \in C
    <3>1. i + k - 1 \in i..e - 1  OBVIOUS
    <3>2. QED  BY <1>6, <1>8, <3>1
  <2>3. QED  BY <2>1, <2>2 DEF ToSet
<1>9. QED  BY <1>6, <1>7, <1>8 DEF v

\* The types of words and operators are not those of the other tokens.
LEMMA TypesApart ==
    /\ {"string", "asm", "number", "eof"}
         \cap (Keywords \cup Pairs \cup Singles \cup {"id", "unknown"}) = {}
    /\ "eof" \notin ReadTypes
<1>1. {"string", "asm", "number", "eof"} \cap (Keywords \cup Pairs \cup Singles \cup {"id", "unknown"}) = {}
  BY Zenon DEF Keywords, TypeWords, CTypes, Pairs, Singles
<1>2. "eof" \notin {"string", "asm", "number"}  BY Zenon
<1>3. QED  BY <1>1, <1>2 DEF ReadTypes

\* A string is read as the text spells it (Lexer::getNextToken, Lexer.cpp:336-349).
LEMMA ReadStringIs ==
    ASSUME TextOK, NEW i \in 1..Len(text), text[i] = QuoteMark
    PROVE  Read(ReadString(text, i), i)
<1>1. Len(text) \in Nat  BY DEF TextOK
<1>2. PICK q : q = Quote(text, i + 1)  OBVIOUS
<1>3. /\ q \in i + 1..Len(text) + 1
      /\ q <= Len(text) => text[q] = QuoteMark /\ ~Escaped(i + 1, q)
      /\ \A j \in i + 1..q - 1 : text[j] = QuoteMark => Escaped(i + 1, j)
  <2>1. i + 1 \in 1..Len(text) + 1  BY <1>1
  <2>2. QED  BY <1>2, <2>1, QuoteIs
<1>4. PICK v : v = SubSeq(text, i + 1, q - 1)  OBVIOUS
<1>5. v \in Seq(Alphabet)
  <2>1. i + 1 \in Nat /\ q \in Nat /\ 1 <= i + 1 /\ i + 1 <= q /\ q <= Len(text) + 1  BY <1>1, <1>3
  <2>2. QED  BY <1>4, <2>1, PartIs
<1>6. PICK e : e = After(text, q)  OBVIOUS
<1>7. ReadString(text, i) = [tok |-> [t |-> "string", v |-> v, at |-> i], next |-> e]
  BY <1>2, <1>4, <1>6 DEF ReadString, Found, Token
<1>8. e \in i + 1..Len(text) + 1 /\ Enclosed(q, QuoteMark, e)
  BY <1>1, <1>3, <1>6 DEF After, Enclosed
<1>9. SpellsString(v, i, e)  BY <1>3, <1>4, <1>8 DEF SpellsString
<1>10. Spells([t |-> "string", v |-> v, at |-> i], e)  BY <1>9 DEF Spells
<1>11. QED  BY <1>5, <1>7, <1>8, <1>10 DEF Read, ReadTypes

\* So is a number (Lexer.cpp:351-358).
LEMMA ReadNumberIs ==
    ASSUME TextOK, NEW i \in 1..Len(text), text[i] \in Digits
    PROVE  Read(ReadNumber(text, i), i)
<1>1. Len(text) \in Nat  BY DEF TextOK
<1>2. PICK e : e = EndOf(text, i, Digits)  OBVIOUS
<1>3. /\ e \in i..Len(text) + 1
      /\ \A k \in i..e - 1 : text[k] \in Digits
      /\ e <= Len(text) => text[e] \notin Digits
  <2>1. i \in 1..Len(text) + 1  BY <1>1
  <2>2. QED  BY <1>2, <2>1, EndOfIs DEF TextOK
<1>4. i < e  BY <1>1, <1>3
<1>5. PICK v : v = SubSeq(text, i, e - 1)  OBVIOUS
<1>6. v \in Seq(Alphabet) /\ ToSet(v) \subseteq Digits
  <2>1. i \in Nat /\ e \in Nat /\ 1 <= i /\ i <= e /\ e <= Len(text) + 1  BY <1>1, <1>3
  <2>2. QED  BY <1>3, <1>5, <2>1, PartIs
<1>7. ReadNumber(text, i) = [tok |-> [t |-> "number", v |-> v, at |-> i], next |-> e]
  BY <1>2, <1>5 DEF ReadNumber, Found, Token
<1>8. SpellsNumber(v, i, e)  BY <1>1, <1>3, <1>4, <1>5, <1>6 DEF SpellsNumber, Plain, AllOf
<1>9. Spells([t |-> "number", v |-> v, at |-> i], e)  BY <1>8 DEF Spells
<1>10. e \in i + 1..Len(text) + 1  BY <1>1, <1>3, <1>4
<1>11. QED  BY <1>6, <1>7, <1>9, <1>10 DEF Read, ReadTypes

\* So is an operator or an unknown character (Lexer.cpp:425-502).
LEMMA ReadOperatorIs ==
    ASSUME TextOK, NEW i \in 1..Len(text), text[i] \notin Letters
    PROVE  Read(ReadOperator(text, i), i)
<1>1. Len(text) \in Nat  BY DEF TextOK
<1>2. CASE PairAt(text, i)
  <2>1. i < Len(text) /\ Joined(Two(text, i)) \in Pairs  BY <1>2 DEF PairAt
  <2>2. PICK e \in Nat : e = i + 2 /\ e - 1 = i + 1  OBVIOUS
  <2>3. PICK v : v = Two(text, i)  OBVIOUS
  <2>4. v = SubSeq(text, i, e - 1)  BY <2>2, <2>3 DEF Two
  <2>5. v \in Seq(Alphabet)
    <3>1. i \in Nat /\ 1 <= i /\ i <= e /\ e <= Len(text) + 1  BY <1>1, <2>1, <2>2
    <3>2. QED  BY <2>4, <3>1, PartIs
  <2>6. PICK t : t = Joined(v)  OBVIOUS
  <2>7. ReadOperator(text, i) = [tok |-> [t |-> t, v |-> v, at |-> i], next |-> e]
    BY <1>2, <2>2, <2>3, <2>6 DEF ReadOperator, Found, Token
  <2>8. t \in Pairs  BY <2>1, <2>3, <2>6
  <2>9. SpellsOperator(t, v, i, e)  BY <1>1, <1>2, <2>1, <2>2, <2>4, <2>6 DEF SpellsOperator, Plain
  <2>10. t \notin {"string", "asm", "number"}  BY <2>8, TypesApart
  <2>11. Spells([t |-> t, v |-> v, at |-> i], e)  BY <2>9, <2>10 DEF Spells
  <2>12. e \in i + 1..Len(text) + 1  BY <1>1, <2>1, <2>2
  <2>13. QED  BY <2>5, <2>7, <2>8, <2>11, <2>12 DEF Read, ReadTypes
<1>3. CASE ~PairAt(text, i)
  <2>1. PICK e \in Nat : e = i + 1 /\ e - 1 = i  OBVIOUS
  <2>2. PICK v : v = SubSeq(text, i, e - 1)  OBVIOUS
  <2>3. v \in Seq(Alphabet) /\ Len(v) = 1 /\ v[1] = text[i]
    <3>1. i \in Nat /\ 1 <= i /\ i <= e /\ e <= Len(text) + 1 /\ i < e /\ e - i = 1
      BY <1>1, <2>1
    <3>2. QED  BY <2>2, <3>1, PartIs
  <2>4. v = <<text[i]>>
    <3>1. text[i] \in Alphabet  BY DEF TextOK
    <3>2. PICK x \in Alphabet : x = text[i]  BY <3>1
    <3>3. <<x>> \in Seq(Alphabet) /\ Len(<<x>>) = 1 /\ <<x>>[1] = x  OBVIOUS
    <3>4. QED  BY <2>3, <3>2, <3>3, SeqEqual
  <2>5. PICK t : t = IF text[i] \in Singles THEN text[i] ELSE "unknown"  OBVIOUS
  <2>6. ReadOperator(text, i) = [tok |-> [t |-> t, v |-> v, at |-> i], next |-> e]
    BY <1>3, <2>1, <2>4, <2>5 DEF ReadOperator, Found, Token
  <2>7. t \in Singles \cup {"unknown"}  BY <2>5
  <2>8. SpellsOperator(t, v, i, e)
    BY <1>1, <1>3, <2>1, <2>2, <2>3, <2>5 DEF SpellsOperator, Plain
  <2>9. t \notin {"string", "asm", "number"}  BY <2>7, TypesApart
  <2>10. Spells([t |-> t, v |-> v, at |-> i], e)  BY <2>8, <2>9 DEF Spells
  <2>11. e \in i + 1..Len(text) + 1  BY <1>1, <2>1
  <2>12. QED  BY <2>3, <2>6, <2>7, <2>10, <2>11 DEF Read, ReadTypes
<1>4. QED  BY <1>2, <1>3

\* asm is a word of three letters.
LEMMA AsmLength == Len(Asm) = 3
BY DEF Asm

\* There is no brace behind the text.
LEMMA NoBraceAtEnd == LeftBrace # ""
BY Zenon DEF LeftBrace

\* So is an asm block, and the word asm without one (Lexer.cpp:391-420).
LEMMA ReadAsmIs ==
    ASSUME TextOK, NEW i \in 1..Len(text), text[i] \in Letters,
           NEW e \in i + 1..Len(text) + 1, SubSeq(text, i, e - 1) = Asm,
           AllOf(Asm, e, Alnum)
    PROVE  Read(ReadAsm(text, i, e), i)
<1>1. Len(text) \in Nat  BY DEF TextOK
<1>2. e = i + 3 /\ Asm \in Seq(Alphabet)
  <2>1. i \in Nat /\ e \in Nat /\ 1 <= i /\ i <= e /\ e <= Len(text) + 1  BY <1>1
  <2>2. PICK v : v = SubSeq(text, i, e - 1)  OBVIOUS
  <2>3. v \in Seq(Alphabet) /\ Len(v) = e - i  BY <2>1, <2>2, PartIs
  <2>4. v = Asm  BY <2>2
  <2>5. Len(Asm) = e - i /\ Asm \in Seq(Alphabet)  BY <2>3, <2>4
  <2>6. e - i = 3  BY <2>5, AsmLength
  <2>7. QED  BY <2>1, <2>5, <2>6
<1>3. PICK b : b = Skip(text, e)  OBVIOUS
<1>4. /\ b \in e..Len(text) + 1 /\ Blank(e, b - 1)
      /\ b <= Len(text) => text[b] \notin Space /\ ~CommentAt(text, b)
  <2>1. e \in 1..Len(text) + 1  BY <1>1
  <2>2. QED  BY <1>3, <2>1, SkipIs
<1>5. CASE Char(text, b) = LeftBrace
  <2>1. b \in i + 3..Len(text) /\ text[b] = LeftBrace
    <3>1. b \in 1..Len(text)  BY <1>5, NoBraceAtEnd DEF Char
    <3>2. QED  BY <1>1, <1>2, <1>4, <1>5, <3>1 DEF Char
  <2>2. PICK n : n = AsmEnd(text, b + 1)  OBVIOUS
  <2>3. /\ n \in b + 1..Len(text) + 1
        /\ \A k \in b + 1..n - 1 : Nesting(b + 1, k) >= 0
        /\ n <= Len(text) => text[n] = RightBrace /\ Nesting(b + 1, n - 1) = 0
    <3>1. b + 1 \in 1..Len(text) + 1  BY <1>1, <2>1
    <3>2. QED  BY <2>2, <3>1, AsmEndIs
  <2>4. PICK v : v = SubSeq(text, b + 1, n - 1)  OBVIOUS
  <2>5. v \in Seq(Alphabet)
    <3>1. b + 1 \in Nat /\ n \in Nat /\ 1 <= b + 1 /\ b + 1 <= n /\ n <= Len(text) + 1
      BY <1>1, <2>1, <2>3
    <3>2. QED  BY <2>4, <3>1, PartIs
  <2>6. PICK d : d = After(text, n)  OBVIOUS
  <2>7. ReadAsm(text, i, e) = [tok |-> [t |-> "asm", v |-> v, at |-> i], next |-> d]
    BY <1>3, <1>5, <2>2, <2>4, <2>6 DEF ReadAsm, Found, Token
  <2>8. d \in i + 1..Len(text) + 1 /\ Enclosed(n, RightBrace, d)
    BY <1>1, <2>1, <2>3, <2>6 DEF After, Enclosed
  <2>9. SpellsAsm(v, i, d)
    <3>1. i + 3 <= Len(text) /\ SubSeq(text, i, i + 2) = Asm
      <4>1. e - 1 = i + 2  BY <1>2
      <4>2. QED  BY <1>1, <2>1, <4>1
    <3>2. Blank(i + 3, b - 1)  BY <1>2, <1>4
    <3>3. QED  BY <2>1, <2>3, <2>4, <2>8, <3>1, <3>2 DEF SpellsAsm
  <2>10. Spells([t |-> "asm", v |-> v, at |-> i], d)  BY <2>9 DEF Spells
  <2>11. QED  BY <2>5, <2>7, <2>8, <2>10 DEF Read, ReadTypes
<1>6. CASE Char(text, b) # LeftBrace
  <2>1. ReadAsm(text, i, e) = [tok |-> [t |-> "unknown", v |-> Asm, at |-> i], next |-> e]
    BY <1>3, <1>6 DEF ReadAsm, Found, Token
  <2>2. SpellsWord("unknown", Asm, i, e)  BY <1>1 DEF SpellsWord, Plain
  <2>3. Spells([t |-> "unknown", v |-> Asm, at |-> i], e)  BY <2>2 DEF Spells
  <2>4. QED  BY <1>2, <2>1, <2>3 DEF Read, ReadTypes
<1>7. QED  BY <1>5, <1>6

\* So is a word (Lexer.cpp:360-423).
LEMMA ReadWordIs ==
    ASSUME TextOK, NEW i \in 1..Len(text), text[i] \in Letters
    PROVE  Read(ReadWord(text, i), i)
<1>1. Len(text) \in Nat  BY DEF TextOK
<1>2. PICK e : e = EndOf(text, i, Alnum)  OBVIOUS
<1>3. /\ e \in i..Len(text) + 1
      /\ \A k \in i..e - 1 : text[k] \in Alnum
      /\ e <= Len(text) => text[e] \notin Alnum
  <2>1. i \in 1..Len(text) + 1  BY <1>1
  <2>2. QED  BY <1>2, <2>1, EndOfIs DEF TextOK
<1>4. i < e
  <2>1. text[i] \in Alnum  BY DEF Alnum
  <2>2. QED  BY <1>1, <1>3, <2>1
<1>5. e \in i + 1..Len(text) + 1  BY <1>1, <1>3, <1>4
<1>6. PICK v : v = SubSeq(text, i, e - 1)  OBVIOUS
<1>7. v \in Seq(Alphabet) /\ ToSet(v) \subseteq Alnum
  <2>1. i \in Nat /\ e \in Nat /\ 1 <= i /\ i <= e /\ e <= Len(text) + 1  BY <1>1, <1>3
  <2>2. QED  BY <1>3, <1>6, <2>1, PartIs
<1>8. AllOf(v, e, Alnum)  BY <1>3, <1>7 DEF AllOf
<1>9. CASE v = Asm
  <2>1. ReadWord(text, i) = ReadAsm(text, i, e)  BY <1>2, <1>6, <1>9 DEF ReadWord
  <2>2. Read(ReadAsm(text, i, e), i)  BY <1>5, <1>6, <1>8, <1>9, ReadAsmIs
  <2>3. QED  BY <2>1, <2>2
<1>10. CASE v # Asm
  <2>1. PICK t : t = IF Joined(v) \in Keywords THEN Joined(v) ELSE "id"  OBVIOUS
  <2>2. ReadWord(text, i) = [tok |-> [t |-> t, v |-> v, at |-> i], next |-> e]
    BY <1>2, <1>6, <1>10, <2>1 DEF ReadWord, Found, Token
  <2>3. t \in Keywords \cup {"id"}  BY <2>1
  <2>4. SpellsWord(t, v, i, e)  BY <1>1, <1>5, <1>6, <1>8, <1>10, <2>1 DEF SpellsWord, Plain
  <2>5. t \notin {"string", "asm", "number"}  BY <2>3, TypesApart
  <2>6. Spells([t |-> t, v |-> v, at |-> i], e)  BY <2>4, <2>5 DEF Spells
  <2>7. QED  BY <1>5, <1>7, <2>2, <2>3, <2>6 DEF Read, ReadTypes
<1>11. QED  BY <1>9, <1>10

\* The next token: what is read behind white space and comments, or the end.
LEMMA NextTokenIs ==
    ASSUME TextOK, NEW p \in 1..Len(text) + 1
    PROVE  LET f == NextToken(text, p)
           IN  \E i \in p..Len(text) + 1 :
                 /\ Blank(p, i - 1)
                 /\ \/ i = Len(text) + 1 /\ f.tok = [t |-> "eof", v |-> <<>>, at |-> i]
                    \/ i <= Len(text) /\ Read(f, i)
<1>1. Len(text) \in Nat  BY DEF TextOK
<1>2. PICK i : i = Skip(text, p)  OBVIOUS
<1>3. i \in p..Len(text) + 1 /\ Blank(p, i - 1)  BY <1>2, SkipIs
<1>4. CASE i > Len(text)
  <2>1. i = Len(text) + 1  BY <1>1, <1>3, <1>4
  <2>2. NextToken(text, p) = Found("eof", <<>>, Len(text) + 1, Len(text) + 1)
    BY <1>2, <1>4 DEF NextToken
  <2>3. NextToken(text, p).tok = [t |-> "eof", v |-> <<>>, at |-> i]
    BY <2>1, <2>2 DEF Found, Token
  <2>4. QED  BY <1>3, <2>1, <2>3
<1>5. CASE i <= Len(text)
  <2>1. i \in 1..Len(text) /\ Char(text, i) = text[i] /\ ~(i > Len(text))
    <3>1. i \in 1..Len(text) /\ ~(i > Len(text))  BY <1>1, <1>3, <1>5
    <3>2. QED  BY <3>1 DEF Char
  <2>2. NextToken(text, p) =
          IF text[i] = QuoteMark THEN ReadString(text, i)
          ELSE IF text[i] \in Digits THEN ReadNumber(text, i)
          ELSE IF text[i] \in Letters THEN ReadWord(text, i)
          ELSE ReadOperator(text, i)
    BY <1>2, <2>1 DEF NextToken
  <2>3. Read(NextToken(text, p), i)
    BY <2>1, <2>2, ReadStringIs, ReadNumberIs, ReadWordIs, ReadOperatorIs
  <2>4. QED  BY <1>3, <1>5, <2>3
<1>6. QED  BY <1>1, <1>3, <1>4, <1>5

-----------------------------------------------------------------------------
(* All the tokens of a text *)

\* A token read behind the tokens so far follows the last of them.
LEMMA AppendRead ==
    ASSUME TextOK, NEW ts, NEW p, TokensTo(ts, p), NEW i \in p..Len(text) + 1, Blank(p, i - 1),
           NEW tok \in TokenSet, tok.at = i
    PROVE  LET all == Append(ts, tok)
           IN  /\ all \in Seq(TokenSet) /\ all # <<>> /\ all[Len(all)] = tok
               /\ Blank(1, all[1].at - 1)
               /\ \A k \in 1..Len(all) - 1 : Follows(all[k], all[k + 1])
<1>1. Len(text) \in Nat  BY DEF TextOK
<1>2. /\ ts \in Seq(TokenSet) /\ p \in 1..Len(text) + 1
      /\ ts = <<>> => p = 1
      /\ ts # <<>> => Blank(1, ts[1].at - 1) /\ ts[Len(ts)].at < p /\ Spells(ts[Len(ts)], p)
      /\ \A k \in 1..Len(ts) - 1 : Follows(ts[k], ts[k + 1])
  BY DEF TokensTo
<1>3. PICK all : all = Append(ts, tok)  OBVIOUS
<1>4. /\ all \in Seq(TokenSet) /\ Len(all) = Len(ts) + 1
      /\ \A k \in 1..Len(ts) : all[k] = ts[k]
      /\ all[Len(ts) + 1] = tok
  BY <1>2, <1>3, AppendProperties
<1>5. Len(ts) \in Nat  BY <1>2
<1>6. CASE ts = <<>>
  <2>1. Len(ts) = 0 /\ p = 1  BY <1>2, <1>6
  <2>2. all[1] = tok /\ Len(all) = 1  BY <1>4, <2>1
  <2>3. Blank(1, all[1].at - 1)  BY <2>1, <2>2
  <2>4. QED  BY <1>3, <1>4, <2>1, <2>2, <2>3
<1>7. CASE ts # <<>>
  <2>1. Len(ts) \in 1..Len(ts)
    <3>1. Len(ts) # 0  BY <1>2, <1>7
    <3>2. QED  BY <1>5, <3>1
  <2>2. PICK a \in TokenSet : a = ts[Len(ts)]  BY <1>2, <2>1
  <2>3. Follows(a, tok)
    <3>1. a.at \in Nat  BY DEF TokenSet
    <3>2. a.at < p /\ Spells(a, p)  BY <1>2, <1>7, <2>2
    <3>3. p \in a.at..tok.at  BY <1>1, <1>2, <3>1, <3>2
    <3>4. QED  BY <3>2, <3>3 DEF Follows
  <2>4. ASSUME NEW k \in 1..Len(ts)  PROVE Follows(all[k], all[k + 1])
    <3>1. CASE k = Len(ts)  BY <1>4, <2>2, <2>3, <3>1
    <3>2. CASE k # Len(ts)
      <4>1. k \in 1..Len(ts) - 1 /\ k + 1 \in 1..Len(ts)  BY <1>5, <3>2
      <4>2. Follows(ts[k], ts[k + 1])  BY <1>2, <4>1
      <4>3. QED  BY <1>4, <4>1, <4>2
    <3>3. QED  BY <3>1, <3>2
  <2>5. Len(all) - 1 = Len(ts) /\ all # <<>> /\ all[Len(all)] = tok  BY <1>4, <1>5
  <2>6. Blank(1, all[1].at - 1)
    <3>1. 1 \in 1..Len(ts)  BY <1>5, <2>1
    <3>2. all[1] = ts[1]  BY <1>4, <3>1
    <3>3. QED  BY <1>2, <1>7, <3>2
  <2>7. QED  BY <1>3, <1>4, <2>4, <2>5, <2>6
<1>8. QED  BY <1>6, <1>7

\* Nothing has been read at the start.
LEMMA InitTInv == Init => TInv
<1> SUFFICES ASSUME Init PROVE TInv  OBVIOUS
<1>1. TextOK  BY FrontEndAssumption DEF Init, TextOK
<1>2. Len(text) \in Nat  BY <1>1 DEF TextOK
<1>3. out = <<>> /\ pos = 1 /\ phase = "lex"  BY DEF Init
<1>4. TokensTo(<<>>, 1)
  <2>1. <<>> \in Seq(TokenSet) /\ Len(<<>>) = 0  OBVIOUS
  <2>2. 1 \in 1..Len(text) + 1  BY <1>2
  <2>3. QED  BY <2>1, <2>2 DEF TokensTo
<1>5. QED  BY <1>1, <1>3, <1>4 DEF TInv

\* Steps that read no token leave the tokens of the text alone.
LEMMA TInvKept ==
    ASSUME TInv, text' = text, phase' # "lex", phase' = "collect" => phase = "collect" /\ toks' = toks
    PROVE  TInv'
<1>1. TextOK'  BY TextKept DEF TInv
<1>2. ASSUME phase' = "collect"  PROVE AllTokens(toks)'
  <2>1. AllTokens(toks)  BY <1>2 DEF TInv
  <2>2. toks' = toks  BY <1>2
  <2>3. QED  BY <2>1, <2>2, TextKept
<1>3. QED  BY <1>1, <1>2 DEF TInv

\* A token that is read is the next one of the text.
LEMMA ReadTokenTInv == TInv /\ ReadToken => TInv'
<1> SUFFICES ASSUME TInv, ReadToken PROVE TInv'  OBVIOUS
<1>1. TextOK /\ phase = "lex" /\ TokensTo(out, pos) /\ text' = text  BY DEF TInv, ReadToken
<1>2. Len(text) \in Nat /\ pos \in 1..Len(text) + 1  BY <1>1 DEF TextOK, TokensTo
<1>3. PICK f : f = NextToken(text, pos)  OBVIOUS
<1>4. PICK i \in pos..Len(text) + 1 :
        /\ Blank(pos, i - 1)
        /\ \/ i = Len(text) + 1 /\ f.tok = [t |-> "eof", v |-> <<>>, at |-> i]
           \/ i <= Len(text) /\ Read(f, i)
  BY <1>1, <1>2, <1>3, NextTokenIs
<1>5. PICK tok : tok = f.tok  OBVIOUS
<1>6. PICK all : all = Append(out, tok)  OBVIOUS
<1>7. IF tok.t = "eof"
      THEN phase' = "collect" /\ toks' = all
      ELSE phase' = phase /\ out' = all /\ pos' = f.next
  BY <1>3, <1>5, <1>6 DEF ReadToken, Enter
<1>8. i \in Nat  BY <1>2
<1>9. CASE i = Len(text) + 1 /\ tok = [t |-> "eof", v |-> <<>>, at |-> i]
  <2>1. tok \in TokenSet /\ tok.at = i /\ tok.t = "eof"
    <3>1. <<>> \in Seq(Alphabet)  OBVIOUS
    <3>2. QED  BY <1>8, <1>9, <3>1 DEF TokenSet
  <2>2. /\ all \in Seq(TokenSet) /\ all # <<>> /\ all[Len(all)] = tok
        /\ Blank(1, all[1].at - 1)
        /\ \A k \in 1..Len(all) - 1 : Follows(all[k], all[k + 1])
    BY <1>1, <1>4, <1>6, <2>1, AppendRead
  <2>3. AllTokens(all)  BY <1>9, <2>1, <2>2 DEF AllTokens
  <2>4. phase' = "collect" /\ toks' = all  BY <1>7, <2>1
  <2>5. AllTokens(toks)'  BY <1>1, <2>3, <2>4, TextKept
  <2>6. TextOK'  BY <1>1, TextKept
  <2>7. QED  BY <2>4, <2>5, <2>6 DEF TInv
<1>10. CASE i <= Len(text) /\ Read(f, i)
  <2>1. /\ tok \in [t : ReadTypes, v : Seq(Alphabet), at : {i}]
        /\ f.next \in i + 1..Len(text) + 1 /\ Spells(tok, f.next)
    BY <1>5, <1>10 DEF Read
  <2>2. tok \in TokenSet /\ tok.at = i  BY <1>8, <2>1 DEF TokenSet
  <2>3. tok.t # "eof"  BY <2>1, TypesApart
  <2>4. /\ all \in Seq(TokenSet) /\ all # <<>> /\ all[Len(all)] = tok
        /\ Blank(1, all[1].at - 1)
        /\ \A k \in 1..Len(all) - 1 : Follows(all[k], all[k + 1])
    BY <1>1, <1>4, <1>6, <2>2, AppendRead
  <2>5. TokensTo(all, f.next)
    <3>1. f.next \in 1..Len(text) + 1 /\ tok.at < f.next  BY <1>2, <1>8, <2>1, <2>2
    <3>2. QED  BY <2>1, <2>4, <3>1 DEF TokensTo
  <2>6. phase' = "lex" /\ out' = all /\ pos' = f.next  BY <1>1, <1>7, <2>3
  <2>7. TokensTo(out, pos)'  BY <1>1, <2>5, <2>6, TextKept
  <2>8. TextOK'  BY <1>1, TextKept
  <2>9. QED  BY <2>6, <2>7, <2>8 DEF TInv
<1>11. QED  BY <1>4, <1>5, <1>9, <1>10

\* Every step keeps the tokens those of the text.
LEMMA StepTInv == TInv /\ [Next]_vars => TInv'
<1> SUFFICES ASSUME TInv, [Next]_vars PROVE TInv'  OBVIOUS
<1>1. CASE ReadToken  BY <1>1, ReadTokenTInv
<1>2. CASE CollectDefinition
  <2>1. text' = text /\ phase = "collect" /\ phase' = phase /\ toks' = toks
    BY <1>2 DEF CollectDefinition, AtDefinition
  <2>2. QED  BY <2>1, TInvKept
<1>3. CASE CopyToken
  <2>1. /\ text' = text /\ phase = "collect"
        /\ (phase' = phase /\ toks' = toks) \/ phase' = "expand"
    BY <1>3 DEF CopyToken, Enter
  <2>2. QED  BY <2>1, TInvKept
<1>4. CASE Fail \/ ExpandInvocation \/ SpinInvocation \/ CopyUnexpanded \/ EndPass \/ ParseTurn \/ EndParse
  <2>1. text' = text /\ phase' \in {"failed", "expand", "spinning", "parse", "parsed"}
    BY <1>4
    DEF Fail, ExpandInvocation, AtInvocation, SpinInvocation, CopyUnexpanded, EndPass, Enter,
        ParseTurn, EndParse
  <2>2. QED  BY <2>1, TInvKept
<1>5. CASE UNCHANGED vars
  <2>1. text' = text /\ phase' = phase /\ toks' = toks /\ out' = out /\ pos' = pos
    BY <1>5 DEF vars
  <2>2. CASE phase = "lex"
    <3>1. TextOK /\ TokensTo(out, pos)  BY <2>2 DEF TInv
    <3>2. TextOK' /\ TokensTo(out, pos)'  BY <2>1, <3>1, TextKept
    <3>3. phase' # "collect"  BY <2>1, <2>2
    <3>4. QED  BY <3>2, <3>3 DEF TInv
  <2>3. CASE phase # "lex"  BY <2>1, <2>3, TInvKept
  <2>4. QED  BY <2>2, <2>3
<1>6. QED
  BY <1>1, <1>2, <1>3, <1>4, <1>5 DEF Next, RejectDefinition, RejectInvocation, Stopped

\* All tokens of the text are a tokenisation of it.
LEMMA TInvTokenised == TInv => Tokenised
<1> SUFFICES ASSUME TInv, phase = "collect"
    PROVE  /\ Blank(1, toks[1].at - 1)
           /\ \A k \in 1..Len(toks) - 1 :
                \E e \in toks[k].at..toks[k + 1].at :
                   Spells(toks[k], e) /\ Blank(e, toks[k + 1].at - 1)
           /\ Last(toks).t = "eof" /\ Last(toks).at = Len(text) + 1
  BY DEF Tokenised
<1>1. AllTokens(toks)  BY DEF TInv
<1>2. QED  BY <1>1 DEF AllTokens, Follows, Last

\* The tokens of every text are that text: nothing is lost, read twice or made up,
\* whatever strings, comments and asm blocks contain or lack (Lexer::getNextToken).
THEOREM TokensAreText == Spec => []Tokenised
<1>1. TInv /\ [Next]_vars => TInv'  BY StepTInv
<1>2. QED  BY <1>1, InitTInv, TInvTokenised, PTL DEF Spec

-----------------------------------------------------------------------------
(* Progress *)

\* The stages one after the other.
LEMMA Stages ==
    /\ Stage("lex") = 1 /\ Stage("collect") = 2 /\ Stage("expand") = 3 /\ Stage("parse") = 4
    /\ Stage("parsed") = 5 /\ Stage("failed") = 5 /\ Stage("spinning") = 5
BY DEF Stage

PInv == HInv /\ TInv /\ pos \in Nat \ {0}

\* What a step of the front end does: it gets on, and stays at a place.
Gain ==
    \/ Stage(phase') > Stage(phase)
    \/ phase' = phase /\ pass' > pass /\ pass' <= PassLimit
    \/ phase' = phase /\ pass' = pass /\ toks' = toks /\ (phase # "parse" => pos' > pos)

\* Reading a token gets past it, and there is an end of the text.
LEMMA ReadTokenGains == ASSUME PInv, ReadToken PROVE Gain /\ pos' \in Nat \ {0}
<1>1. phase = "lex" /\ pass' = pass /\ TextOK /\ TokensTo(out, pos)
  BY DEF PInv, TInv, ReadToken
<1>2. Len(text) \in Nat /\ pos \in 1..Len(text) + 1  BY <1>1 DEF TextOK, TokensTo
<1>3. PICK f : f = NextToken(text, pos)  OBVIOUS
<1>4. IF f.tok.t = "eof" THEN phase' = "collect" /\ pos' = 1
      ELSE phase' = phase /\ toks' = toks /\ pos' = f.next
  BY <1>3 DEF ReadToken, Enter
<1>5. CASE f.tok.t = "eof"  BY <1>1, <1>4, <1>5, Stages DEF Gain
<1>6. CASE f.tok.t # "eof"
  <2>1. PICK i \in pos..Len(text) + 1 :
          \/ i = Len(text) + 1 /\ f.tok = [t |-> "eof", v |-> <<>>, at |-> i]
          \/ i <= Len(text) /\ Read(f, i)
    BY <1>1, <1>2, <1>3, NextTokenIs
  <2>2. Read(f, i)  BY <1>6, <2>1
  <2>3. f.next \in i + 1..Len(text) + 1  BY <2>2 DEF Read
  <2>4. f.next \in Nat \ {0} /\ f.next > pos  BY <1>2, <2>3
  <2>5. QED  BY <1>1, <1>4, <1>6, <2>4 DEF Gain
<1>7. QED  BY <1>5, <1>6

\* A definition is left behind at its closing brace.
LEMMA CollectDefinitionGains ==
    ASSUME PInv, CollectDefinition PROVE Gain /\ pos' \in Nat \ {0}
<1>1. /\ phase = "collect" /\ phase' = phase /\ pass' = pass /\ toks' = toks
      /\ pos' = CloseOf(toks, pos + 3) + 1 /\ Definition # {}
  BY DEF CollectDefinition, AtDefinition
<1>2. CloseOf(toks, pos + 3) # 0  BY <1>1 DEF Definition
<1>3. pos \in Nat \ {0} /\ pos + 3 \in Nat  BY DEF PInv
<1>4. CloseOf(toks, pos + 3) \in Nat /\ CloseOf(toks, pos + 3) > pos + 3
  BY <1>2, <1>3, CloseOfLater
<1>5. pos' \in Nat \ {0} /\ pos' > pos  BY <1>1, <1>3, <1>4
<1>6. QED  BY <1>1, <1>5 DEF Gain

\* An invocation is left behind at its closing parenthesis.
LEMMA ExpandInvocationGains ==
    ASSUME PInv, ExpandInvocation PROVE Gain /\ pos' \in Nat \ {0}
<1>1. /\ phase = "expand" /\ phase' = phase /\ pass' = pass /\ toks' = toks
      /\ pos' = CloseOf(toks, pos + 2) + 1 /\ Expansion # {}
  BY DEF ExpandInvocation, AtInvocation
<1>2. CloseOf(toks, pos + 2) # 0  BY <1>1 DEF Expansion
<1>3. pos \in Nat \ {0} /\ pos + 2 \in Nat  BY DEF PInv
<1>4. CloseOf(toks, pos + 2) \in Nat /\ CloseOf(toks, pos + 2) > pos + 2
  BY <1>2, <1>3, CloseOfLater
<1>5. pos' \in Nat \ {0} /\ pos' > pos  BY <1>1, <1>3, <1>4
<1>6. QED  BY <1>1, <1>5 DEF Gain

\* A pass that ends is followed by the parser, or by one of the passes allowed.
LEMMA EndPassGains == ASSUME PInv, EndPass PROVE Gain /\ pos' \in Nat \ {0}
<1>1. /\ phase = "expand" /\ pos' = 1
      /\ phase' = (IF LastPass THEN "parse" ELSE "expand")
      /\ pass' = Min({pass + 1, PassLimit})
  BY DEF EndPass, Enter
<1>2. pass \in Nat /\ PassLimit \in Nat /\ pass < PassLimit
  BY <1>1, FrontEndAssumption DEF PInv, HInv
<1>3. Min({pass + 1, PassLimit}) \in {pass + 1, PassLimit}
  <2>1. {pass + 1, PassLimit} \subseteq Nat  BY <1>2
  <2>2. QED  BY <2>1, MinIs
<1>4. pass' > pass /\ pass' <= PassLimit
  <2>1. pass' = pass + 1 \/ pass' = PassLimit  BY <1>1, <1>3
  <2>2. QED  BY <1>2, <2>1
<1>5. CASE LastPass
  <2>1. phase' = "parse"  BY <1>1, <1>5
  <2>2. QED  BY <1>1, <2>1, Stages DEF Gain
<1>6. CASE ~LastPass
  <2>1. phase' = phase  BY <1>1, <1>6
  <2>2. QED  BY <1>1, <1>4, <2>1 DEF Gain
<1>7. QED  BY <1>5, <1>6

\* So does every step.
LEMMA StepGains ==
    ASSUME PInv, Next, vars' # vars
    PROVE  Gain /\ pos' \in Nat \ {0}
<1>1. CASE ReadToken  BY <1>1, ReadTokenGains
<1>2. CASE CollectDefinition  BY <1>2, CollectDefinitionGains
<1>3. CASE ExpandInvocation  BY <1>3, ExpandInvocationGains
<1>4. CASE EndPass  BY <1>4, EndPassGains
<1>5. CASE CopyToken
  <2>1. /\ phase = "collect" /\ pass' = pass
        /\ \/ phase' = phase /\ toks' = toks /\ pos' = pos + 1
           \/ phase' = "expand" /\ pos' = 1
    BY <1>5 DEF CopyToken, CopyOne, Enter
  <2>2. pos \in Nat \ {0}  BY DEF PInv
  <2>3. CASE phase' = "expand" /\ pos' = 1  BY <2>1, <2>3, Stages DEF Gain
  <2>4. CASE phase' = phase /\ toks' = toks /\ pos' = pos + 1  BY <2>1, <2>2, <2>4 DEF Gain
  <2>5. QED  BY <2>1, <2>3, <2>4
<1>6. CASE CopyUnexpanded
  <2>1. phase' = phase /\ pass' = pass /\ toks' = toks /\ pos' = pos + 1
    BY <1>6 DEF CopyUnexpanded, CopyOne
  <2>2. pos \in Nat \ {0}  BY DEF PInv
  <2>3. QED  BY <2>1, <2>2 DEF Gain
<1>7. CASE ParseTurn
  <2>1. phase = "parse" /\ phase' = phase /\ pass' = pass /\ toks' = toks /\ pos' = pos
    BY <1>7 DEF ParseTurn
  <2>2. QED  BY <2>1 DEF Gain, PInv
<1>8. CASE RejectDefinition \/ RejectInvocation \/ SpinInvocation \/ EndParse
  <2>1. /\ phase \in {"collect", "expand", "parse"} /\ phase' \in {"parsed", "failed", "spinning"}
        /\ pos' = pos
    BY <1>8
    DEF RejectDefinition, AtDefinition, RejectInvocation, AtInvocation, Fail, SpinInvocation, EndParse
  <2>2. QED  BY <2>1, Stages DEF Gain, PInv
<1>9. CASE Stopped  BY <1>9 DEF Stopped
<1>10. QED
  BY <1>1, <1>2, <1>3, <1>4, <1>5, <1>6, <1>7, <1>8, <1>9 DEF Next

\* Places stay places.
LEMMA StepPInv == PInv /\ [Next]_vars => PInv'
<1> SUFFICES ASSUME PInv, [Next]_vars PROVE PInv'  OBVIOUS
<1>1. HInv' /\ TInv'  BY StepHInv, StepTInv DEF PInv
<1>2. pos' \in Nat \ {0}
  <2>1. CASE vars' # vars  BY <2>1, StepGains
  <2>2. CASE vars' = vars  BY <2>2 DEF vars, PInv
  <2>3. QED  BY <2>1, <2>2
<1>3. QED  BY <1>1, <1>2 DEF PInv

\* On its way to the parser the front end never stands still: each step reaches a later
\* stage, one of the passes that PassLimit allows, or a later place in what the stage
\* reads, whatever the text, its macros and their expansions are
\* (Compiler.cpp:46-56, expandMacros, Macros.cpp:399-441).
THEOREM AlwaysAdvances == Spec => Advances
<1>1. Init => PInv
  <2>1. Init => pos \in Nat \ {0}  BY DEF Init
  <2>2. QED  BY <2>1, InitHInv, InitTInv DEF PInv
<1>2. PInv /\ [Next]_vars => PInv'  BY StepPInv
<1>3. PInv /\ [Next]_vars => [Gain]_vars
  <2> SUFFICES ASSUME PInv, Next, vars' # vars PROVE Gain  OBVIOUS
  <2>1. QED  BY StepGains
<1>4. Spec => [][Gain]_vars  BY <1>1, <1>2, <1>3, PTL DEF Spec
<1>5. QED  BY <1>4, PTL DEF Advances, Gain
=============================================================================
