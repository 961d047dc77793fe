---------------------------- MODULE LinkerProofs ----------------------------
(***************************************************************************)
(* Proofs about Linker, for all objects and all sets of imported           *)
(* functions: TInv for what buildImportTable has written, turn by turn,    *)
(* LInv for the layout of the image, RInv for what references lead to.     *)
(***************************************************************************)
EXTENDS Linker, NumberLemmas, FiniteSetTheorems, TLAPS

-----------------------------------------------------------------------------
(* The import table *)

\* Rounding up to cells never goes back.
LEMMA RoundUpTo8 == ASSUME NEW x \in Nat PROVE RoundUp(x, 8) \in Nat /\ RoundUp(x, 8) >= x
BY DEF RoundUp

\* Rounding up to an even offset never goes back.
LEMMA RoundUpTo2 == ASSUME NEW x \in Nat PROVE RoundUp(x, 2) \in Nat /\ RoundUp(x, 2) >= x
BY DEF RoundUp

-----------------------------------------------------------------------------
(* The inductive invariant *)

Dlls == {imports[f] : f \in DOMAIN imports}

DllRecord ==
    [dll: Dlls, funcs: Seq(DOMAIN imports), ilt: Nat, iat: Nat, name: Nat, hints: Seq(Nat)]

\* The parts of one DLL follow each other.
PartsInOrder(d) ==
    /\ d.funcs = FunctionsOf(imports, d.dll)
    /\ d.ilt + 8 * (Len(d.funcs) + 1) <= d.iat
    /\ d.iat + 8 * (Len(d.funcs) + 1) <= d.name
    /\ Len(d.hints) <= Len(d.funcs)
    /\ \A i \in 1 .. Len(d.hints) : NameEnd(d) <= d.hints[i]
    /\ \A i, j \in 1 .. Len(d.hints) : i < j => HintEnd(d, i) <= d.hints[j]

\* All that is written of d lies below offset e.
EndsBy(d, e) == NameEnd(d) <= e /\ \A i \in 1 .. Len(d.hints) : HintEnd(d, i) <= e

TableOK ==
    /\ dlls \in Seq(DllRecord)
    /\ Len(dlls) <= Len(DllNames(imports))
    /\ DescriptorsEnd(imports) <= tableEnd
    /\ \A k \in 1 .. Len(dlls) :
          /\ dlls[k].dll = DllNames(imports)[k]
          /\ PartsInOrder(dlls[k])
          /\ DescriptorsEnd(imports) <= dlls[k].ilt
          /\ EndsBy(dlls[k], tableEnd)
    /\ \A j, k \in 1 .. Len(dlls) : j < k => EndsBy(dlls[j], dlls[k].ilt)
    /\ \A k \in 1 .. Len(dlls) - 1 : Len(dlls[k].hints) = Len(dlls[k].funcs)

TableFull ==
    /\ Len(dlls) = Len(DllNames(imports))
    /\ \A k \in 1 .. Len(dlls) : Len(dlls[k].hints) = Len(dlls[k].funcs)

TableDone == pc \in {"thunks", "headers", "layout"} \/ LaidOut

TInv ==
    /\ imports \in ImportTables
    /\ tableEnd \in Nat
    /\ pc # "done" => error = "none"
    /\ pc \in {"read", "prepare", "idata"} => dlls = <<>>
    /\ pc = "dlls" \/ TableDone => TableOK
    /\ TableDone => TableFull

-----------------------------------------------------------------------------
(* Names *)

\* s has each element of S at one place.
Lists(s, S) ==
    /\ s \in Seq(S)
    /\ \A x \in S : \E i \in DOMAIN s : s[i] = x
    /\ \A i, j \in DOMAIN s : s[i] = s[j] => i = j

\* Finitely many names that the order tells apart.
Ranked(S) ==
    /\ IsFiniteSet(S)
    /\ \A x \in S : Rank[x] \in Nat
    /\ \A x, y \in S : Rank[x] = Rank[y] => x = y

\* As many names come up to x as the place of x says: one at least, all of them at most.
LEMMA PlaceType ==
    ASSUME NEW S, Ranked(S), NEW x \in S
    PROVE  Cardinality(UpToName(S, x)) \in 1 .. Cardinality(S)
<1>1. IsFiniteSet(S) /\ UpToName(S, x) \in SUBSET S /\ x \in UpToName(S, x)
  BY DEF Ranked, UpToName
<1>2. /\ IsFiniteSet(UpToName(S, x)) /\ Cardinality(UpToName(S, x)) <= Cardinality(S)
  BY <1>1, FS_Subset
<1>3. Cardinality(S) \in Nat /\ Cardinality(UpToName(S, x)) \in Nat
  BY <1>1, <1>2, FS_CardinalityType
<1>4. Cardinality(UpToName(S, x)) # 0  BY <1>1, <1>2, FS_EmptySet
<1>5. QED  BY <1>2, <1>3, <1>4

\* No two names have one place.
LEMMA PlacesDiffer ==
    ASSUME NEW S, Ranked(S), NEW x \in S, NEW y \in S,
           Cardinality(UpToName(S, x)) = Cardinality(UpToName(S, y))
    PROVE  x = y
<1>1. ASSUME NEW v \in S, NEW w \in S, Rank[v] <= Rank[w],
             Cardinality(UpToName(S, v)) = Cardinality(UpToName(S, w))
      PROVE  v = w
  <2>1. Rank[v] \in Nat /\ Rank[w] \in Nat /\ \A z \in S : Rank[z] \in Nat
    BY DEF Ranked
  <2>2. UpToName(S, v) \in SUBSET UpToName(S, w)  BY <1>1, <2>1 DEF UpToName
  <2>3. IsFiniteSet(S) /\ UpToName(S, w) \in SUBSET S  BY DEF Ranked, UpToName
  <2>4. IsFiniteSet(UpToName(S, w))  BY <2>3, FS_Subset
  <2>5. UpToName(S, w) = UpToName(S, v)  BY <1>1, <2>2, <2>4, FS_Subset
  <2>6. w \in UpToName(S, w)  BY <2>1 DEF UpToName
  <2>7. Rank[w] <= Rank[v]  BY <2>5, <2>6 DEF UpToName
  <2>8. Rank[v] = Rank[w]  BY <1>1, <2>1, <2>7
  <2>9. QED  BY <2>8 DEF Ranked
<1>2. Rank[x] \in Nat /\ Rank[y] \in Nat  BY DEF Ranked
<1>3. CASE Rank[x] <= Rank[y]  BY <1>1, <1>3
<1>4. CASE Rank[y] <= Rank[x]
  <2>1. y = x  BY <1>1, <1>4
  <2>2. QED  BY <2>1
<1>5. QED  BY <1>2, <1>3, <1>4

\* Sorting lists each name once: as many places as names, and no two names at one of them,
\* so that no place is without a name.
LEMMA SortedLists == ASSUME NEW S, Ranked(S)  PROVE Lists(Sorted(S), S)
<1> DEFINE n == Cardinality(S)
           place == [x \in S |-> Cardinality(UpToName(S, x))]
           s == Sorted(S)
<1>1. IsFiniteSet(S) /\ n \in Nat  BY FS_CardinalityType DEF Ranked
<1>2. place \in [S -> 1 .. n]  BY PlaceType
<1>3. \A x, y \in S : place[x] = place[y] => x = y  BY PlacesDiffer
<1>4. place \in Injection(S, 1 .. n)  BY <1>2, <1>3 DEF Injection, IsInjective
<1>5. IsFiniteSet(1 .. n) /\ Cardinality(1 .. n) = n
  <2>1. 0 \in Int /\ 1 \in Int /\ n \in Int  BY <1>1
  <2>2. QED  BY <1>1, <2>1, FS_Interval
<1>6. place \in Surjection(S, 1 .. n)  BY <1>4, <1>5, FS_Injection
<1>7. \A i \in 1 .. n : \E x \in S : place[x] = i  BY <1>6 DEF Surjection
<1>8. \A i \in 1 .. n : s[i] \in S /\ place[s[i]] = i
  <2>1. TAKE i \in 1 .. n
  <2>2. \E x \in S : Cardinality(UpToName(S, x)) = i  BY <1>7
  <2>3. s[i] = CHOOSE x \in S : Cardinality(UpToName(S, x)) = i  BY DEF Sorted
  <2>4. s[i] \in S /\ Cardinality(UpToName(S, s[i])) = i
    <3> HIDE DEF s
    <3>1. QED  BY <2>2, <2>3
  <2>5. QED  BY <2>4
<1>9. DOMAIN s = 1 .. n /\ s = [i \in 1 .. n |-> s[i]]  BY DEF Sorted
<1> HIDE DEF n, place, s
<1>10. s \in Seq(S)
  <2>1. s \in [1 .. n -> S]  BY <1>8, <1>9
  <2>2. QED  BY <1>1, <2>1
<1>11. \A x \in S : \E i \in DOMAIN s : s[i] = x
  <2>1. TAKE x \in S
  <2>2. place[x] \in 1 .. n  BY <1>2
  <2>3. s[place[x]] = x  BY <1>3, <1>8, <2>2
  <2>4. QED  BY <1>9, <2>2, <2>3
<1>12. \A i, j \in DOMAIN s : s[i] = s[j] => i = j  BY <1>8, <1>9
<1>13. Lists(s, S)  BY <1>10, <1>11, <1>12 DEF Lists
<1>14. QED  BY <1>13 DEF s

\* The names of an import table are finitely many and told apart.
LEMMA NamesRanked ==
    ASSUME NEW im \in ImportTables
    PROVE  /\ Ranked(DOMAIN im)
           /\ Ranked({im[f] : f \in DOMAIN im})
           /\ \A d : Ranked({f \in DOMAIN im : im[f] = d})
<1> DEFINE D == {im[f] : f \in DOMAIN im}
           g == [f \in DOMAIN im |-> im[f]]
<1>1. IsFiniteSet(DOMAIN im)  BY ImportTablesAssumption
<1>2. Ranked(DOMAIN im)  BY <1>1, ImportTablesAssumption DEF Ranked
<1>3. IsFiniteSet(D)
  <2>1. g \in Surjection(DOMAIN im, D)  BY DEF Surjection
  <2>2. QED  BY <1>1, <2>1, FS_Surjection
<1>4. Ranked(D)  BY <1>3, ImportTablesAssumption DEF Ranked
<1>5. ASSUME NEW d  PROVE Ranked({f \in DOMAIN im : im[f] = d})
  <2>1. {f \in DOMAIN im : im[f] = d} \in SUBSET DOMAIN im  OBVIOUS
  <2>2. IsFiniteSet({f \in DOMAIN im : im[f] = d})  BY <1>1, <2>1, FS_Subset
  <2>3. QED  BY <1>2, <2>2 DEF Ranked
<1>6. QED  BY <1>2, <1>4, <1>5

\* The lists that buildImportTable and buildThunks go through have each name once.
LEMMA ListsOfNames ==
    ASSUME NEW im \in ImportTables
    PROVE  /\ Lists(Sorted(DOMAIN im), DOMAIN im)
           /\ Lists(DllNames(im), {im[f] : f \in DOMAIN im})
           /\ \A d : Lists(FunctionsOf(im, d), {f \in DOMAIN im : im[f] = d})
<1>1. Lists(Sorted(DOMAIN im), DOMAIN im)  BY NamesRanked, SortedLists
<1>2. Lists(DllNames(im), {im[f] : f \in DOMAIN im})  BY NamesRanked, SortedLists DEF DllNames
<1>3. ASSUME NEW d  PROVE Lists(FunctionsOf(im, d), {f \in DOMAIN im : im[f] = d})
  BY NamesRanked, SortedLists DEF FunctionsOf
<1>4. QED  BY <1>1, <1>2, <1>3

\* The descriptors have a size.
LEMMA DescriptorsEndType ==
    ASSUME imports \in ImportTables
    PROVE  DescriptorsEnd(imports) \in Nat
<1>1. DllNames(imports) \in Seq({imports[f] : f \in DOMAIN imports})
  BY ListsOfNames DEF Lists
<1>2. Len(DllNames(imports)) \in Nat  BY <1>1
<1>3. QED  BY <1>2 DEF DescriptorsEnd, DescriptorSize

\* The list of DLL names has each DLL once.
LEMMA DllNameTypes ==
    ASSUME imports \in ImportTables
    PROVE  /\ DllNames(imports) \in Seq(Dlls) /\ Len(DllNames(imports)) \in Nat
           /\ \A k \in 1 .. Len(DllNames(imports)) : DllNames(imports)[k] \in Dlls
           /\ Lists(DllNames(imports), Dlls)
<1>1. Lists(DllNames(imports), Dlls)  BY ListsOfNames DEF Dlls
<1>2. DllNames(imports) \in Seq(Dlls)  BY <1>1 DEF Lists
<1>3. QED  BY <1>1, <1>2

\* The list of a DLL's functions has each of them once.
LEMMA FunctionTypes ==
    ASSUME imports \in ImportTables, NEW d \in Dlls
    PROVE  /\ FunctionsOf(imports, d) \in Seq(DOMAIN imports)
           /\ Len(FunctionsOf(imports, d)) \in Nat
           /\ Lists(FunctionsOf(imports, d), {g \in DOMAIN imports : imports[g] = d})
           /\ NameSize[d] \in Nat
<1>1. PICK f \in DOMAIN imports : d = imports[f]  BY DEF Dlls
<1>2. /\ Lists(FunctionsOf(imports, d), {g \in DOMAIN imports : imports[g] = d})
      /\ NameSize[d] \in Nat
  <2>1. Lists(FunctionsOf(imports, d), {g \in DOMAIN imports : imports[g] = d})  BY ListsOfNames
  <2>2. NameSize[d] \in Nat  BY <1>1, ImportTablesAssumption
  <2>3. QED  BY <2>1, <2>2
<1>3. FunctionsOf(imports, d) \in Seq({g \in DOMAIN imports : imports[g] = d})
  BY <1>2 DEF Lists
<1>4. FunctionsOf(imports, d) \in Seq(DOMAIN imports)  BY <1>3
<1>5. QED  BY <1>2, <1>4

\* An imported name has a length.
LEMMA NameSizeType ==
    ASSUME imports \in ImportTables, NEW f \in DOMAIN imports
    PROVE  NameSize[f] \in Nat
BY ImportTablesAssumption

\* What is written of a DLL.
LEMMA DllTypes ==
    ASSUME imports \in ImportTables, NEW d \in DllRecord
    PROVE  /\ d.ilt \in Nat /\ d.iat \in Nat /\ d.name \in Nat
           /\ Len(d.funcs) \in Nat /\ Len(d.hints) \in Nat /\ d.hints \in Seq(Nat)
           /\ d.dll \in Dlls /\ NameSize[d.dll] \in Nat /\ NameEnd(d) \in Nat
           /\ \A i \in 1 .. Len(d.funcs) : d.funcs[i] \in DOMAIN imports /\ NameSize[d.funcs[i]] \in Nat
<1>1. /\ d.ilt \in Nat /\ d.iat \in Nat /\ d.name \in Nat /\ d.hints \in Seq(Nat)
      /\ d.funcs \in Seq(DOMAIN imports) /\ d.dll \in Dlls
  BY DEF DllRecord
<1>2. NameSize[d.dll] \in Nat  BY <1>1, FunctionTypes
<1>3. \A i \in 1 .. Len(d.funcs) : d.funcs[i] \in DOMAIN imports  BY <1>1
<1>4. QED  BY <1>1, <1>2, <1>3, NameSizeType DEF NameEnd

\* A function's name lies at a place and ends at one.
LEMMA HintTypes ==
    ASSUME imports \in ImportTables, NEW d \in DllRecord, Len(d.hints) <= Len(d.funcs),
           NEW i \in 1 .. Len(d.hints)
    PROVE  d.hints[i] \in Nat /\ HintEnd(d, i) \in Nat
<1>1. Len(d.hints) \in Nat /\ Len(d.funcs) \in Nat /\ d.hints \in Seq(Nat)  BY DllTypes
<1>2. i \in 1 .. Len(d.funcs) /\ d.hints[i] \in Nat  BY <1>1
<1>3. NameSize[d.funcs[i]] \in Nat  BY <1>2, DllTypes
<1>4. HintEnd(d, i) = d.hints[i] + 2 + NameSize[d.funcs[i]] + 1  BY DEF HintEnd
<1> DEFINE at == d.hints[i]
           n  == NameSize[d.funcs[i]]
<1>5. at \in Nat /\ n \in Nat  BY <1>2, <1>3
<1> HIDE DEF at, n
<1>6. at + 2 + n + 1 \in Nat  BY <1>5
<1>7. QED  BY <1>4, <1>5, <1>6 DEF at, n

-----------------------------------------------------------------------------
(* The turns of the loops *)

\* What a step that leaves the table alone keeps.
LEMMA TableUnchanged ==
    ASSUME UNCHANGED <<imports, dlls, tableEnd>>
    PROVE  (TableOK' <=> TableOK) /\ (TableFull' <=> TableFull)
BY DEF TableOK, TableFull, DllRecord, Dlls, PartsInOrder, EndsBy, NameEnd, HintEnd

\* What lies below an offset lies below each later one.
LEMMA BoundLater ==
    ASSUME imports \in ImportTables, NEW d \in DllRecord, NEW e \in Nat, NEW e2 \in Nat, e <= e2,
           EndsBy(d, e), Len(d.hints) <= Len(d.funcs)
    PROVE  EndsBy(d, e2)
<1>1. NameEnd(d) \in Nat /\ \A i \in 1 .. Len(d.hints) : HintEnd(d, i) \in Nat
  <2>1. NameEnd(d) \in Nat  BY DllTypes
  <2>2. \A i \in 1 .. Len(d.hints) : HintEnd(d, i) \in Nat  BY HintTypes
  <2>3. QED  BY <2>1, <2>2
<1>2. QED  BY <1>1 DEF EndsBy

\* One more DLL, at the end of the table.
LEMMA DllFits ==
    ASSUME imports \in ImportTables, tableEnd \in Nat, NEW n \in Dlls
    PROVE  LET d == DllLayout(n)
           IN  /\ d \in DllRecord /\ d.dll = n /\ d.hints = <<>>
               /\ tableEnd <= d.ilt /\ PartsInOrder(d)
               /\ NameEnd(d) \in Nat /\ tableEnd <= NameEnd(d) /\ EndsBy(d, NameEnd(d))
<1> DEFINE fs  == FunctionsOf(imports, n)
           ilt == RoundUp(tableEnd, 8)
           iat == RoundUp(ilt + 8 * (Len(fs) + 1), 8)
           d   == DllLayout(n)
<1>1. /\ fs \in Seq(DOMAIN imports) /\ Len(fs) \in Nat /\ NameSize[n] \in Nat
  BY FunctionTypes
<1>2. ilt \in Nat /\ ilt >= tableEnd  BY RoundUpTo8
<1>3. /\ d.dll = n /\ d.funcs = fs /\ d.ilt = ilt /\ d.iat = iat
      /\ d.name = iat + 8 * (Len(fs) + 1) /\ d.hints = <<>>
      /\ d = [dll |-> n, funcs |-> fs, ilt |-> ilt, iat |-> iat,
              name |-> iat + 8 * (Len(fs) + 1), hints |-> <<>>]
  BY DEF DllLayout
<1> HIDE DEF fs, ilt, d
<1>4. iat \in Nat /\ iat >= ilt + 8 * (Len(fs) + 1)
  <2>1. ilt + 8 * (Len(fs) + 1) \in Nat  BY <1>1, <1>2
  <2>2. QED  BY <2>1, RoundUpTo8
<1> HIDE DEF iat
<1>5. iat + 8 * (Len(fs) + 1) \in Nat /\ iat + 8 * (Len(fs) + 1) >= iat  BY <1>1, <1>4
<1>6. d \in DllRecord
  <2>1. <<>> \in Seq(Nat)  OBVIOUS
  <2>2. QED  BY <1>1, <1>2, <1>3, <1>4, <1>5, <2>1 DEF DllRecord
<1>7. PartsInOrder(d)
  <2>1. d.funcs = FunctionsOf(imports, d.dll)  BY <1>3 DEF fs
  <2>2. Len(d.hints) = 0  BY <1>3
  <2>3. QED  BY <1>1, <1>2, <1>3, <1>4, <1>5, <2>1, <2>2 DEF PartsInOrder
<1>8. NameEnd(d) \in Nat /\ tableEnd <= NameEnd(d) /\ EndsBy(d, NameEnd(d))
  <2>1. NameEnd(d) = iat + 8 * (Len(fs) + 1) + NameSize[n] + 1  BY <1>3 DEF NameEnd
  <2>2. Len(d.hints) = 0  BY <1>3
  <2>3. NameEnd(d) \in Nat /\ tableEnd <= NameEnd(d)  BY <1>1, <1>2, <1>4, <1>5, <2>1
  <2>4. QED  BY <2>2, <2>3 DEF EndsBy
<1>9. QED  BY <1>2, <1>3, <1>6, <1>7, <1>8 DEF d

\* Starting the next DLL keeps the table's parts in order.
LEMMA AddDllTInv == TInv /\ AddDll => TInv'
<1> SUFFICES ASSUME TInv, AddDll PROVE TInv'  OBVIOUS
<1> DEFINE n == DllNames(imports)[Len(dlls) + 1]
           d == DllLayout(n)
           k == Len(dlls)
<1>1. imports \in ImportTables /\ tableEnd \in Nat /\ TableOK /\ pc = "dlls"
  BY DEF TInv, AddDll
<1>2. dlls \in Seq(DllRecord) /\ k \in Nat /\ Len(DllNames(imports)) \in Nat
      /\ Len(dlls) < Len(DllNames(imports)) /\ DescriptorsEnd(imports) \in Nat
  BY <1>1, DllNameTypes, DescriptorsEndType DEF TableOK, AddDll
<1>3. n \in Dlls  BY <1>1, <1>2, DllNameTypes
<1>4. /\ d \in DllRecord /\ d.dll = n /\ d.hints = <<>> /\ tableEnd <= d.ilt /\ PartsInOrder(d)
      /\ NameEnd(d) \in Nat /\ tableEnd <= NameEnd(d) /\ EndsBy(d, NameEnd(d))
  <2> HIDE DEF n
  <2>1. QED  BY <1>1, <1>3, DllFits
<1>5. /\ dlls' = Append(dlls, d) /\ tableEnd' = NameEnd(d)
      /\ UNCHANGED <<pc, imports, error>>
  BY DEF AddDll, input, NameEnd
<1>6. NamesWritten  BY DEF AddDll
<1> HIDE DEF n, d
<1>7. /\ dlls' \in Seq(DllRecord) /\ Len(dlls') = k + 1 /\ dlls'[k + 1] = d
      /\ \A i \in 1 .. k : dlls'[i] = dlls[i]
  BY <1>2, <1>4, <1>5
<1>8. DllRecord' = DllRecord /\ Dlls' = Dlls /\ DllNames(imports)' = DllNames(imports)
      /\ DescriptorsEnd(imports)' = DescriptorsEnd(imports)
  BY <1>5 DEF DllRecord, Dlls
<1>9. ASSUME NEW i \in 1 .. k
      PROVE  /\ dlls[i] \in DllRecord /\ dlls[i].dll = DllNames(imports)[i]
             /\ PartsInOrder(dlls[i]) /\ DescriptorsEnd(imports) <= dlls[i].ilt
             /\ EndsBy(dlls[i], tableEnd)
             /\ Len(dlls[i].hints) <= Len(dlls[i].funcs)
  BY <1>1, <1>2 DEF TableOK, PartsInOrder
<1>10. ASSUME NEW i \in 1 .. k
       PROVE  EndsBy(dlls[i], NameEnd(d)) /\ EndsBy(dlls[i], d.ilt)
  <2>1. d.ilt \in Nat  BY <1>4 DEF DllRecord
  <2>2. EndsBy(dlls[i], tableEnd) /\ dlls[i] \in DllRecord /\ Len(dlls[i].hints) <= Len(dlls[i].funcs)
    BY <1>9
  <2>3. QED  BY <1>1, <1>4, <2>1, <2>2, BoundLater
<1>11. ASSUME NEW i \in 1 .. k + 1
       PROVE  /\ dlls'[i].dll = DllNames(imports)[i]
              /\ PartsInOrder(dlls'[i]) /\ DescriptorsEnd(imports) <= dlls'[i].ilt
              /\ EndsBy(dlls'[i], NameEnd(d))
  <2>1. CASE i = k + 1
    <3>1. d.ilt \in Nat /\ DescriptorsEnd(imports) <= tableEnd
      BY <1>1, <1>4 DEF DllRecord, TableOK
    <3>2. DescriptorsEnd(imports) <= d.ilt  BY <1>1, <1>2, <1>4, <3>1
    <3>3. QED  BY <1>4, <1>7, <2>1, <3>2 DEF n
  <2>2. CASE i \in 1 .. k  BY <1>7, <1>9, <1>10, <2>2
  <2>3. QED  BY <1>2, <2>1, <2>2
<1>12. ASSUME NEW i \in 1 .. k + 1, NEW j \in 1 .. k + 1, i < j
       PROVE  EndsBy(dlls'[i], dlls'[j].ilt)
  <2>1. i \in 1 .. k  BY <1>2, <1>12
  <2>2. CASE j = k + 1  BY <1>7, <1>10, <2>1, <2>2
  <2>3. CASE j \in 1 .. k
    <3>1. EndsBy(dlls[i], dlls[j].ilt)  BY <1>1, <1>12, <2>1, <2>3 DEF TableOK
    <3>2. QED  BY <1>7, <2>1, <2>3, <3>1
  <2>4. QED  BY <1>2, <2>2, <2>3
<1>13. ASSUME NEW i \in 1 .. k  PROVE Len(dlls'[i].hints) = Len(dlls'[i].funcs)
  <2>1. CASE i = k
    <3>1. dlls # <<>> /\ Last(dlls) = dlls[k]  BY <1>2, <2>1 DEF Last
    <3>2. QED  BY <1>6, <1>7, <2>1, <3>1 DEF NamesWritten
  <2>2. CASE i \in 1 .. k - 1
    <3>1. Len(dlls[i].hints) = Len(dlls[i].funcs)  BY <1>1, <2>2 DEF TableOK
    <3>2. QED  BY <1>7, <3>1
  <2>3. QED  BY <1>2, <2>1, <2>2
<1>14. TableOK'
  <2>1. DescriptorsEnd(imports) <= tableEnd'
    BY <1>1, <1>2, <1>4, <1>5 DEF TableOK
  <2>2. k + 1 <= Len(DllNames(imports)) /\ k + 1 - 1 = k  BY <1>2
  <2>3. \A i \in 1 .. k + 1 : (PartsInOrder(dlls[i]))' <=> PartsInOrder(dlls'[i])
    BY <1>5 DEF PartsInOrder, NameEnd, HintEnd
  <2>4. QED
    BY <1>2, <1>5, <1>7, <1>8, <1>11, <1>12, <1>13, <2>1, <2>2, <2>3
    DEF TableOK, EndsBy, NameEnd, HintEnd
<1>15. QED
  BY <1>1, <1>4, <1>5, <1>14 DEF TInv, TableDone, LaidOut

\* One more name of the last DLL.
LEMMA NameFits ==
    ASSUME imports \in ImportTables, tableEnd \in Nat, NEW d \in DllRecord, PartsInOrder(d),
           EndsBy(d, tableEnd), Len(d.hints) < Len(d.funcs)
    PROVE  LET at == RoundUp(tableEnd, 2)
               m  == Len(d.hints) + 1
               d2 == [d EXCEPT !.hints = Append(@, at)]
           IN  /\ d2 \in DllRecord /\ d2.dll = d.dll /\ d2.ilt = d.ilt
               /\ PartsInOrder(d2)
               /\ HintEnd(d2, m) \in Nat /\ tableEnd <= HintEnd(d2, m) /\ EndsBy(d2, HintEnd(d2, m))
<1> DEFINE at == RoundUp(tableEnd, 2)
           m  == Len(d.hints) + 1
           d2 == [d EXCEPT !.hints = Append(@, at)]
<1>1. at \in Nat /\ at >= tableEnd  BY RoundUpTo2
<1>2. /\ d.ilt \in Nat /\ d.iat \in Nat /\ d.name \in Nat /\ NameEnd(d) \in Nat
      /\ Len(d.funcs) \in Nat /\ Len(d.hints) \in Nat /\ d.hints \in Seq(Nat)
      /\ \A i \in 1 .. Len(d.funcs) : NameSize[d.funcs[i]] \in Nat
  BY DllTypes
<1>3. m \in 1 .. Len(d.funcs)  BY <1>2
<1> HIDE DEF at
<1>4. /\ d2.dll = d.dll /\ d2.funcs = d.funcs /\ d2.ilt = d.ilt /\ d2.iat = d.iat
      /\ d2.name = d.name /\ d2.hints = Append(d.hints, at)
  BY DEF DllRecord
<1>5. d2 \in DllRecord
  <2>1. Append(d.hints, at) \in Seq(Nat)  BY <1>1, <1>2
  <2>2. QED  BY <2>1 DEF DllRecord
<1> HIDE DEF d2
<1>6. /\ Len(d2.hints) = m /\ d2.hints[m] = at
      /\ \A i \in 1 .. Len(d.hints) : d2.hints[i] = d.hints[i]
  BY <1>1, <1>2, <1>4
<1>7. HintEnd(d2, m) = at + 2 + NameSize[d.funcs[m]] + 1  BY <1>4, <1>6 DEF HintEnd
<1>8. HintEnd(d2, m) \in Nat /\ at <= HintEnd(d2, m) /\ tableEnd <= HintEnd(d2, m)
  <2> DEFINE z == NameSize[d.funcs[m]]
  <2>1. z \in Nat /\ tableEnd \in Nat  BY <1>2, <1>3
  <2>2. HintEnd(d2, m) = at + 2 + z + 1  BY <1>7
  <2> HIDE DEF z
  <2>3. QED  BY <1>1, <2>1, <2>2
<1>9. NameEnd(d2) = NameEnd(d)  BY <1>4 DEF NameEnd
<1>10. ASSUME NEW i \in 1 .. Len(d.hints)
       PROVE  /\ HintEnd(d2, i) = HintEnd(d, i) /\ HintEnd(d2, i) \in Nat
              /\ HintEnd(d2, i) <= tableEnd
  <2>1. HintEnd(d2, i) = HintEnd(d, i)  BY <1>4, <1>6 DEF HintEnd
  <2>2. Len(d.hints) <= Len(d.funcs)  BY DEF PartsInOrder
  <2>3. HintEnd(d, i) \in Nat  BY <2>2, HintTypes
  <2>4. HintEnd(d, i) <= tableEnd  BY DEF EndsBy
  <2>5. QED  BY <2>1, <2>3, <2>4
<1>11. PartsInOrder(d2)
  <2>1. ASSUME NEW i \in 1 .. m  PROVE NameEnd(d) <= d2.hints[i]
    <3>1. CASE i = m
      <4>1. NameEnd(d) <= tableEnd  BY DEF EndsBy
      <4>2. QED  BY <1>1, <1>2, <1>6, <3>1, <4>1
    <3>2. CASE i \in 1 .. Len(d.hints)  BY <1>6, <3>2 DEF PartsInOrder
    <3>3. QED  BY <1>2, <3>1, <3>2
  <2>2. ASSUME NEW i \in 1 .. m, NEW j \in 1 .. m, i < j  PROVE HintEnd(d2, i) <= d2.hints[j]
    <3>1. i \in 1 .. Len(d.hints)  BY <1>2, <2>2
    <3>2. CASE j = m  BY <1>1, <1>6, <1>10, <3>1, <3>2
    <3>3. CASE j \in 1 .. Len(d.hints)
      <4>1. HintEnd(d, i) <= d.hints[j]  BY <2>2, <3>1, <3>3 DEF PartsInOrder
      <4>2. QED  BY <1>6, <1>10, <3>1, <3>3, <4>1
    <3>4. QED  BY <1>2, <3>2, <3>3
  <2>3. /\ d2.funcs = FunctionsOf(imports, d2.dll)
        /\ d2.ilt + 8 * (Len(d2.funcs) + 1) <= d2.iat
        /\ d2.iat + 8 * (Len(d2.funcs) + 1) <= d2.name
    BY <1>4 DEF PartsInOrder
  <2>4. Len(d2.hints) <= Len(d2.funcs)  BY <1>3, <1>4, <1>6
  <2>5. QED  BY <1>6, <1>9, <2>1, <2>2, <2>3, <2>4 DEF PartsInOrder
<1>12. EndsBy(d2, HintEnd(d2, m))
  <2>1. NameEnd(d2) <= HintEnd(d2, m)  BY <1>2, <1>8, <1>9 DEF EndsBy
  <2>2. ASSUME NEW i \in 1 .. m  PROVE HintEnd(d2, i) <= HintEnd(d2, m)
    <3>1. CASE i = m  BY <1>8, <3>1
    <3>2. CASE i \in 1 .. Len(d.hints)  BY <1>8, <1>10, <3>2
    <3>3. QED  BY <1>2, <3>1, <3>2
  <2>3. QED  BY <1>6, <2>1, <2>2 DEF EndsBy
<1>13. QED  BY <1>4, <1>5, <1>7, <1>8, <1>11, <1>12 DEF d2, at

\* The table while and after it is written, one DLL.
LEMMA DllAt ==
    ASSUME TInv, TableOK, NEW k \in 1 .. Len(dlls)
    PROVE  /\ dlls[k] \in DllRecord /\ PartsInOrder(dlls[k]) /\ EndsBy(dlls[k], tableEnd)
           /\ DescriptorsEnd(imports) <= dlls[k].ilt /\ dlls[k].dll = DllNames(imports)[k]
           /\ k \in 1 .. Len(DllNames(imports))
<1>1. dlls \in Seq(DllRecord)  BY DEF TableOK
<1>2. Len(DllNames(imports)) \in Nat  BY DllNameTypes DEF TInv
<1>3. QED  BY <1>1, <1>2 DEF TableOK

\* Writing the next function's name keeps the table's parts in order.
LEMMA AddNameTInv == TInv /\ AddName => TInv'
<1> SUFFICES ASSUME TInv, AddName PROVE TInv'  OBVIOUS
<1> DEFINE k  == Len(dlls)
           d  == dlls[k]
           m  == Len(d.hints) + 1
           at == RoundUp(tableEnd, 2)
           d2 == [d EXCEPT !.hints = Append(@, at)]
<1>1. imports \in ImportTables /\ tableEnd \in Nat /\ TableOK /\ pc = "dlls"
  BY DEF TInv, AddName
<1>2. dlls \in Seq(DllRecord) /\ k \in 1 .. k /\ d = Last(dlls) /\ Len(d.hints) # Len(d.funcs)
  <2>1. dlls \in Seq(DllRecord)  BY <1>1 DEF TableOK
  <2>2. dlls # <<>> /\ Len(Last(dlls).hints) # Len(Last(dlls).funcs)
    BY DEF AddName, NamesWritten
  <2>3. QED  BY <2>1, <2>2 DEF Last
<1>3. d \in DllRecord  BY <1>2
<1>4. PartsInOrder(d) /\ EndsBy(d, tableEnd) /\ d.dll = DllNames(imports)[k]
      /\ DescriptorsEnd(imports) <= d.ilt
  BY <1>1, <1>2 DEF TableOK
<1>5. Len(d.hints) < Len(d.funcs)
  <2>1. Len(d.hints) \in Nat /\ Len(d.funcs) \in Nat  BY <1>1, <1>3, DllTypes
  <2>2. QED  BY <1>2, <1>4, <2>1 DEF PartsInOrder
<1>6. /\ dlls' = [dlls EXCEPT ![k] = d2] /\ tableEnd' = HintEnd(d2, Len(d2.hints))
      /\ UNCHANGED <<pc, imports, error>>
  BY <1>2 DEF AddName, input
<1> HIDE DEF d, at
<1>7. /\ d2 \in DllRecord /\ d2.dll = d.dll /\ d2.ilt = d.ilt /\ PartsInOrder(d2)
      /\ tableEnd' \in Nat /\ tableEnd <= tableEnd' /\ EndsBy(d2, tableEnd')
  <2>1. Len(d2.hints) = m
    <3>1. d.hints \in Seq(Nat)  BY <1>3 DEF DllRecord
    <3>2. d2.hints = Append(d.hints, at)  BY <1>3 DEF DllRecord
    <3>3. QED  BY <3>1, <3>2
  <2> HIDE DEF m
  <2>2. QED  BY <1>1, <1>3, <1>4, <1>5, <1>6, <2>1, NameFits DEF at, m
<1> HIDE DEF d2
<1>8. /\ dlls' \in Seq(DllRecord) /\ Len(dlls') = k /\ dlls'[k] = d2
      /\ \A i \in 1 .. k - 1 : dlls'[i] = dlls[i]
  BY <1>2, <1>6, <1>7
<1>9. /\ DllRecord' = DllRecord /\ DllNames(imports)' = DllNames(imports)
      /\ DescriptorsEnd(imports)' = DescriptorsEnd(imports)
  BY <1>6 DEF DllRecord, Dlls
<1>10. ASSUME NEW i \in 1 .. k
       PROVE  /\ dlls'[i].dll = DllNames(imports)[i]
              /\ PartsInOrder(dlls'[i]) /\ DescriptorsEnd(imports) <= dlls'[i].ilt
              /\ EndsBy(dlls'[i], tableEnd') /\ dlls'[i].ilt = dlls[i].ilt
  <2>1. CASE i = k  BY <1>4, <1>7, <1>8, <2>1 DEF d
  <2>2. CASE i \in 1 .. k - 1
    <3>1. /\ dlls[i] \in DllRecord /\ dlls[i].dll = DllNames(imports)[i]
          /\ PartsInOrder(dlls[i]) /\ DescriptorsEnd(imports) <= dlls[i].ilt
          /\ EndsBy(dlls[i], tableEnd) /\ Len(dlls[i].hints) <= Len(dlls[i].funcs)
      <4>1. i \in 1 .. Len(dlls)  BY <1>1, <1>2, <2>2
      <4>2. /\ dlls[i] \in DllRecord /\ dlls[i].dll = DllNames(imports)[i]
            /\ PartsInOrder(dlls[i]) /\ DescriptorsEnd(imports) <= dlls[i].ilt
            /\ EndsBy(dlls[i], tableEnd)
        BY <1>1, <4>1, DllAt
      <4>3. QED  BY <4>2 DEF PartsInOrder
    <3>2. EndsBy(dlls[i], tableEnd')  BY <1>1, <1>7, <3>1, BoundLater
    <3>3. QED  BY <1>8, <2>2, <3>1, <3>2
  <2>3. QED  BY <1>2, <2>1, <2>2
<1>11. ASSUME NEW i \in 1 .. k, NEW j \in 1 .. k, i < j
       PROVE  EndsBy(dlls'[i], dlls'[j].ilt)
  <2>1. i \in 1 .. k - 1  BY <1>11
  <2>2. EndsBy(dlls[i], dlls[j].ilt)  BY <1>1, <1>11 DEF TableOK
  <2>3. QED  BY <1>8, <1>10, <2>1, <2>2
<1>12. ASSUME NEW i \in 1 .. k - 1  PROVE Len(dlls'[i].hints) = Len(dlls'[i].funcs)
  BY <1>1, <1>8 DEF TableOK
<1>13. TableOK'
  <2>1. DescriptorsEnd(imports) <= tableEnd'
    <3>1. DescriptorsEnd(imports) \in Nat  BY <1>1, DescriptorsEndType
    <3>2. QED  BY <1>1, <1>7, <3>1 DEF TableOK
  <2>2. k <= Len(DllNames(imports))  BY <1>1 DEF TableOK
  <2>3. \A i \in 1 .. k : (PartsInOrder(dlls[i]))' <=> PartsInOrder(dlls'[i])
    BY <1>6 DEF PartsInOrder, NameEnd, HintEnd
  <2>4. QED
    BY <1>6, <1>8, <1>9, <1>10, <1>11, <1>12, <2>1, <2>2, <2>3
    DEF TableOK, EndsBy, NameEnd, HintEnd
<1>14. QED
  BY <1>1, <1>6, <1>7, <1>13 DEF TInv, TableDone, LaidOut

-----------------------------------------------------------------------------
\* Init establishes the invariant of the import table.
LEMMA InitTInv == Init => TInv
<1> SUFFICES ASSUME Init PROVE TInv  OBVIOUS
<1>1. pc = "read" /\ imports \in ImportTables /\ tableEnd = 0 /\ dlls = <<>> /\ error = "none"
  BY DEF Init
<1>2. QED  BY <1>1 DEF TInv, TableDone, LaidOut

\* A step of another stage.
LEMMA OtherStageTInv ==
    ASSUME TInv, UNCHANGED <<imports, dlls, tableEnd>>,
           pc' # "done" => error' = "none",
           pc' \in {"read", "prepare", "idata"} => pc \in {"read", "prepare", "idata"},
           pc' = "dlls" => pc = "dlls",
           TableDone' => TableDone \/ (pc = "dlls" /\ TableFull)
    PROVE  TInv'
BY TableUnchanged DEF TInv

\* Every step keeps the invariant of the import table.
LEMMA StepTInv == TInv /\ [Next]_vars => TInv'
<1> SUFFICES ASSUME TInv, [Next]_vars PROVE TInv'  OBVIOUS
<1>1. CASE ReadObject
  BY <1>1, OtherStageTInv DEF ReadObject, Fail, input, layout, TableDone, LaidOut, TInv
<1>2. CASE PrepareOutputSections
  BY <1>2, OtherStageTInv DEF PrepareOutputSections, input, TableDone, LaidOut, TInv
<1>3. CASE BeginImportTable
  <2>1. /\ pc' = "dlls" /\ error' = "none" /\ dlls' = <<>> /\ imports' = imports
        /\ tableEnd' = DescriptorsEnd(imports)
    BY <1>3 DEF BeginImportTable, input, TInv
  <2>2. imports \in ImportTables  BY DEF TInv
  <2>3. DescriptorsEnd(imports) \in Nat /\ DescriptorsEnd(imports)' = DescriptorsEnd(imports)
        /\ Len(DllNames(imports)) \in Nat /\ DllNames(imports)' = DllNames(imports)
    BY <2>1, <2>2, DescriptorsEndType, DllNameTypes
  <2>4. Len(dlls') = 0 /\ dlls' \in Seq(DllRecord')  BY <2>1
  <2>5. TableOK'  BY <2>1, <2>3, <2>4 DEF TableOK
  <2>6. QED  BY <2>1, <2>2, <2>3, <2>5 DEF TInv, TableDone, LaidOut
<1>4. CASE AddDll  BY <1>4, AddDllTInv
<1>5. CASE AddName  BY <1>5, AddNameTInv
<1>6. CASE EndImportTable
  <2>1. /\ pc = "dlls" /\ pc' = "thunks" /\ UNCHANGED <<imports, dlls, tableEnd, error>>
        /\ NamesWritten /\ Len(dlls) = Len(DllNames(imports))
    BY <1>6 DEF EndImportTable, input
  <2>2. TableOK  BY <2>1 DEF TInv
  <2>3. TableFull
    <3>1. ASSUME NEW k \in 1 .. Len(dlls)  PROVE Len(dlls[k].hints) = Len(dlls[k].funcs)
      <4>1. dlls \in Seq(DllRecord)  BY <2>2 DEF TableOK
      <4>2. CASE k = Len(dlls)
        <5>1. dlls # <<>>  BY <4>1
        <5>2. QED  BY <2>1, <4>2, <5>1 DEF NamesWritten, Last
      <4>3. CASE k \in 1 .. Len(dlls) - 1  BY <2>2, <4>3 DEF TableOK
      <4>4. QED  BY <4>1, <4>2, <4>3
    <3>2. QED  BY <2>1, <3>1 DEF TableFull
  <2>4. QED  BY <2>1, <2>3, OtherStageTInv DEF TInv, TableDone, LaidOut
<1>7. CASE BuildThunks
  BY <1>7, OtherStageTInv DEF BuildThunks, input, TableDone, LaidOut, TInv
<1>8. CASE BeginLayout
  BY <1>8, OtherStageTInv DEF BeginLayout, input, TableDone, LaidOut, TInv
<1>9. CASE LayoutSection
  BY <1>9, OtherStageTInv DEF LayoutSection, input, TableDone, LaidOut, TInv
<1>10. CASE ResolveSymbols
  BY <1>10, OtherStageTInv DEF ResolveSymbols, input, layout, TableDone, LaidOut, TInv
<1>11. CASE Relocate
  BY <1>11, OtherStageTInv DEF Relocate, Fail, input, layout, TableDone, LaidOut, TInv
<1>12. CASE NextSection
  BY <1>12, OtherStageTInv DEF NextSection, input, layout, TableDone, LaidOut, TInv
<1>13. CASE EmitPe
  BY <1>13, OtherStageTInv DEF EmitPe, Fail, input, layout, TableDone, LaidOut, TInv
<1>14. CASE UNCHANGED vars
  BY <1>14, OtherStageTInv DEF vars, input, layout, TableDone, LaidOut, TInv
<1>15. QED
  BY <1>1, <1>2, <1>3, <1>4, <1>5, <1>6, <1>7, <1>8, <1>9, <1>10, <1>11, <1>12, <1>13, <1>14
  DEF Next

\* The import table at each turn of buildImportTable's loops.
THEOREM ImportTableBuilt == Spec => []TInv
<1>1. Init => TInv  BY InitTInv
<1>2. TInv /\ [Next]_vars => TInv'  BY StepTInv
<1>3. QED  BY <1>1, <1>2, PTL DEF Spec

-----------------------------------------------------------------------------
(* What a finished table is *)

\* The tables of a DLL and its name follow each other.
LEMMA DllOrder ==
    ASSUME imports \in ImportTables, NEW d \in DllRecord, PartsInOrder(d)
    PROVE  LET b == d.ilt + 8 * (Len(d.funcs) + 1)
               c == d.iat + 8 * (Len(d.funcs) + 1)
           IN  /\ d.ilt \in Nat /\ d.iat \in Nat /\ d.name \in Nat /\ NameEnd(d) \in Nat
               /\ b \in Nat /\ c \in Nat
               /\ d.ilt <= b /\ b <= d.iat /\ d.iat <= c /\ c <= d.name /\ d.name <= NameEnd(d)
<1> DEFINE w == 8 * (Len(d.funcs) + 1)
           z == NameSize[d.dll]
<1>1. /\ d.ilt \in Nat /\ d.iat \in Nat /\ d.name \in Nat /\ NameEnd(d) \in Nat
      /\ Len(d.funcs) \in Nat /\ z \in Nat
  BY DllTypes
<1>2. w \in Nat
  <2> HIDE DEF z
  <2>1. QED  BY <1>1
<1>3. d.ilt + w <= d.iat /\ d.iat + w <= d.name  BY DEF PartsInOrder
<1>4. NameEnd(d) = d.name + z + 1  BY DEF NameEnd
<1> HIDE DEF w, z
<1>5. d.ilt + w \in Nat /\ d.iat + w \in Nat /\ d.ilt <= d.ilt + w /\ d.iat <= d.iat + w
  BY <1>1, <1>2
<1>6. d.name <= NameEnd(d)  BY <1>1, <1>4
<1>7. QED  BY <1>1, <1>3, <1>5, <1>6 DEF w

\* A DLL's parts lie between its lookup table and each bound of it.
LEMMA PartBounds ==
    ASSUME imports \in ImportTables, NEW d \in DllRecord, PartsInOrder(d),
           NEW e \in Nat, EndsBy(d, e), NEW p \in TableParts(d)
    PROVE  p[1] \in Nat /\ p[2] \in Nat /\ d.ilt <= p[1] /\ p[2] <= e
<1> DEFINE b == d.ilt + 8 * (Len(d.funcs) + 1)
           c == d.iat + 8 * (Len(d.funcs) + 1)
<1>1. /\ d.ilt \in Nat /\ d.iat \in Nat /\ d.name \in Nat /\ NameEnd(d) \in Nat
      /\ b \in Nat /\ c \in Nat
      /\ d.ilt <= b /\ b <= d.iat /\ d.iat <= c /\ c <= d.name /\ d.name <= NameEnd(d)
  BY DllOrder
<1>2. NameEnd(d) <= e  BY DEF EndsBy
<1>7. \/ p = <<d.ilt, b>> \/ p = <<d.iat, c>> \/ p = <<d.name, NameEnd(d)>>
      \/ \E i \in 1 .. Len(d.hints) : p = <<d.hints[i], HintEnd(d, i)>>
  BY DEF TableParts
<1> HIDE DEF b, c
<1>3. CASE p = <<d.ilt, b>>
  <2>1. p[1] = d.ilt /\ p[2] = b  BY <1>3
  <2>2. b <= e  BY <1>1, <1>2
  <2>3. QED  BY <1>1, <2>1, <2>2
<1>4. CASE p = <<d.iat, c>>
  <2>1. p[1] = d.iat /\ p[2] = c  BY <1>4
  <2>2. c <= e /\ d.ilt <= d.iat  BY <1>1, <1>2
  <2>3. QED  BY <1>1, <2>1, <2>2
<1>5. CASE p = <<d.name, NameEnd(d)>>
  <2>1. p[1] = d.name /\ p[2] = NameEnd(d)  BY <1>5
  <2>2. d.ilt <= d.name  BY <1>1
  <2>3. QED  BY <1>1, <1>2, <2>1, <2>2
<1>6. CASE \E i \in 1 .. Len(d.hints) : p = <<d.hints[i], HintEnd(d, i)>>
  <2>1. PICK i \in 1 .. Len(d.hints) : p = <<d.hints[i], HintEnd(d, i)>>  BY <1>6
  <2>2. p[1] = d.hints[i] /\ p[2] = HintEnd(d, i)  BY <2>1
  <2>3. Len(d.hints) <= Len(d.funcs)  BY DEF PartsInOrder
  <2>4. p[1] \in Nat /\ p[2] \in Nat  BY <2>2, <2>3, HintTypes
  <2>5. NameEnd(d) <= p[1] /\ p[2] <= e  BY <2>2 DEF PartsInOrder, EndsBy
  <2>6. d.ilt <= NameEnd(d) /\ d.ilt \in Nat /\ NameEnd(d) \in Nat  BY <1>1, <1>2
  <2>7. d.ilt <= p[1]
    <3> DEFINE a == p[1]
    <3>1. a \in Nat /\ NameEnd(d) <= a  BY <2>4, <2>5
    <3> HIDE DEF a
    <3>2. d.ilt <= a  BY <2>6, <3>1
    <3>3. QED  BY <3>2 DEF a
  <2>8. QED  BY <2>4, <2>5, <2>7
<1> DEFINE Goal == p[1] \in Nat /\ p[2] \in Nat /\ d.ilt <= p[1] /\ p[2] <= e
<1>8. /\ p = <<d.ilt, b>> => Goal
      /\ p = <<d.iat, c>> => Goal
      /\ p = <<d.name, NameEnd(d)>> => Goal
      /\ (\E i \in 1 .. Len(d.hints) : p = <<d.hints[i], HintEnd(d, i)>>) => Goal
  BY <1>3, <1>4, <1>5, <1>6
<1> HIDE DEF Goal
<1>9. Goal  BY <1>7, <1>8
<1>10. QED  BY <1>9 DEF Goal

Apart(p, q) == p = q \/ p[2] <= q[1] \/ q[2] <= p[1]

\* A DLL's parts lie beside each other.
LEMMA PartsApart ==
    ASSUME imports \in ImportTables, NEW d \in DllRecord, PartsInOrder(d),
           NEW p \in TableParts(d), NEW q \in TableParts(d)
    PROVE  Apart(p, q)
<1> DEFINE b == d.ilt + 8 * (Len(d.funcs) + 1)
           c == d.iat + 8 * (Len(d.funcs) + 1)
<1>1. /\ d.ilt \in Nat /\ d.iat \in Nat /\ d.name \in Nat /\ NameEnd(d) \in Nat
      /\ b \in Nat /\ c \in Nat
      /\ d.ilt <= b /\ b <= d.iat /\ d.iat <= c /\ c <= d.name /\ d.name <= NameEnd(d)
  BY DllOrder
<1>2. d.hints \in Seq(Nat) /\ Len(d.hints) \in Nat  BY DllTypes
<1> DEFINE Fixed(x) == x = <<d.ilt, b>> \/ x = <<d.iat, c>> \/ x = <<d.name, NameEnd(d)>>
           Hint(x, i) == x = <<d.hints[i], HintEnd(d, i)>>
<1>3. ASSUME NEW x \in TableParts(d)
      PROVE  Fixed(x) \/ \E i \in 1 .. Len(d.hints) : Hint(x, i)
  BY DEF TableParts
<1> HIDE DEF b, c
<1>4. ASSUME NEW x, Fixed(x)  PROVE x[2] <= NameEnd(d) /\ x[2] \in Nat
  <2>1. CASE x = <<d.ilt, b>>
    <3>1. x[2] = b /\ b <= NameEnd(d)  BY <1>1, <2>1
    <3>2. QED  BY <1>1, <3>1
  <2>2. CASE x = <<d.iat, c>>
    <3>1. x[2] = c /\ c <= NameEnd(d)  BY <1>1, <2>2
    <3>2. QED  BY <1>1, <3>1
  <2>3. CASE x = <<d.name, NameEnd(d)>>  BY <1>1, <2>3
  <2>4. QED  BY <1>4, <2>1, <2>2, <2>3
<1>5. ASSUME NEW x, NEW i \in 1 .. Len(d.hints), Hint(x, i)
      PROVE  NameEnd(d) <= x[1] /\ x[1] \in Nat
  <2>1. d.hints[i] \in Nat  BY <1>2
  <2>2. NameEnd(d) <= d.hints[i]  BY DEF PartsInOrder
  <2>3. QED  BY <1>5, <2>1, <2>2
<1>6. CASE Fixed(p) /\ Fixed(q)
  <2>1. b <= d.name /\ d.iat <= d.name  BY <1>1
  <2>2. CASE p = <<d.ilt, b>>  BY <1>1, <1>6, <2>1, <2>2 DEF Apart
  <2>3. CASE p = <<d.iat, c>>  BY <1>1, <1>6, <2>1, <2>3 DEF Apart
  <2>4. CASE p = <<d.name, NameEnd(d)>>  BY <1>1, <1>6, <2>1, <2>4 DEF Apart
  <2>5. QED  BY <1>6, <2>2, <2>3, <2>4
<1>7. ASSUME NEW i \in 1 .. Len(d.hints), Fixed(p), Hint(q, i)  PROVE Apart(p, q)
  <2>1. p[2] <= NameEnd(d) /\ p[2] \in Nat  BY <1>4, <1>7
  <2>2. NameEnd(d) <= q[1] /\ q[1] \in Nat  BY <1>5, <1>7
  <2>3. p[2] <= q[1]  BY <1>1, <2>1, <2>2
  <2>4. QED  BY <2>3 DEF Apart
<1>8. ASSUME NEW i \in 1 .. Len(d.hints), Fixed(q), Hint(p, i)  PROVE Apart(p, q)
  <2>1. q[2] <= NameEnd(d) /\ q[2] \in Nat  BY <1>4, <1>8
  <2>2. NameEnd(d) <= p[1] /\ p[1] \in Nat  BY <1>5, <1>8
  <2>3. q[2] <= p[1]  BY <1>1, <2>1, <2>2
  <2>4. QED  BY <2>3 DEF Apart
<1>9. ASSUME NEW i \in 1 .. Len(d.hints), NEW j \in 1 .. Len(d.hints), Hint(p, i), Hint(q, j)
      PROVE  Apart(p, q)
  <2>1. CASE i = j  BY <1>9, <2>1 DEF Apart
  <2>2. CASE i < j
    <3>1. HintEnd(d, i) <= d.hints[j]  BY <2>2 DEF PartsInOrder
    <3>2. QED  BY <1>9, <3>1 DEF Apart
  <2>3. CASE j < i
    <3>1. HintEnd(d, j) <= d.hints[i]  BY <2>3 DEF PartsInOrder
    <3>2. QED  BY <1>9, <3>1 DEF Apart
  <2>4. QED  BY <1>1, <2>1, <2>2, <2>3
<1> HIDE DEF Fixed, Hint
<1>10. QED  BY <1>3, <1>6, <1>7, <1>8, <1>9

\* No part of the table overlaps another, and all of them lie in it.
LEMMA TableApart ==
    ASSUME TInv, TableOK
    PROVE  /\ \A p, q \in ImportTableParts : Apart(p, q)
           /\ \A p \in ImportTableParts : p[2] <= tableEnd
<1>1. imports \in ImportTables /\ tableEnd \in Nat /\ DescriptorsEnd(imports) \in Nat
      /\ DescriptorsEnd(imports) <= tableEnd /\ dlls \in Seq(DllRecord)
  BY DescriptorsEndType DEF TInv, TableOK
<1> DEFINE head == <<0, DescriptorsEnd(imports)>>
           In(p, k) == p \in TableParts(dlls[k])
<1>2. head[1] = 0 /\ head[2] = DescriptorsEnd(imports)  OBVIOUS
<1>3. ASSUME NEW p \in ImportTableParts
      PROVE  p = head \/ \E k \in 1 .. Len(dlls) : In(p, k)
  BY <1>1 DEF ImportTableParts, ToSet
<1>4. ASSUME NEW k \in 1 .. Len(dlls), NEW p, In(p, k)
      PROVE  /\ p[1] \in Nat /\ p[2] \in Nat /\ DescriptorsEnd(imports) <= p[1]
             /\ p[2] <= tableEnd /\ dlls[k].ilt <= p[1]
  <2>1. /\ dlls[k] \in DllRecord /\ PartsInOrder(dlls[k]) /\ EndsBy(dlls[k], tableEnd)
        /\ DescriptorsEnd(imports) <= dlls[k].ilt /\ dlls[k].ilt \in Nat
    BY DllAt DEF DllRecord
  <2>2. p[1] \in Nat /\ p[2] \in Nat /\ dlls[k].ilt <= p[1] /\ p[2] <= tableEnd
    BY <1>1, <1>4, <2>1, PartBounds
  <2>3. QED  BY <1>1, <2>1, <2>2
<1>5. ASSUME NEW j \in 1 .. Len(dlls), NEW k \in 1 .. Len(dlls), NEW p, NEW q, In(p, j), In(q, k),
             j < k
      PROVE  p[2] <= q[1]
  <2>1. /\ dlls[j] \in DllRecord /\ PartsInOrder(dlls[j]) /\ dlls[k].ilt \in Nat
        /\ EndsBy(dlls[j], dlls[k].ilt)
    BY <1>5, DllAt DEF DllRecord, TableOK
  <2>2. p[2] <= dlls[k].ilt /\ p[2] \in Nat  BY <1>1, <1>5, <2>1, PartBounds
  <2>3. dlls[k].ilt <= q[1] /\ q[1] \in Nat  BY <1>4, <1>5
  <2>4. QED  BY <2>1, <2>2, <2>3
<1>6. ASSUME NEW k \in 1 .. Len(dlls), NEW p, NEW q, In(p, k), In(q, k)
      PROVE  Apart(p, q)
  <2>1. dlls[k] \in DllRecord /\ PartsInOrder(dlls[k])  BY DllAt
  <2>2. QED  BY <1>1, <1>6, <2>1, PartsApart
<1> HIDE DEF head, In
<1>7. ASSUME NEW p \in ImportTableParts, NEW q \in ImportTableParts  PROVE Apart(p, q)
  <2>1. CASE p = head /\ q = head  BY <2>1 DEF Apart
  <2>2. CASE p = head /\ \E k \in 1 .. Len(dlls) : In(q, k)
    <3>1. head[2] <= q[1]  BY <1>2, <1>4, <2>2
    <3>2. QED  BY <2>2, <3>1 DEF Apart
  <2>3. CASE q = head /\ \E k \in 1 .. Len(dlls) : In(p, k)
    <3>1. head[2] <= p[1]  BY <1>2, <1>4, <2>3
    <3>2. QED  BY <2>3, <3>1 DEF Apart
  <2>4. ASSUME NEW j \in 1 .. Len(dlls), NEW k \in 1 .. Len(dlls), In(p, j), In(q, k)
        PROVE  Apart(p, q)
    <3>1. Len(dlls) \in Nat  BY <1>1
    <3>2. CASE j = k  BY <1>6, <2>4, <3>2
    <3>3. CASE j < k  BY <1>5, <2>4, <3>3 DEF Apart
    <3>4. CASE k < j  BY <1>5, <2>4, <3>4 DEF Apart
    <3>5. QED  BY <3>1, <3>2, <3>3, <3>4
  <2>5. QED  BY <1>3, <2>1, <2>2, <2>3, <2>4
<1>8. ASSUME NEW p \in ImportTableParts  PROVE p[2] <= tableEnd
  BY <1>1, <1>2, <1>3, <1>4
<1>9. QED  BY <1>7, <1>8

\* The cell of function f is the one with number i of DLL number k.
CellAt(f, k, i) ==
    /\ k \in 1 .. Len(dlls)
    /\ i \in 1 .. Len(dlls[k].funcs)
    /\ dlls[k].funcs[i] = f

\* A cell belongs to an imported function, under its DLL.
LEMMA CellTypes ==
    ASSUME TInv, TableOK, NEW f, NEW k, NEW i, CellAt(f, k, i)
    PROVE  /\ dlls[k] \in DllRecord /\ dlls[k].dll \in Dlls
           /\ dlls[k].dll = DllNames(imports)[k] /\ k \in 1 .. Len(DllNames(imports))
           /\ dlls[k].funcs = FunctionsOf(imports, dlls[k].dll)
           /\ Lists(dlls[k].funcs, {g \in DOMAIN imports : imports[g] = dlls[k].dll})
           /\ f \in DOMAIN imports /\ imports[f] = dlls[k].dll
<1>1. k \in 1 .. Len(dlls) /\ i \in 1 .. Len(dlls[k].funcs) /\ f = dlls[k].funcs[i]
      /\ imports \in ImportTables
  BY DEF CellAt, TInv
<1>2. /\ dlls[k] \in DllRecord /\ PartsInOrder(dlls[k]) /\ dlls[k].dll = DllNames(imports)[k]
      /\ k \in 1 .. Len(DllNames(imports))
  BY <1>1, DllAt
<1>3. dlls[k].dll \in Dlls  BY <1>2 DEF DllRecord
<1>4. dlls[k].funcs = FunctionsOf(imports, dlls[k].dll)  BY <1>2 DEF PartsInOrder
<1>5. Lists(dlls[k].funcs, {g \in DOMAIN imports : imports[g] = dlls[k].dll})
  BY <1>1, <1>3, <1>4, FunctionTypes
<1>6. f \in {g \in DOMAIN imports : imports[g] = dlls[k].dll}
  <2>1. dlls[k].funcs \in Seq({g \in DOMAIN imports : imports[g] = dlls[k].dll})
    BY <1>5 DEF Lists
  <2>2. QED  BY <1>1, <2>1
<1>7. QED  BY <1>2, <1>3, <1>4, <1>5, <1>6

\* A name has one cell at most.
LEMMA CellUnique ==
    ASSUME TInv, TableOK, NEW f, NEW k, NEW i, CellAt(f, k, i), NEW l, NEW j, CellAt(f, l, j)
    PROVE  k = l /\ i = j
<1>1. DllNames(imports)[k] = DllNames(imports)[l]
      /\ k \in 1 .. Len(DllNames(imports)) /\ l \in 1 .. Len(DllNames(imports))
  <2>1. imports[f] = DllNames(imports)[k] /\ k \in 1 .. Len(DllNames(imports))
    <3>1. imports[f] = dlls[k].dll /\ dlls[k].dll = DllNames(imports)[k]
          /\ k \in 1 .. Len(DllNames(imports))
      BY CellTypes
    <3>2. QED  BY <3>1
  <2>2. imports[f] = DllNames(imports)[l] /\ l \in 1 .. Len(DllNames(imports))
    <3>1. imports[f] = dlls[l].dll /\ dlls[l].dll = DllNames(imports)[l]
          /\ l \in 1 .. Len(DllNames(imports))
      BY CellTypes
    <3>2. QED  BY <3>1
  <2>3. QED  BY <2>1, <2>2
<1>2. Lists(DllNames(imports), Dlls)  BY DllNameTypes DEF TInv
<1>3. k = l
  <2>1. DOMAIN DllNames(imports) = 1 .. Len(DllNames(imports))  BY <1>2 DEF Lists
  <2>2. QED  BY <1>1, <1>2, <2>1 DEF Lists
<1>4. Lists(dlls[k].funcs, {g \in DOMAIN imports : imports[g] = dlls[k].dll})  BY CellTypes
<1>5. i = j
  <2>1. DOMAIN dlls[k].funcs = 1 .. Len(dlls[k].funcs)  BY <1>4 DEF Lists
  <2>2. QED  BY <1>3, <1>4, <2>1 DEF Lists, CellAt
<1>6. QED  BY <1>3, <1>5

\* In a full table each imported name has one.
LEMMA CellExists ==
    ASSUME TInv, TableOK, TableFull, NEW f \in DOMAIN imports
    PROVE  \E k, i : CellAt(f, k, i)
<1>1. imports \in ImportTables /\ dlls \in Seq(DllRecord)  BY DEF TInv, TableOK
<1>2. Lists(DllNames(imports), Dlls)  BY <1>1, DllNameTypes
<1>3. imports[f] \in Dlls  BY DEF Dlls
<1>4. PICK k \in 1 .. Len(DllNames(imports)) : DllNames(imports)[k] = imports[f]
  BY <1>2, <1>3 DEF Lists
<1>5. k \in 1 .. Len(dlls)  BY DEF TableFull
<1>6. dlls[k].dll = imports[f] /\ dlls[k].funcs = FunctionsOf(imports, imports[f])
  BY <1>4, <1>5, DllAt DEF PartsInOrder
<1>7. Lists(dlls[k].funcs, {g \in DOMAIN imports : imports[g] = imports[f]})
  BY <1>1, <1>3, <1>6, FunctionTypes
<1>8. PICK i \in 1 .. Len(dlls[k].funcs) : dlls[k].funcs[i] = f
  BY <1>7 DEF Lists
<1>9. CellAt(f, k, i)  BY <1>5, <1>8 DEF CellAt
<1>10. QED  BY <1>9

\* The place of a cell in the table.
CellPlace(k, i) == dlls[k].iat + 8 * (i - 1)

\* A cell lies between its DLL's lookup table and the end of the DLL's name.
LEMMA CellPlaceType ==
    ASSUME TInv, TableOK, NEW f, NEW k, NEW i, CellAt(f, k, i)
    PROVE  /\ CellPlace(k, i) \in Nat /\ i \in Nat /\ dlls[k].iat \in Nat
           /\ dlls[k].ilt <= CellPlace(k, i) /\ CellPlace(k, i) < NameEnd(dlls[k])
<1> DEFINE d == dlls[k]
<1>1. /\ d \in DllRecord /\ PartsInOrder(d) /\ imports \in ImportTables
      /\ i \in 1 .. Len(d.funcs)
  BY DllAt DEF CellAt, TInv
<1> HIDE DEF d
<1>2. /\ d.ilt \in Nat /\ d.iat \in Nat /\ d.name \in Nat /\ Len(d.funcs) \in Nat
      /\ NameSize[d.dll] \in Nat
  BY <1>1, DllTypes
<1>3. d.ilt + 8 * (Len(d.funcs) + 1) <= d.iat /\ d.iat + 8 * (Len(d.funcs) + 1) <= d.name
  BY <1>1 DEF PartsInOrder
<1>4. i \in Nat /\ i >= 1 /\ i <= Len(d.funcs)  BY <1>1, <1>2
<1>5. CellPlace(k, i) = d.iat + 8 * (i - 1)  BY DEF CellPlace, d
<1>6. CellPlace(k, i) \in Nat /\ d.ilt <= CellPlace(k, i) /\ CellPlace(k, i) < d.name
  <2> DEFINE n == Len(d.funcs)
             il == d.ilt
             ia == d.iat
             nm == d.name
  <2>1. n \in Nat /\ il \in Nat /\ ia \in Nat /\ nm \in Nat
        /\ il + 8 * (n + 1) <= ia /\ ia + 8 * (n + 1) <= nm
    BY <1>2, <1>3
  <2> HIDE DEF n, il, ia, nm
  <2>2. i \in Nat /\ i >= 1 /\ i <= n  BY <1>4 DEF n
  <2>3. ia + 8 * (i - 1) \in Nat /\ il <= ia + 8 * (i - 1) /\ ia + 8 * (i - 1) < nm
    BY <2>1, <2>2
  <2>4. QED  BY <1>5, <2>3 DEF il, ia, nm
<1>7. NameEnd(d) = d.name + NameSize[d.dll] + 1  BY DEF NameEnd
<1>8. CellPlace(k, i) < NameEnd(d)  BY <1>2, <1>6, <1>7
<1>9. QED  BY <1>2, <1>4, <1>6, <1>8 DEF d

\* Two cells are not at the same place.
LEMMA CellsDistinct ==
    ASSUME TInv, TableOK, NEW f, NEW k, NEW i, CellAt(f, k, i),
           NEW g, NEW l, NEW j, CellAt(g, l, j), CellPlace(k, i) = CellPlace(l, j)
    PROVE  f = g
<1>1. Len(dlls) \in Nat /\ k \in 1 .. Len(dlls) /\ l \in 1 .. Len(dlls)
  BY DEF TableOK, CellAt
<1>2. ASSUME NEW x, NEW a, NEW p, CellAt(x, a, p), NEW y, NEW b, NEW q, CellAt(y, b, q), a < b
      PROVE  CellPlace(a, p) # CellPlace(b, q)
  <2>1. a \in 1 .. Len(dlls) /\ b \in 1 .. Len(dlls)  BY <1>2 DEF CellAt
  <2>2. EndsBy(dlls[a], dlls[b].ilt)  BY <1>2, <2>1 DEF TableOK
  <2>3. NameEnd(dlls[a]) <= dlls[b].ilt  BY <2>2 DEF EndsBy
  <2>4. CellPlace(a, p) \in Nat /\ CellPlace(a, p) < NameEnd(dlls[a])
    BY <1>2, CellPlaceType
  <2>5. CellPlace(b, q) \in Nat /\ dlls[b].ilt <= CellPlace(b, q)
    BY <1>2, CellPlaceType
  <2>6. NameEnd(dlls[a]) \in Nat /\ dlls[b].ilt \in Nat
    <3>1. dlls[a] \in DllRecord /\ dlls[b] \in DllRecord  BY <2>1, DllAt
    <3>2. QED  BY <3>1, DllTypes DEF TInv
  <2>7. QED  BY <2>3, <2>4, <2>5, <2>6
<1>3. k = l
  <2>1. ~(k < l)  BY <1>2
  <2>2. ~(l < k)  BY <1>2
  <2>3. QED  BY <1>1, <2>1, <2>2
<1>4. i = j
  <2>1. i \in Nat /\ j \in Nat /\ dlls[k].iat \in Nat  BY CellPlaceType
  <2>2. dlls[k].iat + 8 * (i - 1) = dlls[k].iat + 8 * (j - 1)  BY <1>3 DEF CellPlace
  <2>3. QED  BY <2>1, <2>2
<1>5. QED  BY <1>3, <1>4 DEF CellAt

\* Cells, in terms of their DLL and place in it.
LEMMA CellsAre ==
    ASSUME TInv, TableOK
    PROVE  /\ \A c \in Cells : \E k, i :
                 /\ CellAt(c.func, k, i)
                 /\ c = [dll |-> dlls[k].dll, func |-> c.func, offset |-> CellPlace(k, i)]
           /\ \A f, k, i : CellAt(f, k, i) =>
                 [dll |-> dlls[k].dll, func |-> f, offset |-> CellPlace(k, i)] \in Cells
<1>1. dlls \in Seq(DllRecord) /\ DOMAIN dlls = 1 .. Len(dlls)  BY DEF TableOK
<1>2. ASSUME NEW k \in 1 .. Len(dlls)  PROVE DOMAIN dlls[k].funcs = 1 .. Len(dlls[k].funcs)
  <2>1. dlls[k] \in DllRecord  BY <1>1
  <2>2. dlls[k].funcs \in Seq(DOMAIN imports)  BY <2>1 DEF DllRecord
  <2>3. QED  BY <2>2
<1>3. ASSUME NEW c \in Cells
      PROVE  \E k, i : /\ CellAt(c.func, k, i)
                       /\ c = [dll |-> dlls[k].dll, func |-> c.func, offset |-> CellPlace(k, i)]
  <2>1. PICK k \in 1 .. Len(dlls) :
           c \in {[dll |-> dlls[k].dll, func |-> dlls[k].funcs[i],
                   offset |-> dlls[k].iat + 8 * (i - 1)] : i \in DOMAIN dlls[k].funcs}
    BY <1>1 DEF Cells, ToSet
  <2>2. PICK i \in 1 .. Len(dlls[k].funcs) :
           c = [dll |-> dlls[k].dll, func |-> dlls[k].funcs[i],
                offset |-> dlls[k].iat + 8 * (i - 1)]
    BY <1>2, <2>1
  <2>3. c.func = dlls[k].funcs[i]  BY <2>2
  <2>4. CellAt(c.func, k, i)  BY <2>1, <2>2, <2>3 DEF CellAt
  <2>5. c = [dll |-> dlls[k].dll, func |-> c.func, offset |-> CellPlace(k, i)]
    BY <2>2, <2>3 DEF CellPlace
  <2>6. QED  BY <2>4, <2>5
<1>4. ASSUME NEW f, NEW k, NEW i, CellAt(f, k, i)
      PROVE  [dll |-> dlls[k].dll, func |-> f, offset |-> CellPlace(k, i)] \in Cells
  <2>1. k \in 1 .. Len(dlls) /\ i \in DOMAIN dlls[k].funcs /\ f = dlls[k].funcs[i]
    BY <1>2, <1>4 DEF CellAt
  <2>2. dlls[k] \in ToSet(dlls)  BY <1>1, <2>1 DEF ToSet
  <2>3. QED  BY <2>1, <2>2 DEF Cells, CellPlace
<1>5. QED  BY <1>3, <1>4

\* Each imported name has one cell, under its DLL.
LEMMA OneCell ==
    ASSUME TInv, TableOK, TableFull, NEW f \in DOMAIN imports
    PROVE  \E c \in Cells : {x \in Cells : x.func = f} = {c} /\ c.dll = imports[f]
<1>1. PICK k, i : CellAt(f, k, i)  BY CellExists
<1> DEFINE c == [dll |-> dlls[k].dll, func |-> f, offset |-> CellPlace(k, i)]
<1>2. c \in Cells /\ c.func = f  BY <1>1, CellsAre
<1>3. c.dll = imports[f]  BY <1>1, CellTypes
<1> HIDE DEF c
<1>4. ASSUME NEW x \in Cells, x.func = f  PROVE x = c
  <2>1. PICK l, j : /\ CellAt(x.func, l, j)
                    /\ x = [dll |-> dlls[l].dll, func |-> x.func, offset |-> CellPlace(l, j)]
    BY CellsAre
  <2>2. CellAt(f, l, j) /\ x = [dll |-> dlls[l].dll, func |-> f, offset |-> CellPlace(l, j)]
    BY <1>4, <2>1
  <2>3. k = l /\ i = j  BY <1>1, <2>2, CellUnique
  <2>4. QED  BY <2>2, <2>3 DEF c
<1>5. QED  BY <1>2, <1>3, <1>4

\* What resolveSymbols takes for a cell's place is the place of the cell.
LEMMA CellOffsetIs ==
    ASSUME TInv, TableOK, NEW f, NEW k, NEW i, CellAt(f, k, i)
    PROVE  CellOffset(f) = CellPlace(k, i)
<1>1. dlls \in Seq(DllRecord) /\ DOMAIN dlls = 1 .. Len(dlls) /\ k \in 1 .. Len(dlls)
  BY DEF TableOK, CellAt
<1>2. dlls[k].dll = imports[f] /\ imports[f] = DllNames(imports)[k]
      /\ k \in 1 .. Len(DllNames(imports))
  <2>1. /\ imports[f] = dlls[k].dll /\ dlls[k].dll = DllNames(imports)[k]
        /\ k \in 1 .. Len(DllNames(imports))
    BY CellTypes
  <2>2. QED  BY <2>1
<1>3. ASSUME NEW l \in 1 .. Len(dlls), dlls[l].dll = imports[f]  PROVE l = k
  <2>1. dlls[l].dll = DllNames(imports)[l] /\ l \in 1 .. Len(DllNames(imports))  BY DllAt
  <2>2. Lists(DllNames(imports), Dlls)  BY DllNameTypes DEF TInv
  <2>3. DOMAIN DllNames(imports) = 1 .. Len(DllNames(imports))  BY <2>2 DEF Lists
  <2>4. QED  BY <1>2, <1>3, <2>1, <2>2, <2>3 DEF Lists
<1>4. (CHOOSE d \in ToSet(dlls) : d.dll = imports[f]) = dlls[k]
  <2>1. dlls[k] \in ToSet(dlls)  BY <1>1 DEF ToSet
  <2>2. ASSUME NEW d \in ToSet(dlls), d.dll = imports[f]  PROVE d = dlls[k]
    <3>1. PICK l \in 1 .. Len(dlls) : d = dlls[l]  BY <1>1 DEF ToSet
    <3>2. QED  BY <1>3, <2>2, <3>1
  <2>3. QED  BY <1>2, <2>1, <2>2
<1>5. (CHOOSE j \in DOMAIN dlls[k].funcs : dlls[k].funcs[j] = f) = i
  <2>1. Lists(dlls[k].funcs, {g \in DOMAIN imports : imports[g] = dlls[k].dll})  BY CellTypes
  <2>2. i \in DOMAIN dlls[k].funcs /\ dlls[k].funcs[i] = f
    <3>1. DOMAIN dlls[k].funcs = 1 .. Len(dlls[k].funcs)  BY <2>1 DEF Lists
    <3>2. QED  BY <3>1 DEF CellAt
  <2>3. \A j \in DOMAIN dlls[k].funcs : dlls[k].funcs[j] = f => j = i
    BY <2>1, <2>2 DEF Lists
  <2>4. QED  BY <2>2, <2>3
<1>6. QED  BY <1>4, <1>5 DEF CellOffset, CellPlace

-----------------------------------------------------------------------------
(* The image *)

\* The rounding of the two alignments an image has: it never goes back.
LEMMA RoundUpBounds ==
    ASSUME NEW x \in Nat
    PROVE  /\ RoundUp(x, SectionAlignment) \in Nat /\ RoundUp(x, FileAlignment) \in Nat
           /\ RoundUp(x, SectionAlignment) >= x /\ RoundUp(x, FileAlignment) >= x
           /\ RoundUp(x, SectionAlignment) % SectionAlignment = 0
           /\ RoundUp(x, FileAlignment) % FileAlignment = 0
BY DEF RoundUp, SectionAlignment, FileAlignment

\* Sums of multiples of the file alignment are multiples of it.
LEMMA FileAligned ==
    ASSUME NEW x \in Nat, NEW y \in Nat, x % FileAlignment = 0, y % FileAlignment = 0
    PROVE  (x + y) % FileAlignment = 0
BY DEF FileAlignment

-----------------------------------------------------------------------------
(* The inductive invariant: in the middle of layoutSections, the sections  *)
(* behind the loop are placed well and the next free addresses are         *)
(* aligned and behind the headers.                                         *)

LayoutProgress ==
    pc = "layout" =>
        /\ PlacedWell(section - 1)
        /\ curRva >= HeadersEnd /\ curRva % SectionAlignment = 0
        /\ curRaw >= HeadersEnd /\ curRaw % FileAlignment = 0

\* The stages in which the section list is not yet complete, and the loops not begun.
Cursor ==
    /\ pc \in {"read", "prepare", "idata", "dlls", "thunks", "headers"} => section = 1
    /\ pc \in {"read", "prepare", "idata", "dlls", "thunks", "headers", "layout"} => reloc = 1
    /\ error = "object" => pc = "done"
    /\ pc # "done" => error = "none"

LInv == TypeOK /\ Cursor /\ LayoutProgress /\ ImageWellFormed

\* Init establishes the invariant of the layout.
LEMMA InitLInv == Init => LInv
<1> SUFFICES ASSUME Init PROVE LInv  OBVIOUS
<1>1. Len(outSecs) = 0 /\ outSecs \in Seq(ImageSection)  BY DEF Init
<1>2. TypeOK  BY <1>1 DEF Init, TypeOK, LaidOut
<1>3. QED  BY <1>2 DEF Init, LInv, Cursor, LayoutProgress, ImageWellFormed, LaidOut

\* Appending a section that is not placed yet keeps the list typed.
LEMMA OutSecType ==
    ASSUME NEW n \in SectionNames, NEW z \in Nat, NEW rs \in Seq(Relocation)
    PROVE  OutSec(n, z, rs) \in ImageSection
BY DEF OutSec, ImageSection

\* Placing a section makes a section of the image.
LEMMA PlacedType ==
    ASSUME NEW s \in ImageSection, NEW rva \in Nat, NEW raw \in Nat
    PROVE  /\ Placed(s, rva, raw) \in ImageSection
           /\ Placed(s, rva, raw).size = s.size /\ Placed(s, rva, raw).relocs = s.relocs
           /\ Placed(s, rva, raw).rva = rva /\ Placed(s, rva, raw).raw = raw
           /\ Placed(s, rva, raw).rawSize = RoundUp(s.size, FileAlignment)
<1>1. s.size \in Nat  BY DEF ImageSection
<1>2. RoundUp(s.size, FileAlignment) \in Nat  BY <1>1, RoundUpBounds
<1>3. QED  BY <1>2 DEF Placed, ImageSection

\* The turn of the loop in layoutSections.
LEMMA LayoutSectionLInv == LInv /\ LayoutSection => LInv'
<1> SUFFICES ASSUME LInv, LayoutSection PROVE LInv'  OBVIOUS
<1> DEFINE s == outSecs[section]
           p == Placed(s, curRva, curRaw)
           n == Len(outSecs)
<1> HIDE DEF s, p, n
<1>1. /\ outSecs \in Seq(ImageSection) /\ n \in Nat /\ section \in 1 .. n
      /\ curRva \in Nat /\ curRaw \in Nat /\ s \in ImageSection /\ s.size \in Nat
  <2>1. outSecs \in Seq(ImageSection) /\ curRva \in Nat /\ curRaw \in Nat
    BY DEF LInv, TypeOK
  <2>2. n \in Nat  BY <2>1 DEF n
  <2>3. section \in 1 .. n  BY <2>2 DEF LInv, TypeOK, LayoutSection, n
  <2>4. s \in ImageSection  BY <2>1, <2>3 DEF s, n
  <2>5. s.size \in Nat  BY <2>4 DEF ImageSection
  <2>6. QED  BY <2>1, <2>2, <2>3, <2>4, <2>5
<1>2. /\ p \in ImageSection /\ p.size = s.size /\ p.relocs = s.relocs /\ p.rva = curRva
      /\ p.raw = curRaw /\ p.rawSize = RoundUp(s.size, FileAlignment)
  <2>1. p = Placed(s, curRva, curRaw)  BY DEF p
  <2>2. /\ Placed(s, curRva, curRaw) \in ImageSection
        /\ Placed(s, curRva, curRaw).size = s.size /\ Placed(s, curRva, curRaw).relocs = s.relocs
        /\ Placed(s, curRva, curRaw).rva = curRva /\ Placed(s, curRva, curRaw).raw = curRaw
        /\ Placed(s, curRva, curRaw).rawSize = RoundUp(s.size, FileAlignment)
    <3>1. s \in ImageSection /\ curRva \in Nat /\ curRaw \in Nat  BY <1>1
    <3>2. QED  BY <3>1, PlacedType, ZenonT(30)
  <2>3. QED  BY <2>1, <2>2
<1>3. /\ outSecs' = [outSecs EXCEPT ![section] = p]
      /\ outSecs' \in Seq(ImageSection) /\ Len(outSecs') = n /\ outSecs'[section] = p
      /\ \A i \in 1 .. n : i # section => outSecs'[i] = outSecs[i]
  BY <1>1, <1>2 DEF LayoutSection, s, p, n
<1>4. /\ curRva' = RoundUp(curRva + s.size, SectionAlignment)
      /\ curRaw' = curRaw + RoundUp(s.size, FileAlignment)
      /\ section' = section + 1
      /\ UNCHANGED <<pc, object, imports, dlls, tableEnd, reloc, jump, exe, error>>
      /\ pc = "layout"
  BY DEF LayoutSection, input, links, s
<1>5. HeadersEnd' = HeadersEnd /\ HeadersEnd \in Nat
  BY <1>1, <1>3 DEF n, HeadersEnd, HeaderSize, SectionHeaderSize
<1>6. /\ PlacedWell(section - 1)
      /\ curRva >= HeadersEnd /\ curRva % SectionAlignment = 0
      /\ curRaw >= HeadersEnd /\ curRaw % FileAlignment = 0
  BY <1>4 DEF LInv, LayoutProgress
<1>7. /\ curRva' \in Nat /\ curRva' >= curRva + s.size /\ curRva' % SectionAlignment = 0
      /\ curRva + s.size \in Nat
  <2>1. curRva + s.size \in Nat  BY <1>1
  <2>2. QED  BY <2>1, <1>4, RoundUpBounds
<1>8. /\ p.rawSize \in Nat /\ p.rawSize >= s.size /\ p.rawSize % FileAlignment = 0
      /\ curRaw' = curRaw + p.rawSize
  BY <1>1, <1>2, <1>4, RoundUpBounds
<1>9. curRaw' \in Nat /\ curRaw' >= curRaw /\ curRaw' % FileAlignment = 0
  <2>1. curRaw + p.rawSize \in Nat /\ curRaw + p.rawSize >= curRaw  BY <1>1, <1>8
  <2>2. (curRaw + p.rawSize) % FileAlignment = 0  BY <1>1, <1>6, <1>8, FileAligned
  <2>3. QED  BY <1>8, <2>1, <2>2
<1>10. TypeOK'
  <2>1. section' \in 1 .. Len(outSecs') + 1  BY <1>1, <1>3, <1>4
  <2>2. reloc' = 1  BY <1>4 DEF LInv, Cursor
  <2>3. section' <= Len(outSecs') => reloc' \in 1 .. Len(outSecs'[section'].relocs) + 1
    <3>1. SUFFICES ASSUME section' \in 1 .. Len(outSecs')
                   PROVE  1 \in 1 .. Len(outSecs'[section'].relocs) + 1
      BY <2>1, <2>2, <1>1, <1>3, <1>4
    <3>2. outSecs'[section'] \in ImageSection  BY <1>3, <3>1
    <3>3. Len(outSecs'[section'].relocs) \in Nat  BY <3>2 DEF ImageSection
    <3>4. QED  BY <3>3
  <2>4. error' = error /\ pc' = pc /\ error = "none"  BY <1>4 DEF LInv, Cursor
  <2>5. ~LaidOut'  BY <1>4, <2>4 DEF LaidOut
  <2>6. QED  BY <1>3, <1>4, <1>7, <1>9, <2>1, <2>3, <2>5 DEF LInv, TypeOK
<1>11. Cursor'  BY <1>4 DEF LInv, Cursor
<1>12. curRva' >= curRva /\ curRva' \in Nat /\ curRaw' >= curRaw /\ curRaw' \in Nat
  BY <1>1, <1>7, <1>9
<1>13. ASSUME NEW i \in 1 .. section  PROVE Fits(outSecs[i])'
  <2>1. CASE i = section
    <3>1. outSecs'[i] = p  BY <1>3, <2>1
    <3>2. /\ p.rva = curRva /\ p.raw = curRaw /\ p.size = s.size
          /\ curRva >= HeadersEnd' /\ curRaw >= HeadersEnd'
          /\ curRva % SectionAlignment = 0 /\ curRaw % FileAlignment = 0
      BY <1>2, <1>5, <1>6
    <3>3. p.rva + p.size <= curRva' /\ p.raw + p.rawSize <= curRaw'
      BY <1>1, <1>7, <1>8, <1>9, <3>2
    <3>4. QED  BY <1>8, <3>1, <3>2, <3>3 DEF Fits, RvaEnd, RawEnd
  <2>2. CASE i # section
    <3>1. i \in 1 .. section - 1 /\ i \in 1 .. n  BY <1>1, <2>2 DEF n
    <3>2. outSecs'[i] = outSecs[i] /\ outSecs[i] \in ImageSection
      BY <1>1, <1>3, <2>2, <3>1 DEF n
    <3>3. Fits(outSecs[i])  BY <1>6, <3>1 DEF PlacedWell
    <3>4. /\ outSecs[i].rva \in Nat /\ outSecs[i].size \in Nat
          /\ outSecs[i].raw \in Nat /\ outSecs[i].rawSize \in Nat
      BY <3>2 DEF ImageSection
    <3>5. /\ outSecs[i].rva + outSecs[i].size <= curRva'
          /\ outSecs[i].raw + outSecs[i].rawSize <= curRaw'
      <4>1. /\ outSecs[i].rva + outSecs[i].size <= curRva
            /\ outSecs[i].raw + outSecs[i].rawSize <= curRaw
        BY <3>3 DEF Fits, RvaEnd, RawEnd
      <4>2. /\ outSecs[i].rva + outSecs[i].size \in Nat
            /\ outSecs[i].raw + outSecs[i].rawSize \in Nat
        BY <3>4
      <4>3. QED  BY <1>1, <1>12, <4>1, <4>2
    <3>6. QED  BY <1>5, <3>2, <3>3, <3>5 DEF Fits, RvaEnd, RawEnd
  <2>3. QED  BY <2>1, <2>2
<1>14. ASSUME NEW i \in 1 .. section, NEW j \in 1 .. section, i < j
       PROVE  RvaEnd(outSecs[i])' <= outSecs'[j].rva /\ RawEnd(outSecs[i])' <= outSecs'[j].raw
  <2>1. i \in 1 .. section - 1 /\ i # section /\ i \in 1 .. n  BY <1>1, <1>14 DEF n
  <2>2. outSecs'[i] = outSecs[i]  BY <1>3, <2>1
  <2>3. CASE j = section
    <3>1. Fits(outSecs[i])  BY <1>6, <2>1 DEF PlacedWell
    <3>2. outSecs'[j].rva = curRva /\ outSecs'[j].raw = curRaw  BY <1>2, <1>3, <2>3
    <3>3. QED  BY <2>2, <3>1, <3>2 DEF Fits, RvaEnd, RawEnd
  <2>4. CASE j # section
    <3>1. j \in 1 .. section - 1 /\ j \in 1 .. n  BY <1>1, <2>4 DEF n
    <3>2. outSecs'[j] = outSecs[j]  BY <1>3, <2>4, <3>1
    <3>3. RvaEnd(outSecs[i]) <= outSecs[j].rva /\ RawEnd(outSecs[i]) <= outSecs[j].raw
      BY <1>6, <1>14, <2>1, <3>1 DEF PlacedWell
    <3>4. QED  BY <2>2, <3>2, <3>3 DEF RvaEnd, RawEnd
  <2>5. QED  BY <2>3, <2>4
<1>15. PlacedWell(section - 1)'
  <2>1. section' - 1 = section  BY <1>1, <1>4
  <2>2. QED  BY <1>13, <1>14, <2>1 DEF PlacedWell
<1>16. LayoutProgress'
  BY <1>1, <1>5, <1>6, <1>7, <1>8, <1>9, <1>12, <1>15 DEF LayoutProgress
<1>17. ImageWellFormed'  BY <1>4 DEF ImageWellFormed, LaidOut, LInv, Cursor
<1>18. QED  BY <1>10, <1>11, <1>16, <1>17 DEF LInv

\* A step that changes neither the sections nor the loops' places, such as the end
\* of the link, keeps what has been laid out.
LEMMA SameLayout ==
    ASSUME UNCHANGED <<outSecs, curRva, curRaw>>
    PROVE  PlacedWell(Len(outSecs))' <=> PlacedWell(Len(outSecs))
BY DEF PlacedWell, Fits, RvaEnd, RawEnd, HeadersEnd

\* An element of a sequence is of the sequence's kind.
LEMMA ElementType ==
    ASSUME NEW S, NEW ss \in Seq(S), NEW i \in 1 .. Len(ss)
    PROVE  ss[i] \in S
OBVIOUS

\* A section of a typed list has a list of relocations.
LEMMA RelocCount ==
    ASSUME NEW ss \in Seq(ImageSection), NEW i \in 1 .. Len(ss)
    PROVE  Len(ss[i].relocs) \in Nat
<1>1. ss[i] \in ImageSection  OBVIOUS
<1>2. ss[i].relocs \in Seq(Relocation)  BY <1>1 DEF ImageSection
<1>3. QED  BY <1>2

\* Appending to the section list, before the layout.
LEMMA AppendLInv ==
    ASSUME LInv, pc \in {"dlls", "thunks"}, pc' \in {"thunks", "headers"},
           NEW z \in Nat, NEW n \in SectionNames, outSecs' = Append(outSecs, OutSec(n, z, <<>>)),
           UNCHANGED <<object, imports, tableEnd, curRva, curRaw, section, reloc, exe, error>>
    PROVE  LInv'
<1>1. outSecs' \in Seq(ImageSection)
  <2>1. <<>> \in Seq(Relocation)  OBVIOUS
  <2>2. OutSec(n, z, <<>>) \in ImageSection  BY <2>1, OutSecType
  <2>3. outSecs \in Seq(ImageSection)  BY DEF LInv, TypeOK
  <2>4. QED  BY <2>2, <2>3
<1>2. section' = 1 /\ reloc' = 1 /\ error' = "none"  BY DEF LInv, Cursor
<1>3. \A i \in 1 .. Len(outSecs') : Len(outSecs'[i].relocs) \in Nat
  BY <1>1, RelocCount
<1>4. TypeOK'  BY <1>1, <1>2, <1>3 DEF LInv, TypeOK, LaidOut
<1>5. Cursor' /\ LayoutProgress' /\ ImageWellFormed'
  BY <1>2 DEF LInv, Cursor, LayoutProgress, ImageWellFormed, LaidOut
<1>6. QED  BY <1>4, <1>5 DEF LInv

\* A failing stage keeps the layout.
LEMMA FailLInv ==
    ASSUME LInv, NEW why \in {"object", "unresolved", "entry", "write"}, Fail(why),
           why # "object" <=> pc = "relocate"
    PROVE  LInv'
<1>1. UNCHANGED <<object, imports, outSecs, dlls, tableEnd, curRva, curRaw, section, reloc, jump, exe>>
  BY DEF Fail, input, layout, links
<1>2. pc' = "done" /\ error' = why  BY DEF Fail
<1>3. LaidOut' => LaidOut  BY <1>2 DEF LaidOut
<1>4. TypeOK'  BY <1>1, <1>2, <1>3 DEF LInv, TypeOK
<1>5. Cursor' /\ LayoutProgress'  BY <1>1, <1>2 DEF LInv, Cursor, LayoutProgress
<1>6. ImageWellFormed'  BY <1>1, <1>3, SameLayout DEF LInv, ImageWellFormed
<1>7. QED  BY <1>4, <1>5, <1>6 DEF LInv

\* Every step keeps the invariant of the layout.
LEMMA StepLInv == LInv /\ TInv' /\ [Next]_vars => LInv'
<1> SUFFICES ASSUME LInv, TInv', [Next]_vars PROVE LInv'  OBVIOUS
<1>1. CASE ReadObject
  <2>1. CASE Fail("object")  BY <1>1, <2>1, FailLInv DEF ReadObject
  <2>2. CASE ~Fail("object")
    <3>1. /\ pc = "read" /\ pc' = "prepare"
          /\ UNCHANGED <<object, imports, outSecs, dlls, tableEnd, curRva, curRaw, section, reloc,
                         jump, exe, error>>
      BY <1>1, <2>2 DEF ReadObject, input, layout, links
    <3>2. TypeOK'  BY <3>1 DEF LInv, TypeOK, LaidOut, Cursor
    <3>3. QED  BY <3>1, <3>2 DEF LInv, Cursor, LayoutProgress, ImageWellFormed, LaidOut
  <2>3. QED  BY <2>1, <2>2
<1>2. CASE PrepareOutputSections
  <2>1. object.sections \in Seq([name: SectionNames, size: Nat, relocs: Seq(Relocation)])
    BY ObjectsAssumption DEF LInv, TypeOK
  <2>2. \A i \in 1 .. Len(object.sections) :
           OutSec(object.sections[i].name, object.sections[i].size, object.sections[i].relocs)
              \in ImageSection
    <3> SUFFICES ASSUME NEW i \in 1 .. Len(object.sections)
                 PROVE  OutSec(object.sections[i].name, object.sections[i].size,
                               object.sections[i].relocs) \in ImageSection
      OBVIOUS
    <3>1. object.sections[i] \in [name: SectionNames, size: Nat, relocs: Seq(Relocation)]
      BY <2>1, ElementType
    <3>2. /\ object.sections[i].name \in SectionNames /\ object.sections[i].size \in Nat
          /\ object.sections[i].relocs \in Seq(Relocation)
      BY <3>1
    <3>3. QED  BY <3>2, OutSecType
  <2>3. /\ outSecs' = [i \in 1 .. Len(object.sections) |->
                        OutSec(object.sections[i].name, object.sections[i].size,
                               object.sections[i].relocs)]
        /\ Len(object.sections) \in Nat
    BY <1>2, <2>1 DEF PrepareOutputSections
  <2>4. outSecs' \in Seq(ImageSection)  BY <2>2, <2>3
  <2>5. \A i \in 1 .. Len(outSecs') : Len(outSecs'[i].relocs) \in Nat
    BY <2>4, RelocCount
  <2>6. /\ pc = "prepare" /\ pc' = "idata" /\ section' = 1 /\ reloc' = 1 /\ error' = "none"
        /\ UNCHANGED <<object, imports, dlls, tableEnd, curRva, curRaw, exe>>
    BY <1>2 DEF PrepareOutputSections, input, LInv, Cursor
  <2>7. TypeOK'  BY <2>4, <2>5, <2>6 DEF LInv, TypeOK, LaidOut
  <2>8. QED  BY <2>6, <2>7 DEF LInv, Cursor, LayoutProgress, ImageWellFormed, LaidOut
<1>3. CASE BeginImportTable \/ AddDll \/ AddName
  <2>1. /\ pc \in {"idata", "dlls"} /\ pc' = "dlls"
        /\ UNCHANGED <<object, imports, outSecs, curRva, curRaw, section, reloc, exe, error>>
    BY <1>3 DEF BeginImportTable, AddDll, AddName, input
  <2>2. tableEnd' \in Nat  BY DEF TInv
  <2>3. TypeOK'  BY <2>1, <2>2 DEF LInv, TypeOK, LaidOut
  <2>4. QED  BY <2>1, <2>3 DEF LInv, Cursor, LayoutProgress, ImageWellFormed, LaidOut
<1>13. CASE EndImportTable
  <2>1. tableEnd \in Nat  BY DEF LInv, TypeOK
  <2>2. /\ pc = "dlls" /\ pc' = "thunks"
        /\ outSecs' = Append(outSecs, OutSec(".idata", tableEnd, <<>>))
        /\ UNCHANGED <<object, imports, tableEnd, curRva, curRaw, section, reloc, exe, error>>
    BY <1>13 DEF EndImportTable, input
  <2>3. LInv /\ ".idata" \in SectionNames  BY SectionNamesAssumption
  <2>4. QED  BY <2>1, <2>2, <2>3, AppendLInv, Zenon
<1>4. CASE BuildThunks
  <2>1. Len(ImportFuncs) \in Nat
    <3>1. ImportFuncs \in Seq(DOMAIN imports)
      BY ListsOfNames DEF LInv, TypeOK, Lists, ImportFuncs
    <3>2. QED  BY <3>1
  <2>2. ThunkSize * Len(ImportFuncs) \in Nat  BY <2>1 DEF ThunkSize
  <2>3. /\ pc = "thunks" /\ pc' = "headers"
        /\ outSecs' = Append(outSecs, OutSec(".thnk", ThunkSize * Len(ImportFuncs), <<>>))
        /\ UNCHANGED <<object, imports, tableEnd, curRva, curRaw, section, reloc, exe, error>>
    BY <1>4 DEF BuildThunks, input
  <2>4. LInv /\ ".thnk" \in SectionNames  BY SectionNamesAssumption
  <2>5. QED  BY <2>2, <2>3, <2>4, AppendLInv, Zenon
<1>5. CASE BeginLayout
  <2>1. /\ pc = "headers" /\ pc' = "layout" /\ section' = 1 /\ reloc' = 1 /\ error' = "none"
        /\ UNCHANGED <<object, imports, outSecs, dlls, tableEnd, jump, exe>>
        /\ curRva' = RoundUp(HeadersSize, SectionAlignment) /\ curRaw' = HeadersSize
    BY <1>5 DEF BeginLayout, input, links, LInv, Cursor
  <2>2. outSecs \in Seq(ImageSection) /\ Len(outSecs) \in Nat  BY DEF LInv, TypeOK
  <2>3. HeadersEnd \in Nat /\ HeadersEnd' = HeadersEnd
    BY <2>1, <2>2 DEF HeadersEnd, HeaderSize, SectionHeaderSize
  <2>4. HeadersSize = RoundUp(HeadersEnd, FileAlignment)  BY DEF HeadersSize, HeadersEnd
  <2>5. HeadersSize \in Nat /\ HeadersSize >= HeadersEnd /\ HeadersSize % FileAlignment = 0
    BY <2>3, <2>4, RoundUpBounds
  <2>6. curRva' \in Nat /\ curRva' >= HeadersSize /\ curRva' % SectionAlignment = 0
    BY <2>1, <2>5, RoundUpBounds
  <2>7. \A i \in 1 .. Len(outSecs) : Len(outSecs[i].relocs) \in Nat
    BY <2>2, RelocCount
  <2>8. TypeOK'  BY <2>1, <2>2, <2>5, <2>6, <2>7 DEF LInv, TypeOK, LaidOut
  <2>9. PlacedWell(section - 1)'  BY <2>1 DEF PlacedWell
  <2>10. LayoutProgress'  BY <2>1, <2>3, <2>5, <2>6, <2>9 DEF LayoutProgress
  <2>11. QED  BY <2>1, <2>8, <2>10 DEF LInv, Cursor, ImageWellFormed, LaidOut
<1>6. CASE LayoutSection  BY <1>6, LayoutSectionLInv
<1>7. CASE ResolveSymbols
  <2>1. /\ pc = "layout" /\ pc' = "relocate" /\ section' = 1 /\ reloc' = 1
        /\ section > Len(outSecs) /\ DOMAIN jump' = DOMAIN imports
        /\ UNCHANGED <<object, imports, outSecs, dlls, tableEnd, curRva, curRaw, exe, error>>
    BY <1>7 DEF ResolveSymbols, input, layout
  <2>2. outSecs \in Seq(ImageSection) /\ Len(outSecs) \in Nat  BY DEF LInv, TypeOK
  <2>3. section - 1 = Len(outSecs)  BY <2>1, <2>2 DEF LInv, TypeOK
  <2>4. PlacedWell(Len(outSecs))  BY <2>1, <2>3 DEF LInv, LayoutProgress
  <2>5. ImageWellFormed'  BY <2>1, <2>4, SameLayout DEF ImageWellFormed
  <2>6. \A i \in 1 .. Len(outSecs) : Len(outSecs[i].relocs) \in Nat
    BY <2>2, RelocCount
  <2>7. TypeOK'  BY <2>1, <2>2, <2>6 DEF LInv, TypeOK
  <2>8. QED  BY <2>1, <2>5, <2>7 DEF LInv, Cursor, LayoutProgress
<1>8. CASE Relocate
  <2>1. CASE Fail("unresolved")  BY <1>8, <2>1, FailLInv DEF Relocate
  <2>2. CASE ~Fail("unresolved")
    <3>1. /\ pc = "relocate" /\ reloc' = reloc + 1 /\ section <= Len(outSecs)
          /\ reloc <= Len(outSecs[section].relocs)
          /\ UNCHANGED <<pc, object, imports, outSecs, dlls, tableEnd, curRva, curRaw, section, jump,
                         exe, error>>
      BY <1>8, <2>2 DEF Relocate, input, layout, links
    <3>2. section \in 1 .. Len(outSecs) /\ outSecs \in Seq(ImageSection)
      BY <3>1 DEF LInv, TypeOK
    <3>3. Len(outSecs[section].relocs) \in Nat  BY <3>2, RelocCount
    <3>4. reloc' \in 1 .. Len(outSecs[section].relocs) + 1
      BY <3>1, <3>2, <3>3 DEF LInv, TypeOK
    <3>5. TypeOK'  BY <3>1, <3>4 DEF LInv, TypeOK, LaidOut
    <3>6. ImageWellFormed'  BY <3>1, SameLayout DEF LInv, ImageWellFormed, LaidOut
    <3>7. QED  BY <3>1, <3>5, <3>6 DEF LInv, Cursor, LayoutProgress
  <2>3. QED  BY <2>1, <2>2
<1>9. CASE NextSection
  <2>1. /\ pc = "relocate" /\ reloc' = 1 /\ section' = section + 1 /\ section <= Len(outSecs)
        /\ UNCHANGED <<pc, object, imports, outSecs, dlls, tableEnd, curRva, curRaw, jump, exe, error>>
    BY <1>9 DEF NextSection, input, layout, links
  <2>2. outSecs \in Seq(ImageSection) /\ Len(outSecs) \in Nat  BY DEF LInv, TypeOK
  <2>3. section' \in 1 .. Len(outSecs) + 1  BY <2>1, <2>2 DEF LInv, TypeOK
  <2>4. \A i \in 1 .. Len(outSecs) : Len(outSecs[i].relocs) \in Nat
    BY <2>2, RelocCount
  <2>5. TypeOK'  BY <2>1, <2>2, <2>3, <2>4 DEF LInv, TypeOK, LaidOut
  <2>6. ImageWellFormed'  BY <2>1, SameLayout DEF LInv, ImageWellFormed, LaidOut
  <2>7. QED  BY <2>1, <2>5, <2>6 DEF LInv, Cursor, LayoutProgress
<1>10. CASE EmitPe
  <2>1. CASE \E why \in {"entry", "write"} : Fail(why)
    <3>1. PICK why \in {"entry", "write"} : Fail(why)  BY <2>1
    <3>2. pc = "relocate"  BY <1>10 DEF EmitPe
    <3>3. QED  BY <3>1, <3>2, FailLInv
  <2>2. CASE ~\E why \in {"entry", "write"} : Fail(why)
    <3>1. /\ pc = "relocate" /\ pc' = "done"
          /\ UNCHANGED <<object, imports, outSecs, dlls, tableEnd, curRva, curRaw, section, reloc, jump,
                         error>>
      BY <1>10, <2>2 DEF EmitPe, input, layout, links
    <3>2. LaidOut  BY <3>1 DEF LaidOut
    <3>3. TypeOK'  BY <3>1, <3>2 DEF LInv, TypeOK
    <3>4. ImageWellFormed'  BY <3>1, <3>2, SameLayout DEF LInv, ImageWellFormed
    <3>5. QED  BY <3>1, <3>3, <3>4 DEF LInv, Cursor, LayoutProgress
  <2>3. QED  BY <2>1, <2>2
<1>11. CASE UNCHANGED vars
  <2>1. UNCHANGED <<pc, object, imports, outSecs, dlls, tableEnd, curRva, curRaw, section, reloc, jump,
                   exe, error>>
    BY <1>11 DEF vars, input, layout, links
  <2>2. TypeOK'  BY <2>1 DEF LInv, TypeOK, LaidOut
  <2>3. ImageWellFormed'  BY <2>1, SameLayout DEF LInv, ImageWellFormed, LaidOut
  <2>4. LayoutProgress'
    BY <2>1 DEF LInv, LayoutProgress, PlacedWell, Fits, RvaEnd, RawEnd, HeadersEnd
  <2>5. QED  BY <2>1, <2>2, <2>3, <2>4 DEF LInv, Cursor
<1>12. QED
  BY <1>1, <1>2, <1>3, <1>13, <1>4, <1>5, <1>6, <1>7, <1>8, <1>9, <1>10, <1>11 DEF Next

-----------------------------------------------------------------------------
\* The layout of the image at each turn of the loop of layoutSections.
THEOREM LinkerInvariance == Spec => []LInv
<1>1. Init => LInv  BY InitLInv
<1>2. LInv /\ TInv' /\ [Next]_vars => LInv'  BY StepLInv
<1>3. QED  BY <1>1, <1>2, ImportTableBuilt, PTL DEF Spec

\* TypeOK: the linker's loops stay inside the sections and relocations they run over.
THEOREM LinkerTypeCorrect == Spec => []TypeOK
<1>1. LInv => TypeOK  BY DEF LInv
<1>2. QED  BY <1>1, LinkerInvariance, PTL

\* ImageWellFormed: sections overlap neither each other nor the headers, in the file
\* and in memory, whatever the sizes of the object's sections and of the import table.
THEOREM ImageLoads == Spec => []ImageWellFormed
<1>1. LInv => ImageWellFormed  BY DEF LInv
<1>2. QED  BY <1>1, LinkerInvariance, PTL

-----------------------------------------------------------------------------
(* References: the sections stay those of the object, followed by the      *)
(* linker's own; behind the loops of applyRelocations each field holds the *)
(* distance to its target, before them its addend.                         *)

\* The object's sections come first, then n of the linker's own.
Assembled(n) ==
    /\ Len(outSecs) = Len(object.sections) + n
    /\ \A i \in 1 .. Len(outSecs) :
          outSecs[i].relocs = IF i <= Len(object.sections) THEN object.sections[i].relocs ELSE <<>>
    /\ n >= 1 => LET s == outSecs[Len(object.sections) + 1]
                 IN  s.name = ".idata" /\ s.size = tableEnd
    /\ n >= 2 => outSecs[Len(object.sections) + 2].name = ".thnk"

SectionsOK ==
    /\ pc \in {"idata", "dlls"} => Assembled(0)
    /\ pc = "thunks" => Assembled(1)
    /\ pc \in {"headers", "layout"} \/ LaidOut => Assembled(2)

\* What resolveSymbols has computed.
SymbolsOK ==
    LaidOut =>
        /\ DOMAIN symRva = DefinedNames
        /\ \A n \in DefinedNames : symRva[n] \in Nat /\ symRva[n] > 0 /\ DefinedAt(n, symRva[n])
        /\ \A f \in DOMAIN imports :
              /\ thunkRva[f] \in Nat /\ thunkRva[f] > 0
              /\ thunkRva[f] = outSecs[Len(outSecs)].rva + ThunkOffset(f)
              /\ jump[f] = (outSecs[Len(outSecs) - 1].rva + CellOffset(f)) - (thunkRva[f] + 6)

\* Relocation k of section i is behind the loops.
Behind(i, k) == i < section \/ (i = section /\ k < reloc)

Passed ==
    LaidOut => \A i \in 1 .. Len(object.sections) : \A k \in 1 .. Len(object.sections[i].relocs) :
        Behind(i, k) => Resolvable(object.sections[i].relocs[k])

Distance(i, r) == Target(object.syms[r.symbol].name) + r.addend - (outSecs[i].rva + r.at + 4)

\* What the field of relocation k of section i holds.
Held(i, k) ==
    LET r == object.sections[i].relocs[k]
    IN  IF LaidOut /\ Behind(i, k) /\ r.type = "REL32" THEN Distance(i, r) ELSE r.addend

Prepared == pc \in {"idata", "dlls", "thunks", "headers", "layout"} \/ LaidOut

FieldsOK ==
    Prepared =>
        /\ DOMAIN field = Fields
        /\ \A i \in 1 .. Len(object.sections) : \A k \in 1 .. Len(object.sections[i].relocs) :
              field[<<i, object.sections[i].relocs[k].at>>] = Held(i, k)

Outcome ==
    /\ exe # 0 => Linked
    /\ error = "unresolved" => \E r \in AllRelocs : ~Resolvable(r)
    /\ error = "entry" => Entry \notin DefinedNames
    /\ Linked => section > Len(outSecs) /\ Entry \in DefinedNames /\ exe = symRva[Entry]

-----------------------------------------------------------------------------
(* Objects *)

\* What an object holds.
LEMMA ObjectTypes ==
    ASSUME object \in Objects
    PROVE  /\ Len(object.sections) \in Nat /\ DOMAIN object.sections = 1 .. Len(object.sections)
           /\ \A i \in 1 .. Len(object.sections) :
                 /\ object.sections[i].relocs \in Seq(Relocation)
                 /\ object.sections[i].name \in SectionNames /\ object.sections[i].size \in Nat
           /\ object.syms \in Seq([name: STRING, section: Int, value: Nat])
<1>1. object.sections \in Seq([name: SectionNames, size: Nat, relocs: Seq(Relocation)])
      /\ object.syms \in Seq([name: STRING, section: Int, value: Nat])
  BY ObjectsAssumption
<1>2. ASSUME NEW i \in 1 .. Len(object.sections)
      PROVE  /\ object.sections[i].relocs \in Seq(Relocation)
             /\ object.sections[i].name \in SectionNames /\ object.sections[i].size \in Nat
  <2>1. object.sections[i] \in [name: SectionNames, size: Nat, relocs: Seq(Relocation)]
    BY <1>1, ElementType
  <2>2. QED  BY <2>1
<1>3. QED  BY <1>1, <1>2

\* A relocation of the object, and that no other of its section patches the same place.
LEMMA RelocTypes ==
    ASSUME object \in Objects, NEW i \in 1 .. Len(object.sections),
           NEW k \in 1 .. Len(object.sections[i].relocs)
    PROVE  /\ object.sections[i].relocs[k].at \in Nat
           /\ object.sections[i].relocs[k].addend \in Int
           /\ object.sections[i].relocs[k] \in ToSet(object.sections[i].relocs)
           /\ \A l \in 1 .. Len(object.sections[i].relocs) :
                 object.sections[i].relocs[l].at = object.sections[i].relocs[k].at => l = k
<1> DEFINE rs == object.sections[i].relocs
<1>1. rs \in Seq(Relocation) /\ DOMAIN object.sections = 1 .. Len(object.sections)  BY ObjectTypes
<1>2. DOMAIN rs = 1 .. Len(rs)  BY <1>1
<1>3. rs[k] \in Relocation  BY <1>1
<1>4. rs[k] \in ToSet(rs)  BY <1>2 DEF ToSet
<1>5. \A l \in 1 .. Len(rs) : rs[l].at = rs[k].at => l = k
  BY <1>1, <1>2, ObjectsAssumption
<1>6. QED  BY <1>3, <1>4, <1>5 DEF Relocation

\* Of the symbols that define a name there is a last one.
LEMMA LastSymbolDefines ==
    ASSUME object \in Objects, NEW n \in DefinedNames
    PROVE  \E k \in DOMAIN object.syms : Defines(k, n) /\ LastSymbol(n) = object.syms[k]
<1> DEFINE N == Len(object.syms)
           T == {k \in 1 .. N : Defines(k, n)}
           D == {N - k : k \in T}
<1>1. N \in Nat /\ DOMAIN object.syms = 1 .. N  BY ObjectTypes
<1>2. T # {}
  <2>1. PICK s \in ToSet(object.syms) : s.section > 0 /\ s.name = n  BY DEF DefinedNames
  <2>2. PICK k \in DOMAIN object.syms : s = object.syms[k]  BY DEF ToSet
  <2>3. k \in T  BY <1>1, <2>1, <2>2 DEF Defines
  <2>4. QED  BY <2>3
<1>3. T \subseteq 1 .. N /\ \A j \in 1 .. N : Defines(j, n) => j \in T  OBVIOUS
<1>4. \A j \in T : Defines(j, n)  OBVIOUS
<1> HIDE DEF T
<1>5. D \subseteq Nat /\ D # {}
  <2>1. ASSUME NEW j \in T  PROVE N - j \in Nat
    <3>1. j \in 1 .. N  BY <1>3
    <3>2. QED  BY <1>1, <3>1
  <2>2. QED  BY <1>2, <2>1
<1>6. PICK m \in D : \A y \in D : m <= y
  <2> HIDE DEF D
  <2>1. QED  BY <1>5, LeastElement
<1>7. PICK k \in T : m = N - k  OBVIOUS
<1>8. ASSUME NEW j \in k + 1 .. N  PROVE ~Defines(j, n)
  <2>1. SUFFICES ASSUME Defines(j, n)  PROVE FALSE  OBVIOUS
  <2>2. k \in 1 .. N  BY <1>7, <1>3
  <2>3. k \in Nat /\ j \in 1 .. N /\ k < j  BY <1>1, <2>2
  <2>4. j \in T  BY <1>3, <2>1, <2>3
  <2>5. N - k <= N - j  BY <1>6, <1>7, <2>4
  <2>6. QED  BY <1>1, <2>3, <2>5
<1>9. k \in DOMAIN object.syms /\ Defines(k, n)
      /\ \A j \in k + 1 .. Len(object.syms) : ~Defines(j, n)
  BY <1>1, <1>7, <1>8, <1>3, <1>4
<1>10. QED  BY <1>9 DEF LastSymbol

-----------------------------------------------------------------------------
(* The list of sections *)

\* A step that leaves the sections alone leaves them assembled.
LEMMA AssembledSame ==
    ASSUME UNCHANGED <<object, outSecs, tableEnd>>, NEW n
    PROVE  Assembled(n)' <=> Assembled(n)
BY DEF Assembled

\* One more of the linker's own sections.
LEMMA AssembledAppend ==
    ASSUME object \in Objects, outSecs \in Seq(ImageSection), NEW n \in 0 .. 1, Assembled(n),
           NEW name, NEW z, UNCHANGED <<object, tableEnd>>,
           outSecs' = Append(outSecs, OutSec(name, z, <<>>)),
           n = 0 => name = ".idata" /\ z = tableEnd,
           n = 1 => name = ".thnk"
    PROVE  Assembled(n + 1)'
<1> DEFINE N == Len(object.sections)
           s == OutSec(name, z, <<>>)
<1>1. N \in Nat /\ n \in Nat /\ Len(outSecs) = N + n  BY ObjectTypes DEF Assembled
<1> HIDE DEF N
<1>2. s.name = name /\ s.size = z /\ s.relocs = <<>>  BY DEF OutSec
<1> HIDE DEF s
<1>3. Len(outSecs') = N + n + 1 /\ outSecs'[N + n + 1] = s
      /\ \A i \in 1 .. N + n : outSecs'[i] = outSecs[i]
  BY <1>1 DEF s
<1>4. ASSUME NEW i \in 1 .. N + n + 1
      PROVE  outSecs'[i].relocs = IF i <= N THEN object.sections[i].relocs ELSE <<>>
  <2>1. CASE i = N + n + 1  BY <1>1, <1>2, <1>3, <2>1
  <2>2. CASE i \in 1 .. N + n
    <3>1. outSecs[i].relocs = IF i <= N THEN object.sections[i].relocs ELSE <<>>
      BY <1>1, <2>2 DEF Assembled, N
    <3>2. QED  BY <1>3, <2>2, <3>1
  <2>3. QED  BY <1>1, <2>1, <2>2
<1>5. outSecs'[N + 1].name = ".idata" /\ outSecs'[N + 1].size = tableEnd
  <2>1. CASE n = 0
    <3>1. outSecs'[N + 1] = s  BY <1>1, <1>3, <2>1
    <3>2. name = ".idata" /\ z = tableEnd  BY <2>1
    <3>3. QED  BY <1>2, <3>1, <3>2
  <2>2. CASE n = 1
    <3>1. outSecs[N + 1].name = ".idata" /\ outSecs[N + 1].size = tableEnd
      BY <2>2 DEF Assembled, N
    <3>2. outSecs'[N + 1] = outSecs[N + 1]  BY <1>1, <1>3, <2>2
    <3>3. QED  BY <3>1, <3>2
  <2>3. n = 0 \/ n = 1  OBVIOUS
  <2>4. QED  BY <2>1, <2>2, <2>3, Zenon
<1>6. n + 1 >= 2 => outSecs'[N + 2].name = ".thnk"
  BY <1>1, <1>2, <1>3
<1>7. Len(outSecs') = N + (n + 1) /\ Len(outSecs') = N + n + 1  BY <1>1, <1>3
<1>8. QED  BY <1>4, <1>5, <1>6, <1>7 DEF Assembled, N

\* Placing a section does not change what it is.
LEMMA AssembledPlaced ==
    ASSUME LInv, LayoutSection, Assembled(2)
    PROVE  Assembled(2)'
<1> DEFINE N == Len(object.sections)
<1>1. outSecs \in Seq(ImageSection) /\ object \in Objects /\ section \in 1 .. Len(outSecs)
  BY DEF LInv, TypeOK, LayoutSection
<1>2. N \in Nat /\ Len(outSecs) = N + 2  BY <1>1, ObjectTypes DEF Assembled
<1>3. UNCHANGED <<object, tableEnd>>  BY DEF LayoutSection, input
<1>4. /\ Len(outSecs') = Len(outSecs)
      /\ \A i \in 1 .. N + 2 : /\ outSecs'[i].name = outSecs[i].name
                               /\ outSecs'[i].size = outSecs[i].size
                               /\ outSecs'[i].relocs = outSecs[i].relocs
  <2>1. outSecs' = [outSecs EXCEPT ![section] = Placed(outSecs[section], curRva, curRaw)]
    BY DEF LayoutSection
  <2>2. Len(outSecs') = Len(outSecs)
    <3>1. Placed(outSecs[section], curRva, curRaw) \in ImageSection
      <4>1. outSecs[section] \in ImageSection /\ curRva \in Nat /\ curRaw \in Nat
        BY <1>1 DEF LInv, TypeOK
      <4>2. QED  BY <4>1, PlacedType, Zenon
    <3>2. QED  BY <1>1, <2>1, <3>1
  <2>3. ASSUME NEW i \in 1 .. N + 2
        PROVE  /\ outSecs'[i].name = outSecs[i].name
               /\ outSecs'[i].size = outSecs[i].size
               /\ outSecs'[i].relocs = outSecs[i].relocs
    <3>1. CASE i = section
      <4>1. outSecs'[i] = Placed(outSecs[i], curRva, curRaw)  BY <1>1, <2>1, <3>1
      <4>2. QED  BY <4>1 DEF Placed
    <3>2. CASE i # section
      <4>1. outSecs'[i] = outSecs[i]  BY <1>1, <1>2, <2>1, <3>2
      <4>2. QED  BY <4>1
    <3>3. QED  BY <3>1, <3>2
  <2>4. QED  BY <2>2, <2>3
<1>5. N + 1 \in 1 .. N + 2 /\ N + 2 \in 1 .. N + 2  BY <1>2
<1>6. QED  BY <1>2, <1>3, <1>4, <1>5 DEF Assembled

\* Every step keeps the sections in the order the later stages look for them.
LEMMA StepSections == LInv /\ TInv /\ SectionsOK /\ [Next]_vars => SectionsOK'
<1> SUFFICES ASSUME LInv, TInv, SectionsOK, [Next]_vars PROVE SectionsOK'  OBVIOUS
<1>1. outSecs \in Seq(ImageSection) /\ object \in Objects  BY DEF LInv, TypeOK
<1>2. CASE PrepareOutputSections
  <2>1. pc' = "idata" /\ UNCHANGED <<object, tableEnd, error>>
        /\ outSecs' = [i \in 1 .. Len(object.sections) |->
                          OutSec(object.sections[i].name, object.sections[i].size,
                                 object.sections[i].relocs)]
    BY <1>1, <1>2, ObjectTypes DEF PrepareOutputSections, input
  <2>2. Len(object.sections) \in Nat  BY <1>1, ObjectTypes
  <2>3. Len(outSecs') = Len(object.sections)  BY <2>1, <2>2
  <2>4. \A i \in 1 .. Len(object.sections) : outSecs'[i].relocs = object.sections[i].relocs
    BY <2>1 DEF OutSec
  <2>5. Assembled(0)'
    <3>1. Len(outSecs)' = Len(object.sections)' + 0  BY <2>1, <2>2, <2>3
    <3>2. \A i \in 1 .. Len(outSecs') : i <= Len(object.sections)  BY <2>2, <2>3
    <3>3. \A i \in 1 .. Len(outSecs') :
             outSecs'[i].relocs = IF i <= Len(object.sections) THEN object.sections[i].relocs ELSE <<>>
      BY <2>3, <2>4, <3>2
    <3>4. ~(0 >= 1) /\ ~(0 >= 2)  OBVIOUS
    <3>5. QED  BY <2>1, <3>1, <3>3, <3>4 DEF Assembled
  <2>6. QED  BY <2>1, <2>5 DEF SectionsOK, LaidOut
<1>3. CASE BeginImportTable \/ AddDll \/ AddName
  <2>1. /\ pc \in {"idata", "dlls"} /\ pc' = "dlls" /\ UNCHANGED <<object, outSecs>>
    BY <1>3 DEF BeginImportTable, AddDll, AddName, input
  <2>2. Assembled(0)'  BY <2>1 DEF SectionsOK, Assembled
  <2>3. QED  BY <2>1, <2>2 DEF SectionsOK, LaidOut
<1>4. CASE EndImportTable
  <2>1. /\ pc = "dlls" /\ pc' = "thunks" /\ UNCHANGED <<object, tableEnd>>
        /\ outSecs' = Append(outSecs, OutSec(".idata", tableEnd, <<>>)) /\ Assembled(0)
    BY <1>4 DEF EndImportTable, input, SectionsOK
  <2>2. Assembled(0 + 1)'  BY <1>1, <2>1, AssembledAppend
  <2>3. QED  BY <2>1, <2>2 DEF SectionsOK, LaidOut
<1>5. CASE BuildThunks
  <2>1. /\ pc' = "headers" /\ UNCHANGED <<object, tableEnd>> /\ Assembled(1)
        /\ outSecs' = Append(outSecs, OutSec(".thnk", ThunkSize * Len(ImportFuncs), <<>>))
    BY <1>5 DEF BuildThunks, input, SectionsOK
  <2>2. Assembled(1 + 1)'  BY <1>1, <2>1, AssembledAppend
  <2>3. QED  BY <2>1, <2>2 DEF SectionsOK, LaidOut
<1>6. CASE LayoutSection
  <2>1. pc = "layout" /\ pc' = "layout"  BY <1>6 DEF LayoutSection
  <2>2. Assembled(2)'  BY <1>6, <2>1, AssembledPlaced DEF SectionsOK
  <2>3. QED  BY <2>1, <2>2 DEF SectionsOK, LaidOut
<1>7. ASSUME UNCHANGED <<object, outSecs, tableEnd>>, pc' \notin {"idata", "dlls", "thunks"},
             pc' \in {"headers", "layout"} \/ LaidOut' => pc \in {"headers", "layout"} \/ LaidOut
      PROVE  SectionsOK'
  BY <1>7, AssembledSame DEF SectionsOK
<1>8. CASE ReadObject
  BY <1>8, <1>7 DEF ReadObject, Fail, input, layout, LaidOut, TInv
<1>9. CASE BeginLayout  BY <1>9, <1>7 DEF BeginLayout, input
<1>10. CASE ResolveSymbols  BY <1>10, <1>7 DEF ResolveSymbols, input, layout
<1>11. CASE Relocate
  BY <1>11, <1>7 DEF Relocate, Fail, input, layout, LaidOut, TInv
<1>12. CASE NextSection  BY <1>12, <1>7 DEF NextSection, input, layout, LaidOut
<1>13. CASE EmitPe  BY <1>13, <1>7 DEF EmitPe, Fail, input, layout, LaidOut, TInv
<1>14. CASE UNCHANGED vars
  BY <1>14, AssembledSame DEF vars, input, layout, LaidOut, SectionsOK
<1>15. QED
  BY <1>2, <1>3, <1>4, <1>5, <1>6, <1>8, <1>9, <1>10, <1>11, <1>12, <1>13, <1>14 DEF Next

-----------------------------------------------------------------------------
(* Symbols, and the import table in the image *)

\* Thunks lie in the order of the names.
LEMMA ThunkOffsetType ==
    ASSUME imports \in ImportTables, NEW f \in DOMAIN imports
    PROVE  ThunkOffset(f) \in Nat
<1>1. Lists(ImportFuncs, DOMAIN imports)  BY ListsOfNames DEF ImportFuncs
<1>2. \E k \in DOMAIN ImportFuncs : ImportFuncs[k] = f  BY <1>1 DEF Lists
<1> DEFINE k == CHOOSE k \in DOMAIN ImportFuncs : ImportFuncs[k] = f
<1>3. k \in DOMAIN ImportFuncs  BY <1>2
<1>4. ThunkOffset(f) = ThunkSize * (k - 1)  BY DEF ThunkOffset
<1> HIDE DEF k
<1>5. k \in Nat /\ k >= 1
  <2>1. ImportFuncs \in Seq(DOMAIN imports)  BY <1>1 DEF Lists
  <2>2. QED  BY <1>3, <2>1
<1>6. QED  BY <1>4, <1>5 DEF ThunkSize

\* The sections of a finished layout, and where the linker's own are.
LEMMA FinishedSections ==
    ASSUME LInv, Assembled(2)
    PROVE  /\ object \in Objects /\ imports \in ImportTables
           /\ outSecs \in Seq(ImageSection) /\ Len(outSecs) = Len(object.sections) + 2
           /\ Len(object.sections) \in Nat /\ Len(outSecs) \in Nat
           /\ \A i \in 1 .. Len(outSecs) : outSecs[i].rva \in Nat
           /\ \A i \in 1 .. Len(object.sections) : i \in 1 .. Len(outSecs)
           /\ SectionNamed(".thnk") = Len(outSecs)
           /\ SectionNamed(".idata") = Len(outSecs) - 1
<1> DEFINE N == Len(object.sections)
<1>1. /\ object \in Objects /\ imports \in ImportTables /\ outSecs \in Seq(ImageSection)
  BY DEF LInv, TypeOK
<1>2. N \in Nat /\ Len(outSecs) = N + 2 /\ outSecs[N + 1].name = ".idata"
      /\ outSecs[N + 2].name = ".thnk"
  BY <1>1, ObjectTypes DEF Assembled
<1>3. \A i \in 1 .. Len(outSecs) : outSecs[i].rva \in Nat
  <2>1. \A i \in 1 .. Len(outSecs) : outSecs[i] \in ImageSection  BY <1>1
  <2>2. QED  BY <2>1 DEF ImageSection
<1>4. \A i \in 1 .. N : i \in 1 .. Len(outSecs)  BY <1>2
<1>5. DOMAIN outSecs = 1 .. N + 2  BY <1>1, <1>2
<1> HIDE DEF N
<1>6. SectionNamed(".thnk") = N + 2
  <2> DEFINE P(i) == /\ outSecs[i].name = ".thnk"
                     /\ \A j \in i + 1 .. Len(outSecs) : outSecs[j].name # ".thnk"
  <2>1. P(N + 2)  BY <1>2
  <2>2. \A i \in 1 .. N + 2 : P(i) => i = N + 2
    <3>1. SUFFICES ASSUME NEW i \in 1 .. N + 2, P(i), i # N + 2  PROVE FALSE  OBVIOUS
    <3>2. N + 2 \in i + 1 .. Len(outSecs)  BY <1>2, <3>1
    <3>3. QED  BY <1>2, <3>1, <3>2
  <2>3. N + 2 \in DOMAIN outSecs  BY <1>2, <1>5
  <2>4. SectionNamed(".thnk") = CHOOSE i \in DOMAIN outSecs : P(i)  BY DEF SectionNamed
  <2> HIDE DEF P
  <2>5. QED  BY <1>5, <2>1, <2>2, <2>3, <2>4
<1>7. SectionNamed(".idata") = N + 1
  <2> DEFINE P(i) == /\ outSecs[i].name = ".idata"
                     /\ \A j \in i + 1 .. Len(outSecs) : outSecs[j].name # ".idata"
  <2>1. P(N + 1)
    <3>1. ASSUME NEW j \in N + 1 + 1 .. Len(outSecs)  PROVE outSecs[j].name # ".idata"
      <4>1. j = N + 2  BY <1>2, <3>1
      <4>2. QED  BY <1>2, <4>1
    <3>2. QED  BY <1>2, <3>1
  <2>2. \A i \in 1 .. N + 2 : P(i) => i = N + 1
    <3>1. SUFFICES ASSUME NEW i \in 1 .. N + 2, P(i), i # N + 1  PROVE FALSE  OBVIOUS
    <3>2. CASE i = N + 2  BY <1>2, <3>1, <3>2
    <3>3. CASE i # N + 2
      <4>1. N + 1 \in i + 1 .. Len(outSecs)  BY <1>2, <3>1, <3>3
      <4>2. QED  BY <1>2, <3>1, <4>1
    <3>4. QED  BY <3>2, <3>3
  <2>3. N + 1 \in DOMAIN outSecs  BY <1>2, <1>5
  <2>4. SectionNamed(".idata") = CHOOSE i \in DOMAIN outSecs : P(i)  BY DEF SectionNamed
  <2> HIDE DEF P
  <2>5. QED  BY <1>5, <2>1, <2>2, <2>3, <2>4
<1>8. QED  BY <1>1, <1>2, <1>3, <1>4, <1>6, <1>7 DEF N

\* What names mean depends on these variables only.
LEMMA SymbolsSame ==
    ASSUME UNCHANGED <<object, imports, outSecs, dlls, symRva, thunkRva, jump>>
    PROVE  /\ DefinedNames' = DefinedNames
           /\ \A n, a : DefinedAt(n, a)' <=> DefinedAt(n, a)
           /\ \A f : ThunkOffset(f)' = ThunkOffset(f) /\ CellOffset(f)' = CellOffset(f)
           /\ \A n : Target(n)' = Target(n)
           /\ \A r : Resolvable(r)' <=> Resolvable(r)
BY DEF DefinedNames, DefinedAt, ThunkOffset, ImportFuncs, CellOffset, Target, Resolvable

\* resolveSymbols finds each defined name in its section and each import in its thunk.
LEMMA ResolveSymbolsOK ==
    ASSUME LInv, LInv', SectionsOK, ResolveSymbols
    PROVE  SymbolsOK'
<1>1. /\ Assembled(2) /\ pc' = "relocate"
      /\ UNCHANGED <<object, imports, outSecs, dlls>>
  BY DEF ResolveSymbols, SectionsOK, input, layout
<1>2. /\ object \in Objects /\ imports \in ImportTables
      /\ outSecs \in Seq(ImageSection) /\ Len(outSecs) = Len(object.sections) + 2
      /\ Len(object.sections) \in Nat /\ Len(outSecs) \in Nat
      /\ \A i \in 1 .. Len(outSecs) : outSecs[i].rva \in Nat
      /\ \A i \in 1 .. Len(object.sections) : i \in 1 .. Len(outSecs)
      /\ SectionNamed(".thnk") = Len(outSecs) /\ SectionNamed(".idata") = Len(outSecs) - 1
  BY <1>1, FinishedSections
<1>3. \A i \in 1 .. Len(outSecs) : outSecs[i].rva > 0
  <2>1. PlacedWell(Len(outSecs))'  BY <1>1 DEF LInv, ImageWellFormed, LaidOut
  <2>2. PlacedWell(Len(outSecs))
    BY <1>1, <2>1 DEF PlacedWell, Fits, RvaEnd, RawEnd, HeadersEnd, LInv, LayoutProgress, ResolveSymbols, TypeOK
  <2>3. \A i \in 1 .. Len(outSecs) : outSecs[i].rva >= HeadersEnd
    BY <2>2 DEF PlacedWell, Fits
  <2>4. HeadersEnd \in Nat /\ HeadersEnd > 0
    BY <1>2 DEF HeadersEnd, HeaderSize, SectionHeaderSize
  <2>5. QED  BY <1>2, <2>3, <2>4
<1>4. ASSUME NEW n \in DefinedNames
      PROVE  symRva'[n] \in Nat /\ symRva'[n] > 0 /\ DefinedAt(n, symRva'[n])
  <2>1. PICK k \in DOMAIN object.syms : Defines(k, n) /\ LastSymbol(n) = object.syms[k]
    BY <1>2, LastSymbolDefines
  <2> DEFINE s == object.syms[k]
  <2>2. s \in ToSet(object.syms) /\ s.name = n /\ s.section > 0 /\ s.section \in Int
        /\ s.value \in Nat /\ s.section <= Len(object.sections)
    <3>1. object.syms \in Seq([name: STRING, section: Int, value: Nat])  BY <1>2, ObjectTypes
    <3>2. s \in [name: STRING, section: Int, value: Nat]
      <4>1. k \in 1 .. Len(object.syms)  BY <2>1, <3>1
      <4>2. QED  BY <3>1, <4>1, ElementType
    <3>3. s \in ToSet(object.syms)  BY <2>1 DEF ToSet
    <3>4. s.section <= Len(object.sections)  BY <1>2, <2>1, ObjectsAssumption
    <3>5. QED  BY <2>1, <3>2, <3>3, <3>4 DEF Defines
  <2>3. symRva'[n] = outSecs[s.section].rva + s.value  BY <2>1 DEF ResolveSymbols
  <2> HIDE DEF s
  <2>4. s.section \in 1 .. Len(outSecs)  BY <1>2, <2>2
  <2>5. outSecs[s.section].rva \in Nat /\ outSecs[s.section].rva > 0  BY <1>2, <1>3, <2>4
  <2>6. symRva'[n] \in Nat /\ symRva'[n] > 0  BY <2>2, <2>3, <2>5
  <2>7. DefinedAt(n, symRva'[n])  BY <2>2, <2>3 DEF DefinedAt
  <2>8. QED  BY <2>6, <2>7
<1>5. ASSUME NEW f \in DOMAIN imports
      PROVE  /\ thunkRva'[f] \in Nat /\ thunkRva'[f] > 0
             /\ thunkRva'[f] = outSecs[Len(outSecs)].rva + ThunkOffset(f)
             /\ jump'[f] = (outSecs[Len(outSecs) - 1].rva + CellOffset(f)) - (thunkRva'[f] + 6)
  <2>1. thunkRva'[f] = outSecs[Len(outSecs)].rva + ThunkOffset(f)
    BY <1>2 DEF ResolveSymbols
  <2>2. ThunkOffset(f) \in Nat  BY <1>2, ThunkOffsetType
  <2>3. Len(outSecs) \in 1 .. Len(outSecs)  BY <1>2
  <2>4. outSecs[Len(outSecs)].rva \in Nat /\ outSecs[Len(outSecs)].rva > 0  BY <1>2, <1>3, <2>3
  <2>5. thunkRva'[f] \in Nat /\ thunkRva'[f] > 0  BY <2>1, <2>2, <2>4
  <2>6. iatRva'[f] = outSecs[Len(outSecs) - 1].rva + CellOffset(f)
    BY <1>2 DEF ResolveSymbols
  <2>7. jump'[f] = iatRva'[f] - (thunkRva'[f] + 6)  BY DEF ResolveSymbols
  <2>8. jump'[f] = (outSecs[Len(outSecs) - 1].rva + CellOffset(f)) - (thunkRva'[f] + 6)
    BY <2>6, <2>7, Zenon
  <2>9. QED  BY <2>1, <2>5, <2>8, Zenon
<1>6. DOMAIN symRva' = DefinedNames  BY DEF ResolveSymbols
<1>7. /\ DefinedNames' = DefinedNames
      /\ \A n : DefinedAt(n, symRva'[n]) => DefinedAt(n, symRva[n])'
      /\ \A f : ThunkOffset(f)' = ThunkOffset(f) /\ CellOffset(f)' = CellOffset(f)
  BY <1>1 DEF DefinedNames, DefinedAt, ThunkOffset, ImportFuncs, CellOffset
<1>8. QED  BY <1>1, <1>4, <1>5, <1>6, <1>7 DEF SymbolsOK

\* Every step keeps the addresses that resolveSymbols found.
LEMMA StepSymbols == LInv /\ LInv' /\ SectionsOK /\ SymbolsOK /\ [Next]_vars => SymbolsOK'
<1> SUFFICES ASSUME LInv, LInv', SectionsOK, SymbolsOK, [Next]_vars PROVE SymbolsOK'  OBVIOUS
<1>1. CASE ResolveSymbols  BY <1>1, ResolveSymbolsOK
<1>2. ASSUME UNCHANGED <<object, imports, outSecs, dlls, symRva, thunkRva, jump>>, LaidOut' => LaidOut
      PROVE  SymbolsOK'
  <2> SUFFICES ASSUME LaidOut'  PROVE SymbolsOK'  BY DEF SymbolsOK
  <2>1. LaidOut  BY <1>2
  <2>2. /\ DefinedNames' = DefinedNames
        /\ \A n, a : DefinedAt(n, a)' <=> DefinedAt(n, a)
        /\ \A f : ThunkOffset(f)' = ThunkOffset(f) /\ CellOffset(f)' = CellOffset(f)
    BY <1>2, SymbolsSame
  <2>3. \A n : DefinedAt(n, symRva[n])' <=> DefinedAt(n, symRva[n])
    BY <1>2 DEF DefinedAt
  <2>4. QED  BY <1>2, <2>1, <2>2, <2>3 DEF SymbolsOK
<1>3. ASSUME ~LaidOut'  PROVE SymbolsOK'  BY <1>3 DEF SymbolsOK
<1>4. CASE ReadObject  BY <1>3, <1>4 DEF ReadObject, Fail, LaidOut, LInv, Cursor
<1>5. CASE PrepareOutputSections  BY <1>3, <1>5 DEF PrepareOutputSections, LaidOut
<1>6. CASE BeginImportTable \/ AddDll \/ AddName
  BY <1>3, <1>6 DEF BeginImportTable, AddDll, AddName, LaidOut
<1>7. CASE EndImportTable  BY <1>3, <1>7 DEF EndImportTable, LaidOut
<1>8. CASE BuildThunks  BY <1>3, <1>8 DEF BuildThunks, LaidOut
<1>9. CASE BeginLayout  BY <1>3, <1>9 DEF BeginLayout, LaidOut
<1>10. CASE LayoutSection  BY <1>3, <1>10 DEF LayoutSection, LaidOut
<1>11. CASE Relocate
  BY <1>2, <1>11 DEF Relocate, Fail, LaidOut, input, layout, links
<1>12. CASE NextSection  BY <1>2, <1>12 DEF NextSection, LaidOut, input, layout, links
<1>13. CASE EmitPe  BY <1>2, <1>13 DEF EmitPe, Fail, LaidOut, input, layout, links
<1>14. CASE UNCHANGED vars  BY <1>2, <1>14 DEF vars, LaidOut, input, layout, links
<1>15. QED
  BY <1>1, <1>4, <1>5, <1>6, <1>7, <1>8, <1>9, <1>10, <1>11, <1>12, <1>13, <1>14 DEF Next

-----------------------------------------------------------------------------
(* The loops over relocations *)

\* What a known name resolves to, and that an unknown one resolves to 0.
LEMMA TargetKnown ==
    ASSUME LaidOut, SymbolsOK, NEW r
    PROVE  LET n == object.syms[r.symbol].name
           IN  /\ Resolvable(r) => Target(n) \in Nat /\ Target(n) # 0
               /\ ~Resolvable(r) => Target(n) = 0
<1> DEFINE n == object.syms[r.symbol].name
<1>1. CASE n \in DOMAIN imports
  <2>1. Target(n) = thunkRva[n]  BY <1>1 DEF Target
  <2>2. QED  BY <1>1, <2>1 DEF SymbolsOK, Resolvable
<1>2. CASE n \notin DOMAIN imports /\ n \in DefinedNames
  <2>1. Target(n) = symRva[n]  BY <1>2 DEF Target, SymbolsOK
  <2>2. QED  BY <1>2, <2>1 DEF SymbolsOK, Resolvable
<1>3. CASE n \notin DOMAIN imports /\ n \notin DefinedNames
  BY <1>3 DEF Target, SymbolsOK, Resolvable
<1>4. QED  BY <1>1, <1>2, <1>3

\* The relocation that the inner loop is at is one of the object's.
LEMMA CursorReloc ==
    ASSUME LInv, Assembled(2), section <= Len(outSecs), reloc <= Len(outSecs[section].relocs)
    PROVE  /\ section \in 1 .. Len(object.sections)
           /\ outSecs[section].relocs = object.sections[section].relocs
           /\ reloc \in 1 .. Len(object.sections[section].relocs)
           /\ outSecs[section].relocs[reloc] \in AllRelocs
<1>1. /\ outSecs \in Seq(ImageSection) /\ Len(outSecs) \in Nat /\ Len(object.sections) \in Nat
      /\ Len(outSecs) = Len(object.sections) + 2 /\ object \in Objects
  BY FinishedSections
<1>2. section \in 1 .. Len(outSecs) /\ reloc \in 1 .. Len(outSecs[section].relocs)
  <2>1. section \in 1 .. Len(outSecs)  BY <1>1 DEF LInv, TypeOK
  <2>2. Len(outSecs[section].relocs) \in Nat  BY <1>1, <2>1, RelocCount
  <2>3. reloc \in 1 .. Len(outSecs[section].relocs) + 1  BY DEF LInv, TypeOK
  <2>4. QED  BY <2>1, <2>2, <2>3
<1>3. section \in 1 .. Len(object.sections) /\ outSecs[section].relocs = object.sections[section].relocs
  <2>1. CASE section <= Len(object.sections)
    BY <1>1, <1>2, <2>1 DEF Assembled
  <2>2. CASE ~(section <= Len(object.sections))
    <3>1. outSecs[section].relocs = <<>>  BY <1>2, <2>2 DEF Assembled
    <3>2. QED  BY <1>2, <3>1
  <2>3. QED  BY <2>1, <2>2
<1>4. reloc \in 1 .. Len(object.sections[section].relocs)  BY <1>2, <1>3
<1>5. object.sections[section].relocs[reloc] \in ToSet(object.sections[section].relocs)
  BY <1>1, <1>3, <1>4, RelocTypes
<1>6. section \in DOMAIN object.sections  BY <1>1, <1>3, ObjectTypes
<1>7. QED  BY <1>3, <1>4, <1>5, <1>6 DEF AllRelocs

\* A relocation of the object has a section and a place in its list.
LEMMA RelocIndex ==
    ASSUME object \in Objects, NEW r \in AllRelocs
    PROVE  \E i \in 1 .. Len(object.sections) : \E k \in 1 .. Len(object.sections[i].relocs) :
              r = object.sections[i].relocs[k]
<1>1. PICK i \in DOMAIN object.sections : r \in ToSet(object.sections[i].relocs)  BY DEF AllRelocs
<1>2. i \in 1 .. Len(object.sections)  BY <1>1, ObjectTypes
<1>3. object.sections[i].relocs \in Seq(Relocation)  BY <1>2, ObjectTypes
<1>4. \E k \in 1 .. Len(object.sections[i].relocs) : r = object.sections[i].relocs[k]
  BY <1>1, <1>3 DEF ToSet
<1>5. QED  BY <1>2, <1>4

\* After the outer loop all relocations are behind.
LEMMA AllBehind ==
    ASSUME LInv, Assembled(2), section > Len(outSecs),
           NEW i \in 1 .. Len(object.sections), NEW k
    PROVE  Behind(i, k)
<1>1. /\ Len(outSecs) \in Nat /\ Len(object.sections) \in Nat
      /\ Len(outSecs) = Len(object.sections) + 2
  BY FinishedSections
<1>2. section \in Nat  BY <1>1 DEF LInv, TypeOK
<1>3. i < section  BY <1>1, <1>2
<1>4. QED  BY <1>3 DEF Behind

\* Leaving a section whose relocations are done puts no further relocation behind.
LEMMA BehindNext ==
    ASSUME LInv, Assembled(2), section <= Len(outSecs), reloc > Len(outSecs[section].relocs),
           section' = section + 1, reloc' = 1,
           NEW i \in 1 .. Len(object.sections), NEW k \in 1 .. Len(object.sections[i].relocs)
    PROVE  Behind(i, k)' <=> Behind(i, k)
<1>1. /\ outSecs \in Seq(ImageSection) /\ Len(outSecs) \in Nat /\ Len(object.sections) \in Nat
      /\ Len(outSecs) = Len(object.sections) + 2 /\ object \in Objects
  BY FinishedSections
<1>2. section \in 1 .. Len(outSecs)  BY <1>1 DEF LInv, TypeOK
<1>3. reloc \in 1 .. Len(outSecs[section].relocs) + 1 /\ Len(outSecs[section].relocs) \in Nat
  BY <1>1, <1>2, RelocCount DEF LInv, TypeOK
<1>4. object.sections[i].relocs \in Seq(Relocation)  BY <1>1, ObjectTypes
<1>5. k \in Nat /\ k >= 1 /\ i \in Nat  BY <1>1, <1>4
<1>6. Behind(i, k)' <=> i < section + 1  BY <1>2, <1>5 DEF Behind
<1>7. CASE i = section
  <2>1. i \in 1 .. Len(outSecs) /\ i <= Len(object.sections)  BY <1>1
  <2>2. outSecs[i].relocs = object.sections[i].relocs  BY <2>1 DEF Assembled
  <2>3. k \in 1 .. Len(outSecs[section].relocs)  BY <1>7, <2>2
  <2>4. k < reloc  BY <1>3, <2>3
  <2>5. Behind(i, k)  BY <1>7, <2>4 DEF Behind
  <2>6. QED  BY <1>2, <1>6, <1>7, <2>5
<1>8. CASE i # section  BY <1>2, <1>5, <1>6, <1>8 DEF Behind
<1>9. QED  BY <1>7, <1>8

\* The loops leave a relocation behind only when its symbol is known.
LEMMA StepPassed ==
    LInv /\ SectionsOK /\ SymbolsOK /\ Passed /\ [Next]_vars => Passed'
<1> SUFFICES ASSUME LInv, SectionsOK, SymbolsOK, Passed, [Next]_vars PROVE Passed'  OBVIOUS
<1>1. ASSUME ~LaidOut'  PROVE Passed'  BY <1>1 DEF Passed
<1>2. ASSUME UNCHANGED <<object, imports, section, reloc>>, LaidOut' => LaidOut
      PROVE  Passed'
  BY <1>2 DEF Passed, Behind, Resolvable, DefinedNames
<1>3. CASE ResolveSymbols
  <2>1. section' = 1 /\ reloc' = 1 /\ object' = object  BY <1>3 DEF ResolveSymbols, input
  <2>2. object \in Objects  BY DEF LInv, TypeOK
  <2>3. Len(object.sections) \in Nat  BY <2>2, ObjectTypes
  <2>4. ASSUME NEW i \in 1 .. Len(object.sections), NEW k \in 1 .. Len(object.sections[i].relocs)
        PROVE  ~Behind(i, k)'
    <3>1. object.sections[i].relocs \in Seq(Relocation)  BY <2>2, ObjectTypes
    <3>2. k \in Nat /\ k >= 1 /\ i \in Nat /\ i >= 1  BY <2>3, <3>1
    <3>3. QED  BY <2>1, <3>2 DEF Behind
  <2>5. QED  BY <2>1, <2>4 DEF Passed
<1>4. CASE Relocate
  <2>1. CASE Fail("unresolved")
    BY <1>2, <1>4, <2>1 DEF Fail, input, LaidOut, Relocate
  <2>2. CASE ~Fail("unresolved")
    <3> DEFINE r == outSecs[section].relocs[reloc]
    <3>1. /\ pc = "relocate" /\ section <= Len(outSecs) /\ reloc <= Len(outSecs[section].relocs)
          /\ Target(object.syms[r.symbol].name) # 0
          /\ reloc' = reloc + 1 /\ UNCHANGED <<pc, object, imports, section>>
      BY <1>4, <2>2 DEF Relocate, input
    <3>2. LaidOut /\ Assembled(2)  BY <3>1 DEF LaidOut, SectionsOK
    <3>3. Resolvable(r)  BY <3>1, <3>2, TargetKnown
    <3>4. /\ outSecs \in Seq(ImageSection) /\ Len(outSecs) \in Nat /\ Len(object.sections) \in Nat
          /\ Len(outSecs) = Len(object.sections) + 2 /\ object \in Objects
      BY <3>2, FinishedSections
    <3>5. /\ section \in 1 .. Len(object.sections)
          /\ outSecs[section].relocs = object.sections[section].relocs
          /\ reloc \in 1 .. Len(object.sections[section].relocs)
      BY <3>1, <3>2, CursorReloc
    <3>6. ASSUME NEW i \in 1 .. Len(object.sections), NEW k \in 1 .. Len(object.sections[i].relocs),
                 Behind(i, k)'
          PROVE  Resolvable(object.sections[i].relocs[k])
      <4>1. k \in Nat /\ reloc \in Nat
        <5>1. /\ object.sections[i].relocs \in Seq(Relocation)
              /\ object.sections[section].relocs \in Seq(Relocation)
          BY <3>4, <3>5, ObjectTypes
        <5>2. QED  BY <3>5, <5>1
      <4>2. Behind(i, k) \/ (i = section /\ k = reloc)
        BY <3>1, <3>6, <4>1 DEF Behind
      <4>3. CASE Behind(i, k)  BY <3>2, <4>3 DEF Passed
      <4>4. CASE i = section /\ k = reloc
        <5>1. outSecs[i].relocs = object.sections[i].relocs  BY <3>5, <4>4
        <5>2. QED  BY <3>3, <4>4, <5>1
      <4>5. QED  BY <4>2, <4>3, <4>4
    <3>7. QED  BY <3>1, <3>6 DEF Passed, Resolvable, DefinedNames
  <2>3. QED  BY <2>1, <2>2
<1>5. CASE NextSection
  <2>1. /\ pc = "relocate" /\ section <= Len(outSecs) /\ reloc > Len(outSecs[section].relocs)
        /\ section' = section + 1 /\ reloc' = 1 /\ UNCHANGED <<pc, object, imports>>
    BY <1>5 DEF NextSection, input
  <2>2. LaidOut /\ Assembled(2)  BY <2>1 DEF LaidOut, SectionsOK
  <2>3. ASSUME NEW i \in 1 .. Len(object.sections), NEW k \in 1 .. Len(object.sections[i].relocs),
               Behind(i, k)'
        PROVE  Behind(i, k)
    BY <2>1, <2>2, <2>3, BehindNext
  <2>4. QED  BY <2>1, <2>2, <2>3 DEF Passed, Resolvable, DefinedNames
<1>6. CASE ReadObject  BY <1>1, <1>6 DEF ReadObject, Fail, LaidOut, LInv, Cursor
<1>7. CASE PrepareOutputSections  BY <1>1, <1>7 DEF PrepareOutputSections, LaidOut
<1>8. CASE BeginImportTable \/ AddDll \/ AddName
  BY <1>1, <1>8 DEF BeginImportTable, AddDll, AddName, LaidOut
<1>9. CASE EndImportTable  BY <1>1, <1>9 DEF EndImportTable, LaidOut
<1>10. CASE BuildThunks  BY <1>1, <1>10 DEF BuildThunks, LaidOut
<1>11. CASE BeginLayout  BY <1>1, <1>11 DEF BeginLayout, LaidOut
<1>12. CASE LayoutSection  BY <1>1, <1>12 DEF LayoutSection, LaidOut
<1>13. CASE EmitPe  BY <1>2, <1>13 DEF EmitPe, Fail, LaidOut, input
<1>14. CASE UNCHANGED vars  BY <1>2, <1>14 DEF vars, LaidOut, input
<1>15. QED
  BY <1>3, <1>4, <1>5, <1>6, <1>7, <1>8, <1>9, <1>10, <1>11, <1>12, <1>13, <1>14 DEF Next

-----------------------------------------------------------------------------
(* Fields *)

\* What a field holds depends on these variables only.
LEMMA HeldSame ==
    ASSUME UNCHANGED <<object, imports, outSecs, symRva, thunkRva, section, reloc>>,
           LaidOut' <=> LaidOut
    PROVE  \A i, k : Held(i, k)' = Held(i, k)
<1> TAKE i, k
<1>1. \A n : Target(n)' = Target(n)  BY DEF Target
<1>2. \A r : Distance(i, r)' = Distance(i, r)  BY <1>1 DEF Distance
<1>3. Behind(i, k)' <=> Behind(i, k)  BY DEF Behind
<1>4. object' = object  OBVIOUS
<1>5. CASE LaidOut /\ Behind(i, k)  BY <1>2, <1>3, <1>4, <1>5 DEF Held
<1>6. CASE ~(LaidOut /\ Behind(i, k))  BY <1>3, <1>4, <1>6 DEF Held
<1>7. QED  BY <1>5, <1>6

\* Each place that a relocation patches has a field.
LEMMA PlaceOfReloc ==
    ASSUME object \in Objects, NEW i \in 1 .. Len(object.sections),
           NEW k \in 1 .. Len(object.sections[i].relocs)
    PROVE  <<i, object.sections[i].relocs[k].at>> \in Fields
<1>1. i \in DOMAIN object.sections  BY ObjectTypes
<1>2. k \in DOMAIN object.sections[i].relocs
  <2>1. object.sections[i].relocs \in Seq(Relocation)  BY ObjectTypes
  <2>2. QED  BY <2>1
<1>3. QED  BY <1>1, <1>2 DEF Fields

\* The addend found for a place is that of the one relocation that patches it.
LEMMA AddendOfReloc ==
    ASSUME object \in Objects, NEW i \in 1 .. Len(object.sections),
           NEW k \in 1 .. Len(object.sections[i].relocs)
    PROVE  AddendAt(<<i, object.sections[i].relocs[k].at>>) = object.sections[i].relocs[k].addend
<1> DEFINE rs == object.sections[i].relocs
           P(r) == r.at = rs[k].at
           q == CHOOSE r \in ToSet(rs) : P(r)
<1>1. rs \in Seq(Relocation) /\ DOMAIN rs = 1 .. Len(rs)
  <2>1. rs \in Seq(Relocation)  BY ObjectTypes
  <2>2. QED  BY <2>1
<1>2. rs[k] \in ToSet(rs)  BY <1>1 DEF ToSet
<1>3. q \in ToSet(rs) /\ P(q)
  <2>1. P(rs[k])  OBVIOUS
  <2> HIDE DEF P
  <2>2. QED  BY <1>2, <2>1
<1>4. PICK l \in 1 .. Len(rs) : q = rs[l]
  <2> HIDE DEF q
  <2>1. QED  BY <1>1, <1>3 DEF ToSet
<1>5. rs[l].at = rs[k].at  BY <1>3, <1>4
<1>6. l = k
  <2> HIDE DEF q
  <2>1. QED  BY <1>5, RelocTypes
<1>7. AddendAt(<<i, rs[k].at>>) = q.addend  BY DEF AddendAt
<1>8. QED  BY <1>4, <1>6, <1>7

\* One turn of the inner loop patches the field of its relocation and no other.
LEMMA RelocateFields ==
    ASSUME LInv, SectionsOK, SymbolsOK, FieldsOK, Relocate, ~Fail("unresolved")
    PROVE  FieldsOK'
<1> DEFINE r == outSecs[section].relocs[reloc]
           t == Target(object.syms[r.symbol].name)
<1>1. /\ pc = "relocate" /\ section <= Len(outSecs) /\ reloc <= Len(outSecs[section].relocs)
      /\ t # 0
      /\ field' = IF r.type = "REL32"
                  THEN [field EXCEPT ![<<section, r.at>>] = Displacement(t, field[<<section, r.at>>], r)]
                  ELSE field
      /\ reloc' = reloc + 1
      /\ UNCHANGED <<pc, error, object, imports, outSecs, symRva, thunkRva, section>>
  BY DEF Relocate, input, layout, links
<1>2. LaidOut /\ LaidOut' /\ Prepared /\ Prepared' /\ Assembled(2)
  BY <1>1 DEF LaidOut, Prepared, SectionsOK
<1>3. /\ outSecs \in Seq(ImageSection) /\ Len(outSecs) \in Nat /\ Len(object.sections) \in Nat
      /\ Len(outSecs) = Len(object.sections) + 2 /\ object \in Objects
  BY <1>2, FinishedSections
<1>4. /\ section \in 1 .. Len(object.sections)
      /\ outSecs[section].relocs = object.sections[section].relocs
      /\ reloc \in 1 .. Len(object.sections[section].relocs)
  BY <1>1, <1>2, CursorReloc
<1>5. reloc \in 1 .. Len(object.sections[section].relocs) /\ r = object.sections[section].relocs[reloc]
  BY <1>4
<1>6. <<section, r.at>> \in Fields /\ DOMAIN field = Fields
  <2>1. <<section, object.sections[section].relocs[reloc].at>> \in Fields
    BY <1>3, <1>4, <1>5, PlaceOfReloc
  <2>2. QED  BY <1>2, <1>5, <2>1 DEF FieldsOK
<1>7. reloc \in Nat /\ section \in Nat
  <2>1. object.sections[section].relocs \in Seq(Relocation)  BY <1>3, <1>4, ObjectTypes
  <2>2. QED  BY <1>3, <1>4, <2>1
<1>8. field[<<section, r.at>>] = r.addend
  <2>1. ~Behind(section, reloc)  BY <1>7 DEF Behind
  <2>2. Held(section, reloc) = r.addend  BY <1>5, <2>1 DEF Held
  <2>3. field[<<section, object.sections[section].relocs[reloc].at>>] = Held(section, reloc)
    BY <1>2, <1>4, <1>5 DEF FieldsOK
  <2>4. QED  BY <1>5, <2>2, <2>3
<1> HIDE DEF t
<1>9. DOMAIN field' = Fields'
  <2>1. Fields' = Fields  BY <1>1 DEF Fields
  <2>2. QED  BY <1>1, <1>6, <2>1
<1>10. ASSUME NEW i \in 1 .. Len(object.sections), NEW k \in 1 .. Len(object.sections[i].relocs)
       PROVE  field'[<<i, object.sections[i].relocs[k].at>>] = Held(i, k)'
  <2> DEFINE q == object.sections[i].relocs[k]
  <2>1. k \in Nat /\ i \in Nat
    <3>1. object.sections[i].relocs \in Seq(Relocation)  BY <1>3, ObjectTypes
    <3>2. QED  BY <1>3, <3>1
  <2>2. <<i, q.at>> \in Fields  BY <1>3, PlaceOfReloc
  <2>3. \A n : Target(n)' = Target(n)  BY <1>1 DEF Target
  <2>4. Distance(i, q)' = Distance(i, q)  BY <1>1, <2>3 DEF Distance
  <2>5. CASE i = section /\ k = reloc
    <3>1. q = r  BY <1>5, <2>5
    <3>2. Behind(i, k)'  BY <1>1, <1>7, <2>5 DEF Behind
    <3>3. CASE r.type = "REL32"
      <4>1. field'[<<section, r.at>>] = Displacement(t, field[<<section, r.at>>], r)
        BY <1>1, <1>6, <3>3
      <4>2. Displacement(t, r.addend, r) = Distance(section, r)  BY DEF Displacement, Distance, t
      <4>3. field'[<<i, q.at>>] = Distance(i, q)  BY <1>8, <2>5, <3>1, <4>1, <4>2
      <4>4. Held(i, k)' = Distance(i, q)'  BY <1>1, <1>2, <3>1, <3>2, <3>3 DEF Held
      <4>5. QED  BY <2>4, <4>3, <4>4
    <3>4. CASE r.type # "REL32"
      <4>1. Held(i, k)' = q.addend  BY <1>1, <3>1, <3>4 DEF Held
      <4>2. field'[<<i, q.at>>] = r.addend  BY <1>1, <1>8, <2>5, <3>1, <3>4
      <4>3. QED  BY <3>1, <4>1, <4>2
    <3>5. QED  BY <3>3, <3>4
  <2>6. CASE ~(i = section /\ k = reloc)
    <3>1. <<i, q.at>> # <<section, r.at>>
      <4>1. CASE i # section  BY <4>1
      <4>2. CASE i = section
        <5>1. k # reloc  BY <2>6, <4>2
        <5>2. q.at # r.at
          <6>1. \A l \in 1 .. Len(object.sections[section].relocs) :
                   object.sections[section].relocs[l].at = object.sections[section].relocs[reloc].at
                      => l = reloc
            BY <1>3, <1>4, <1>5, RelocTypes
          <6>2. QED  BY <1>5, <4>2, <5>1, <6>1
        <5>3. QED  BY <5>2
      <4>3. QED  BY <4>1, <4>2
    <3>2. field'[<<i, q.at>>] = field[<<i, q.at>>]  BY <1>1, <1>6, <2>2, <3>1
    <3>3. Behind(i, k)' <=> Behind(i, k)  BY <1>1, <1>7, <2>1, <2>6 DEF Behind
    <3>4. Held(i, k)' = Held(i, k)  BY <1>1, <1>2, <2>4, <3>3 DEF Held
    <3>5. field[<<i, q.at>>] = Held(i, k)  BY <1>2 DEF FieldsOK
    <3>6. QED  BY <3>2, <3>4, <3>5
  <2>7. QED  BY <2>5, <2>6
<1>11. object' = object  BY <1>1
<1>12. QED  BY <1>9, <1>10, <1>11 DEF FieldsOK

\* Every step keeps the fields as the loops have left them.
LEMMA StepFields ==
    LInv /\ SectionsOK /\ SymbolsOK /\ FieldsOK /\ [Next]_vars => FieldsOK'
<1> SUFFICES ASSUME LInv, SectionsOK, SymbolsOK, FieldsOK, [Next]_vars PROVE FieldsOK'  OBVIOUS
<1>1. ASSUME UNCHANGED <<object, field>>, Prepared' => Prepared,
             \A i \in 1 .. Len(object.sections) : \A k \in 1 .. Len(object.sections[i].relocs) :
                Held(i, k)' = Held(i, k)
      PROVE  FieldsOK'
  <2>1. Fields' = Fields  BY <1>1 DEF Fields
  <2>2. QED  BY <1>1, <2>1 DEF FieldsOK
<1>2. ASSUME UNCHANGED <<object, field>>, Prepared, ~LaidOut, ~LaidOut'  PROVE FieldsOK'
  <2>1. \A i, k : Held(i, k)' = Held(i, k)  BY <1>2 DEF Held
  <2>2. QED  BY <1>1, <1>2, <2>1
<1>3. ASSUME UNCHANGED <<object, imports, outSecs, symRva, thunkRva, section, reloc, field>>,
             Prepared' <=> Prepared, LaidOut' <=> LaidOut
      PROVE  FieldsOK'
  <2>1. \A i, k : Held(i, k)' = Held(i, k)  BY <1>3, HeldSame
  <2>2. QED  BY <1>1, <1>3, <2>1
<1>4. CASE ReadObject
  <2>1. ~Prepared'  BY <1>4 DEF ReadObject, Fail, LaidOut, Prepared, LInv, Cursor
  <2>2. QED  BY <2>1 DEF FieldsOK
<1>5. CASE PrepareOutputSections
  <2>1. pc' = "idata" /\ object' = object /\ field' = [p \in Fields |-> AddendAt(p)]
    BY <1>5 DEF PrepareOutputSections, input
  <2>2. object \in Objects /\ ~LaidOut'  BY <2>1 DEF LInv, TypeOK, LaidOut
  <2>3. Fields' = Fields  BY <2>1 DEF Fields
  <2>4. ASSUME NEW i \in 1 .. Len(object.sections), NEW k \in 1 .. Len(object.sections[i].relocs)
        PROVE  field'[<<i, object.sections[i].relocs[k].at>>] = Held(i, k)'
    <3>1. Held(i, k)' = object.sections[i].relocs[k].addend  BY <2>1, <2>2 DEF Held
    <3>2. QED  BY <2>1, <2>2, <3>1, PlaceOfReloc, AddendOfReloc
  <2>5. QED  BY <2>1, <2>3, <2>4 DEF FieldsOK
<1>6. CASE BeginImportTable \/ AddDll \/ AddName
  BY <1>2, <1>6 DEF BeginImportTable, AddDll, AddName, input, Prepared, LaidOut
<1>7. CASE EndImportTable  BY <1>2, <1>7 DEF EndImportTable, input, Prepared, LaidOut
<1>8. CASE BuildThunks  BY <1>2, <1>8 DEF BuildThunks, input, Prepared, LaidOut
<1>9. CASE BeginLayout  BY <1>2, <1>9 DEF BeginLayout, input, Prepared, LaidOut
<1>10. CASE LayoutSection  BY <1>2, <1>10 DEF LayoutSection, input, Prepared, LaidOut
<1>11. CASE ResolveSymbols
  <2>1. /\ pc = "layout" /\ section' = 1 /\ reloc' = 1 /\ UNCHANGED <<object, field>>
    BY <1>11 DEF ResolveSymbols, input
  <2>2. Prepared /\ ~LaidOut /\ object \in Objects  BY <2>1 DEF Prepared, LaidOut, LInv, TypeOK
  <2>3. Len(object.sections) \in Nat  BY <2>2, ObjectTypes
  <2>4. ASSUME NEW i \in 1 .. Len(object.sections), NEW k \in 1 .. Len(object.sections[i].relocs)
        PROVE  Held(i, k)' = Held(i, k)
    <3>1. object.sections[i].relocs \in Seq(Relocation)  BY <2>2, ObjectTypes
    <3>2. k \in Nat /\ k >= 1 /\ i \in Nat /\ i >= 1  BY <2>3, <3>1
    <3>3. ~Behind(i, k)'  BY <2>1, <3>2 DEF Behind
    <3>4. QED  BY <2>1, <2>2, <3>3 DEF Held
  <2>5. QED  BY <1>1, <2>1, <2>2, <2>4
<1>12. CASE Relocate
  <2>1. CASE Fail("unresolved")
    BY <1>3, <1>12, <2>1 DEF Fail, input, layout, links, LaidOut, Prepared, Relocate
  <2>2. CASE ~Fail("unresolved")  BY <1>12, <2>2, RelocateFields
  <2>3. QED  BY <2>1, <2>2
<1>13. CASE NextSection
  <2>1. /\ pc = "relocate" /\ section <= Len(outSecs) /\ reloc > Len(outSecs[section].relocs)
        /\ section' = section + 1 /\ reloc' = 1
        /\ UNCHANGED <<pc, error, object, imports, outSecs, symRva, thunkRva, field>>
    BY <1>13 DEF NextSection, input, layout, links
  <2>2. LaidOut /\ LaidOut' /\ Prepared /\ Assembled(2)
    BY <2>1 DEF LaidOut, SectionsOK, Prepared
  <2>3. ASSUME NEW i \in 1 .. Len(object.sections), NEW k \in 1 .. Len(object.sections[i].relocs)
        PROVE  Held(i, k)' = Held(i, k)
    <3>1. Behind(i, k)' <=> Behind(i, k)  BY <2>1, <2>2, BehindNext
    <3>2. Distance(i, object.sections[i].relocs[k])' = Distance(i, object.sections[i].relocs[k])
      BY <2>1 DEF Distance, Target
    <3>3. QED  BY <2>1, <2>2, <3>1, <3>2 DEF Held
  <2>4. QED  BY <1>1, <2>1, <2>2, <2>3
<1>14. CASE EmitPe
  BY <1>3, <1>14 DEF EmitPe, Fail, input, layout, links, LaidOut, Prepared, LInv, Cursor
<1>15. CASE UNCHANGED vars
  BY <1>3, <1>15 DEF vars, input, layout, links, LaidOut, Prepared
<1>16. QED
  BY <1>4, <1>5, <1>6, <1>7, <1>8, <1>9, <1>10, <1>11, <1>12, <1>13, <1>14, <1>15 DEF Next

-----------------------------------------------------------------------------
(* The outcome *)

\* Every step ends execute() for the reason that it gives.
LEMMA StepOutcome ==
    LInv /\ LInv' /\ SectionsOK /\ SymbolsOK /\ Outcome /\ [Next]_vars => Outcome'
<1> SUFFICES ASSUME LInv, LInv', SectionsOK, SymbolsOK, Outcome, [Next]_vars PROVE Outcome'
  OBVIOUS
<1>1. ASSUME pc' # "done"  PROVE Outcome'
  <2>1. exe' = 0 /\ error' = "none"  BY <1>1 DEF LInv, TypeOK, Cursor
  <2>2. QED  BY <1>1, <2>1 DEF Outcome, Linked
<1>2. ASSUME pc # "done"  PROVE exe = 0 /\ error = "none"
  BY <1>2 DEF LInv, TypeOK, Cursor
<1>3. CASE ReadObject
  <2>1. CASE Fail("object")
    <3>1. exe' = 0 /\ error' = "object"  BY <1>2, <1>3, <2>1 DEF ReadObject, Fail
    <3>2. QED  BY <3>1 DEF Outcome, Linked
  <2>2. CASE pc' = "prepare"  BY <1>1, <2>2
  <2>3. QED  BY <1>3, <2>1, <2>2 DEF ReadObject
<1>4. CASE PrepareOutputSections  BY <1>1, <1>4 DEF PrepareOutputSections
<1>5. CASE BeginImportTable \/ AddDll \/ AddName
  BY <1>1, <1>5 DEF BeginImportTable, AddDll, AddName
<1>6. CASE EndImportTable  BY <1>1, <1>6 DEF EndImportTable
<1>7. CASE BuildThunks  BY <1>1, <1>7 DEF BuildThunks
<1>8. CASE BeginLayout  BY <1>1, <1>8 DEF BeginLayout
<1>9. CASE LayoutSection  BY <1>1, <1>9 DEF LayoutSection
<1>10. CASE ResolveSymbols  BY <1>1, <1>10 DEF ResolveSymbols
<1>11. CASE NextSection  BY <1>1, <1>11 DEF NextSection
<1>12. CASE Relocate
  <2> DEFINE r == outSecs[section].relocs[reloc]
             t == Target(object.syms[r.symbol].name)
  <2>1. pc = "relocate" /\ section <= Len(outSecs) /\ reloc <= Len(outSecs[section].relocs)
    BY <1>12 DEF Relocate
  <2>2. CASE t = 0
    <3>1. /\ exe' = exe /\ error' = "unresolved" /\ UNCHANGED <<object, imports>>
      BY <1>12, <2>2 DEF Relocate, Fail, input
    <3>2. LaidOut /\ Assembled(2)  BY <2>1 DEF LaidOut, SectionsOK
    <3>3. ~Resolvable(r)  BY <2>2, <3>2, TargetKnown
    <3>4. r \in AllRelocs  BY <2>1, <3>2, CursorReloc
    <3>5. PICK q \in AllRelocs : ~Resolvable(q)  BY <3>3, <3>4
    <3>6. AllRelocs' = AllRelocs /\ (Resolvable(q)' <=> Resolvable(q))
      BY <3>1 DEF AllRelocs, Resolvable, DefinedNames
    <3>7. (\E x \in AllRelocs : ~Resolvable(x))'  BY <3>5, <3>6
    <3>8. exe' = 0  BY <1>2, <2>1, <3>1
    <3>9. QED  BY <3>1, <3>7, <3>8 DEF Outcome, Linked
  <2>3. CASE t # 0  BY <1>1, <1>12, <2>1, <2>3 DEF Relocate
  <2>4. QED  BY <2>2, <2>3
<1>13. CASE EmitPe
  <2>1. /\ pc = "relocate" /\ section > Len(outSecs) /\ exe = 0 /\ error = "none"
        /\ UNCHANGED <<object, outSecs, section, symRva>>
    BY <1>2, <1>13 DEF EmitPe, Fail, input, layout, links
  <2>2. DOMAIN symRva = DefinedNames /\ DefinedNames' = DefinedNames
    BY <2>1 DEF SymbolsOK, LaidOut, DefinedNames
  <2>3. CASE Fail("entry") /\ Entry \notin DOMAIN symRva
    <3>1. exe' = 0 /\ error' = "entry"  BY <2>1, <2>3 DEF Fail
    <3>2. QED  BY <2>2, <2>3, <3>1 DEF Outcome, Linked
  <2>4. CASE Fail("write")
    <3>1. exe' = 0 /\ error' = "write"  BY <2>1, <2>4 DEF Fail
    <3>2. QED  BY <3>1 DEF Outcome, Linked
  <2>5. CASE exe' = symRva[Entry] /\ pc' = "done" /\ error' = error /\ Entry \in DOMAIN symRva
    BY <2>1, <2>2, <2>5 DEF Outcome, Linked
  <2>6. QED  BY <1>13, <2>3, <2>4, <2>5 DEF EmitPe
<1>14. CASE UNCHANGED vars
  BY <1>14 DEF vars, input, layout, links, Outcome, Linked, AllRelocs, Resolvable, DefinedNames
<1>15. QED
  BY <1>3, <1>4, <1>5, <1>6, <1>7, <1>8, <1>9, <1>10, <1>11, <1>12, <1>13, <1>14 DEF Next

-----------------------------------------------------------------------------
\* The inductive invariant of the stages from prepareOutputSections on.
RInv == SectionsOK /\ SymbolsOK /\ Passed /\ FieldsOK /\ Outcome

\* Before execute() starts nothing is assembled, resolved or written.
LEMMA InitRInv == Init => RInv
BY DEF Init, RInv, SectionsOK, SymbolsOK, Passed, FieldsOK, Prepared, Outcome, LaidOut, Linked

\* What the loops of applyRelocations have passed is resolved and patched.
THEOREM LinkerProgress == Spec => []RInv
<1>1. LInv /\ LInv' /\ TInv /\ RInv /\ [Next]_vars => RInv'
  BY StepSections, StepSymbols, StepPassed, StepFields, StepOutcome DEF RInv
<1>2. QED  BY <1>1, InitRInv, LinkerInvariance, ImportTableBuilt, PTL DEF Spec

-----------------------------------------------------------------------------
(* The properties *)

\* ImportTableWellFormed: the import table that buildImportTable writes is one that the
\* system's loader can walk, whatever the imported names, their DLLs and their lengths.
THEOREM ImportTableLoads == Spec => []ImportTableWellFormed
<1>1. LInv /\ TInv /\ RInv => ImportTableWellFormed
  <2> SUFFICES ASSUME LInv, TInv, RInv, LaidOut  PROVE ImportTableWellFormed
    BY DEF ImportTableWellFormed
  <2>1. TableOK /\ TableFull  BY DEF TInv, TableDone
  <2>2. Assembled(2)  BY DEF RInv, SectionsOK
  <2>3. Len(outSecs) = Len(object.sections) + 2 /\ Len(object.sections) \in Nat
    BY <2>2, FinishedSections
  <2>4. outSecs[Len(outSecs) - 1].size = tableEnd
    <3>1. Len(outSecs) - 1 = Len(object.sections) + 1  BY <2>3
    <3>2. outSecs[Len(object.sections) + 1].size = tableEnd  BY <2>2 DEF Assembled
    <3>3. QED  BY <3>1, <3>2
  <2>5. /\ \A p, q \in ImportTableParts : p = q \/ p[2] <= q[1] \/ q[2] <= p[1]
        /\ \A p \in ImportTableParts : p[2] <= tableEnd
    BY <2>1, TableApart DEF Apart
  <2>6. \A f \in DOMAIN imports :
           \E c \in Cells : {x \in Cells : x.func = f} = {c} /\ c.dll = imports[f]
    BY <2>1, OneCell
  <2>7. QED  BY <2>4, <2>5, <2>6 DEF ImportTableWellFormed
<1>2. QED  BY <1>1, LinkerInvariance, ImportTableBuilt, LinkerProgress, PTL

\* FailsExactly: execute() writes a file only for objects that can be linked, and gives
\* an unknown symbol or a missing entry as the reason only when there is one.
THEOREM LinkerFailsExactly == Spec => []FailsExactly
<1>1. LInv /\ RInv => FailsExactly
  <2> SUFFICES ASSUME LInv, RInv  PROVE FailsExactly  OBVIOUS
  <2>1. ASSUME Linked, NEW r \in AllRelocs  PROVE Resolvable(r)
    <3>1. LaidOut /\ Assembled(2) /\ section > Len(outSecs)
      BY <2>1 DEF Linked, LaidOut, RInv, SectionsOK, Outcome
    <3>2. PICK i \in 1 .. Len(object.sections) :
             \E k \in 1 .. Len(object.sections[i].relocs) : r = object.sections[i].relocs[k]
      BY <2>1, RelocIndex DEF LInv, TypeOK
    <3>3. \A k : Behind(i, k)  BY <3>1, AllBehind
    <3>4. QED  BY <3>1, <3>2, <3>3 DEF RInv, Passed
  <2>2. QED  BY <2>1 DEF FailsExactly, RInv, Outcome
<1>2. QED  BY <1>1, LinkerInvariance, LinkerProgress, PTL

\* The cell at the place that a thunk jumps through is that of its function alone.
LEMMA BoundAtCell ==
    ASSUME TInv, TableOK, TableFull, NEW f \in DOMAIN imports,
           outSecs[Len(outSecs) - 1].rva \in Nat
    PROVE  /\ CellOffset(f) \in Nat
           /\ BoundAt(outSecs[Len(outSecs) - 1].rva + CellOffset(f)) = {f}
<1> DEFINE b == outSecs[Len(outSecs) - 1].rva
<1>1. PICK k, i : CellAt(f, k, i)  BY CellExists
<1>2. CellOffset(f) = CellPlace(k, i) /\ CellPlace(k, i) \in Nat
  BY <1>1, CellOffsetIs, CellPlaceType
<1> DEFINE c == [dll |-> dlls[k].dll, func |-> f, offset |-> CellPlace(k, i)]
<1>3. c \in Cells /\ c.func = f /\ c.offset = CellOffset(f)  BY <1>1, <1>2, CellsAre
<1> HIDE DEF c, b
<1>4. ASSUME NEW x \in Cells, b + CellOffset(f) = b + x.offset  PROVE x.func = f
  <2>1. PICK l, j : /\ CellAt(x.func, l, j)
                    /\ x = [dll |-> dlls[l].dll, func |-> x.func, offset |-> CellPlace(l, j)]
    BY CellsAre
  <2>2. x.offset = CellPlace(l, j)  BY <2>1
  <2>3. CellPlace(l, j) \in Nat  BY <2>1, CellPlaceType
  <2>4. CellPlace(l, j) = CellPlace(k, i)  BY <1>2, <1>4, <2>2, <2>3 DEF b
  <2>5. QED  BY <1>1, <2>1, <2>4, CellsDistinct
<1>5. c \in {x \in Cells : b + CellOffset(f) = b + x.offset}  BY <1>3
<1>6. {y.func : y \in {x \in Cells : b + CellOffset(f) = b + x.offset}} = {f}
  BY <1>3, <1>4, <1>5
<1>7. QED  BY <1>2, <1>6 DEF BoundAt, b

\* ReferencesReach: in the file written every applied relocation leads to the definition
\* of its symbol, or through a thunk to the cell of the imported function.
THEOREM ReferencesLead == Spec => []ReferencesReach
<1>1. LInv /\ TInv /\ RInv => ReferencesReach
  <2> SUFFICES ASSUME LInv, TInv, RInv, Linked  PROVE ReferencesReach
    BY DEF ReferencesReach
  <2>1. LaidOut /\ Prepared /\ Assembled(2) /\ section > Len(outSecs)
    BY DEF Linked, LaidOut, Prepared, RInv, SectionsOK, Outcome
  <2>2. /\ Len(outSecs) \in Nat /\ Len(object.sections) \in Nat /\ object \in Objects
        /\ Len(outSecs) = Len(object.sections) + 2
        /\ \A i \in 1 .. Len(outSecs) : outSecs[i].rva \in Nat
    BY <2>1, FinishedSections
  <2>3. outSecs[Len(outSecs) - 1].rva \in Nat
    <3>1. Len(outSecs) - 1 \in 1 .. Len(outSecs)  BY <2>2
    <3>2. QED  BY <2>2, <3>1
  <2>4. TableOK /\ TableFull  BY <2>1 DEF TInv, TableDone
  <2>5. DefinedAt(Entry, exe)  BY <2>1 DEF RInv, Outcome, SymbolsOK
  <2>6. ASSUME NEW i \in DOMAIN object.sections, NEW r \in ToSet(object.sections[i].relocs),
               r.type = "REL32"
        PROVE  LET n == object.syms[r.symbol].name
                   a == outSecs[i].rva + r.at + 4 + field[<<i, r.at>>] - r.addend
               IN  IF n \in DOMAIN imports
                   THEN /\ a = outSecs[Len(outSecs)].rva + ThunkOffset(n)
                        /\ BoundAt(a + 6 + jump[n]) = {n}
                   ELSE DefinedAt(n, a)
    <3> DEFINE n == object.syms[r.symbol].name
               a == outSecs[i].rva + r.at + 4 + field[<<i, r.at>>] - r.addend
    <3>1. i \in 1 .. Len(object.sections) /\ i \in 1 .. Len(outSecs)  BY <2>2, ObjectTypes
    <3>2. PICK k \in 1 .. Len(object.sections[i].relocs) : r = object.sections[i].relocs[k]
      <4>1. object.sections[i].relocs \in Seq(Relocation)  BY <2>2, <3>1, ObjectTypes
      <4>2. QED  BY <4>1, <2>6 DEF ToSet
    <3>3. Behind(i, k)  BY <2>1, <3>1, AllBehind
    <3>4. Resolvable(r)  BY <2>1, <3>1, <3>2, <3>3 DEF RInv, Passed
    <3>5. field[<<i, r.at>>] = Distance(i, r)
      <4>1. field[<<i, r.at>>] = Held(i, k)  BY <2>1, <3>1, <3>2 DEF RInv, FieldsOK
      <4>2. Held(i, k) = Distance(i, r)  BY <2>1, <2>6, <3>2, <3>3 DEF Held
      <4>3. QED  BY <4>1, <4>2
    <3>6. Target(n) \in Nat  BY <2>1, <3>4, TargetKnown DEF RInv
    <3>7. a = Target(n)
      <4>1. outSecs[i].rva \in Nat  BY <2>2, <3>1
      <4>2. r.at \in Nat /\ r.addend \in Int  BY <2>2, <3>1, <3>2, RelocTypes
      <4>3. field[<<i, r.at>>] = Target(n) + r.addend - (outSecs[i].rva + r.at + 4)
        BY <3>5 DEF Distance
      <4> HIDE DEF n
      <4>4. QED  BY <3>6, <4>1, <4>2, <4>3
    <3> HIDE DEF a
    <3>8. CASE n \in DOMAIN imports
      <4>1. Target(n) = thunkRva[n]  BY <3>8 DEF Target
      <4>2. /\ thunkRva[n] = outSecs[Len(outSecs)].rva + ThunkOffset(n) /\ thunkRva[n] \in Nat
            /\ jump[n] = (outSecs[Len(outSecs) - 1].rva + CellOffset(n)) - (thunkRva[n] + 6)
        BY <2>1, <3>8 DEF RInv, SymbolsOK
      <4>3. /\ CellOffset(n) \in Nat
            /\ BoundAt(outSecs[Len(outSecs) - 1].rva + CellOffset(n)) = {n}
        BY <2>3, <2>4, <3>8, BoundAtCell
      <4> HIDE DEF n
      <4>4. a + 6 + jump[n] = outSecs[Len(outSecs) - 1].rva + CellOffset(n)
        BY <2>3, <3>7, <4>1, <4>2, <4>3
      <4>5. BoundAt(a + 6 + jump[n]) = {n}  BY <4>3, <4>4
      <4>6. a = outSecs[Len(outSecs)].rva + ThunkOffset(n)  BY <3>7, <4>1, <4>2
      <4>7. QED  BY <3>8, <4>5, <4>6 DEF n, a
    <3>9. CASE n \notin DOMAIN imports
      <4>1. n \in DefinedNames  BY <3>4, <3>9 DEF Resolvable
      <4>2. Target(n) = symRva[n] /\ DefinedAt(n, symRva[n])
        BY <2>1, <3>9, <4>1 DEF Target, RInv, SymbolsOK
      <4> HIDE DEF n
      <4>3. DefinedAt(n, a)  BY <3>7, <4>2
      <4>4. QED  BY <3>9, <4>3 DEF n, a
    <3>10. QED  BY <3>8, <3>9
  <2>7. QED  BY <2>5, <2>6 DEF ReferencesReach
<1>2. QED  BY <1>1, LinkerInvariance, ImportTableBuilt, LinkerProgress, PTL

=============================================================================
