---------------------------- MODULE LoaderProofs ----------------------------
(***************************************************************************)
(* Proofs about Loader, for every import graph, circular ones included,    *)
(* any number of paths, and any set of files that cannot be loaded.        *)
(***************************************************************************)
EXTENDS Loader, NumberLemmas, SequenceTheorems, TLAPS

-----------------------------------------------------------------------------
(* Lists of paths *)

\* Elements is the set of what stands somewhere in a list.
LEMMA InElements ==
    ASSUME NEW s \in Seq(Paths), NEW p
    PROVE  p \in Elements(s) <=> \E i \in 1..Len(s) : s[i] = p
BY DEF Elements

LEMMA ElementsTyped ==
    ASSUME NEW s \in Seq(Paths)
    PROVE  Elements(s) \subseteq Paths
BY ElementOfSeq DEF Elements

\* The lists are extended at the end, by one path or by another list.
LEMMA ElementsAppend ==
    ASSUME NEW s \in Seq(Paths), NEW p \in Paths
    PROVE  /\ Append(s, p) \in Seq(Paths)
           /\ Elements(Append(s, p)) = Elements(s) \cup {p}
           /\ NoRepeats(s) /\ p \notin Elements(s) => NoRepeats(Append(s, p))
<1> DEFINE t == Append(s, p)
<1>1. /\ t \in Seq(Paths) /\ Len(t) = Len(s) + 1 /\ Len(s) \in Nat
      /\ \A i \in 1..Len(s) : t[i] = s[i]
      /\ t[Len(s) + 1] = p
  OBVIOUS
<1> HIDE DEF t
<1>2. Elements(t) = Elements(s) \cup {p}
  <2>1. ASSUME NEW q \in Elements(t)  PROVE q \in Elements(s) \cup {p}
    <3>1. PICK i \in 1..Len(t) : t[i] = q  BY <2>1 DEF Elements
    <3>2. CASE i = Len(s) + 1  BY <3>1, <3>2, <1>1
    <3>3. CASE i \in 1..Len(s)  BY <3>1, <3>3, <1>1 DEF Elements
    <3>4. QED  BY <3>2, <3>3, <1>1
  <2>2. ASSUME NEW q \in Elements(s)  PROVE q \in Elements(t)
    <3>1. PICK i \in 1..Len(s) : s[i] = q  BY <2>2 DEF Elements
    <3>2. i \in 1..Len(t) /\ t[i] = q  BY <3>1, <1>1
    <3>3. QED  BY <3>2 DEF Elements
  <2>3. p \in Elements(t)
    <3>1. Len(s) + 1 \in 1..Len(t)  BY <1>1
    <3>2. QED  BY <3>1, <1>1 DEF Elements
  <2>4. QED  BY <2>1, <2>2, <2>3
<1>3. ASSUME NoRepeats(s), p \notin Elements(s)  PROVE NoRepeats(t)
  <2>1. \A i \in 1..Len(s) : s[i] # p  BY <1>3 DEF Elements
  <2>2. QED  BY <2>1, <1>1, <1>3 DEF NoRepeats
<1>4. QED  BY <1>1, <1>2, <1>3 DEF t

LEMMA ElementsConcat ==
    ASSUME NEW s \in Seq(Paths), NEW u \in Seq(Paths)
    PROVE  /\ s \o u \in Seq(Paths)
           /\ Len(s \o u) = Len(s) + Len(u)
           /\ \A i \in 1..Len(s) : (s \o u)[i] = s[i]
           /\ \A i \in 1..Len(u) : (s \o u)[Len(s) + i] = u[i]
           /\ Elements(s \o u) = Elements(s) \cup Elements(u)
           /\ (NoRepeats(s) /\ NoRepeats(u) /\ Elements(s) \cap Elements(u) = {})
                 => NoRepeats(s \o u)
<1> DEFINE t == s \o u
<1>1. /\ t \in Seq(Paths) /\ Len(t) = Len(s) + Len(u) /\ Len(s) \in Nat /\ Len(u) \in Nat
      /\ \A i \in 1..Len(s) : t[i] = s[i]
      /\ \A i \in 1..Len(u) : t[Len(s) + i] = u[i]
  OBVIOUS
<1> HIDE DEF t
<1>2. ASSUME NEW i \in 1..Len(t)
      PROVE  i \in 1..Len(s) \/ \E j \in 1..Len(u) : i = Len(s) + j
  <2>1. CASE i <= Len(s)  BY <2>1, <1>1
  <2>2. CASE i > Len(s)
    <3>1. i - Len(s) \in 1..Len(u) /\ i = Len(s) + (i - Len(s))  BY <2>2, <1>1
    <3>2. QED  BY <3>1
  <2>3. QED  BY <2>1, <2>2, <1>1
<1>3. Elements(t) = Elements(s) \cup Elements(u)
  <2>1. ASSUME NEW q \in Elements(t)  PROVE q \in Elements(s) \cup Elements(u)
    <3>1. PICK i \in 1..Len(t) : t[i] = q  BY <2>1 DEF Elements
    <3>2. CASE i \in 1..Len(s)  BY <3>1, <3>2, <1>1 DEF Elements
    <3>3. CASE \E j \in 1..Len(u) : i = Len(s) + j  BY <3>1, <3>3, <1>1 DEF Elements
    <3>4. QED  BY <3>2, <3>3, <1>2
  <2>2. ASSUME NEW q \in Elements(s)  PROVE q \in Elements(t)
    <3>1. PICK i \in 1..Len(s) : s[i] = q  BY <2>2 DEF Elements
    <3>2. i \in 1..Len(t) /\ t[i] = q  BY <3>1, <1>1
    <3>3. QED  BY <3>2 DEF Elements
  <2>3. ASSUME NEW q \in Elements(u)  PROVE q \in Elements(t)
    <3>1. PICK i \in 1..Len(u) : u[i] = q  BY <2>3 DEF Elements
    <3>2. Len(s) + i \in 1..Len(t) /\ t[Len(s) + i] = q  BY <3>1, <1>1
    <3>3. QED  BY <3>2 DEF Elements
  <2>4. QED  BY <2>1, <2>2, <2>3
<1>4. ASSUME NoRepeats(s), NoRepeats(u), Elements(s) \cap Elements(u) = {}
      PROVE  NoRepeats(t)
  <2> SUFFICES ASSUME NEW i \in 1..Len(t), NEW j \in 1..Len(t), t[i] = t[j]  PROVE i = j
    BY DEF NoRepeats
  <2>1. CASE i \in 1..Len(s) /\ j \in 1..Len(s)  BY <2>1, <1>1, <1>4 DEF NoRepeats
  <2>2. CASE (\E k \in 1..Len(u) : i = Len(s) + k) /\ (\E k \in 1..Len(u) : j = Len(s) + k)
    BY <2>2, <1>1, <1>4 DEF NoRepeats
  <2>3. CASE i \in 1..Len(s) /\ (\E k \in 1..Len(u) : j = Len(s) + k)
    <3>1. t[i] \in Elements(s) /\ t[j] \in Elements(u)  BY <2>3, <1>1 DEF Elements
    <3>2. QED  BY <3>1, <1>4
  <2>4. CASE j \in 1..Len(s) /\ (\E k \in 1..Len(u) : i = Len(s) + k)
    <3>1. t[j] \in Elements(s) /\ t[i] \in Elements(u)  BY <2>4, <1>1 DEF Elements
    <3>2. QED  BY <3>1, <1>4
  <2>5. QED  BY <1>2, <2>1, <2>2, <2>3, <2>4
<1>5. QED  BY <1>1, <1>3, <1>4 DEF t

-----------------------------------------------------------------------------
(* Needs, with the import table as a parameter: it is that of the state    *)
(* before a step and after it alike.                                       *)

ImportsIn(t, p) == {t[FileOf[p]][i] : i \in 1..Len(t[FileOf[p]])}

NeedsIn(t, p, q) ==
    \A S \in SUBSET Paths : p \in S /\ (\A r \in S : ImportsIn(t, r) \subseteq S) => q \in S

LEMMA NeedsIsNeedsIn ==
    /\ \A p : Imported(p) = ImportsIn(imports, p)
    /\ \A p, q : Needs(p, q) <=> NeedsIn(imports, p, q)
BY DEF Imported, ImportsOf, ImportsIn, Needs, NeedsIn, Closed

LEMMA NeedsSelf ==
    ASSUME NEW t, NEW p
    PROVE  NeedsIn(t, p, p)
BY DEF NeedsIn

LEMMA NeedsImport ==
    ASSUME NEW t, NEW p, NEW q, NEW r, NeedsIn(t, p, q), r \in ImportsIn(t, q)
    PROVE  NeedsIn(t, p, r)
BY DEF NeedsIn

\* The import at place i of a file's list is a path, and is imported.
LEMMA ImportAt ==
    ASSUME NEW t \in [Files -> Seq(Paths)], NEW p \in Paths, NEW i \in 1..Len(t[FileOf[p]])
    PROVE  t[FileOf[p]][i] \in Paths /\ t[FileOf[p]][i] \in ImportsIn(t, p)
<1>1. t[FileOf[p]] \in Seq(Paths)  BY PathsAssumption
<1>2. QED  BY <1>1, ElementOfSeq DEF ImportsIn

-----------------------------------------------------------------------------
(* The inductive invariant                                                 *)

ListOf(p) == imports[FileOf[p]]
Held(d)   == Elements(stack[d].stmts) \cup {stack[d].path}

Typed ==
    /\ imports \in Programs /\ bad \in BadSets
    /\ stack \in Seq(FrameType)
    /\ visited \subseteq Paths
    /\ phase \in {"loading", "done", "failed"}
    /\ out \in Seq(Paths)
    /\ phase # "loading" => stack = <<>>
    /\ phase # "done" => out = <<>>

\* The imports a call has dealt with have been marked; every call but the
\* innermost waits for the one above it, at the import that call loads.
Calls ==
    /\ stack # <<>> => stack[1].path = Root
    /\ \A d \in 1..Len(stack) :
         /\ stack[d].next <= Len(ListOf(stack[d].path)) + 1
         /\ \A i \in 1..stack[d].next - 1 : ListOf(stack[d].path)[i] \in visited
    /\ \A d \in 1..Len(stack) - 1 : stack[d].next <= Len(ListOf(stack[d].path))
                                    /\ ListOf(stack[d].path)[stack[d].next] = stack[d + 1].path
    /\ \A e, d \in 1..Len(stack) : e <= d => NeedsIn(imports, stack[e].path, stack[d].path)

\* A marked path is in progress, in one of the lists, or in the result.
Marked ==
    /\ \A d \in 1..Len(stack) : Held(d) \subseteq visited
    /\ phase = "loading" => \A p \in visited : \E d \in 1..Len(stack) : p \in Held(d)
    /\ phase = "done" => visited = Elements(out) /\ Root \in visited

Once ==
    /\ NoRepeats(out)
    /\ \A d \in 1..Len(stack) : NoRepeats(stack[d].stmts) /\ stack[d].path \notin Elements(stack[d].stmts)
    /\ \A d, e \in 1..Len(stack) : d # e => Held(d) \cap Held(e) = {}

\* What is in a list has all its imports marked.
Complete ==
    /\ \A d \in 1..Len(stack) : \A p \in Elements(stack[d].stmts) : ImportsIn(imports, p) \subseteq visited
    /\ phase = "done" => \A p \in visited : ImportsIn(imports, p) \subseteq visited

Wanted == \A p \in visited : NeedsIn(imports, Root, p)

Sound ==
    /\ phase # "failed" => \A p \in visited : FileOf[p] \notin bad
    /\ phase = "failed" => \E q \in Paths : NeedsIn(imports, Root, q) /\ FileOf[q] \in bad

\* An import stands before its importer, in the same list or in that of an
\* outer call, unless it needs the importer.
InPlace(s, i, d) ==
    \A q \in ImportsIn(imports, s[i]) :
        \/ \E j \in 1..i - 1 : s[j] = q
        \/ \E e \in 1..d - 1 : q \in Elements(stack[e].stmts)
        \/ NeedsIn(imports, q, s[i])

Ordered ==
    /\ \A d \in 1..Len(stack) : \A i \in 1..Len(stack[d].stmts) : InPlace(stack[d].stmts, i, d)
    /\ \A i \in 1..Len(out) : InPlace(out, i, 1)

LInv == Typed /\ Calls /\ Marked /\ Once /\ Complete /\ Wanted /\ Sound /\ Ordered

\* A call in progress.
LEMMA FrameAt ==
    ASSUME Typed, NEW d \in 1..Len(stack)
    PROVE  /\ stack[d].path \in Paths /\ stack[d].next \in Nat \ {0}
           /\ stack[d].stmts \in Seq(Paths) /\ ListOf(stack[d].path) \in Seq(Paths)
           /\ Len(ListOf(stack[d].path)) \in Nat
           /\ imports \in [Files -> Seq(Paths)]
<1>1. stack[d] \in FrameType  BY ElementOfSeq DEF Typed
<1>2. stack[d].path \in Paths /\ stack[d].next \in Nat \ {0} /\ stack[d].stmts \in Seq(Paths)
  BY <1>1 DEF FrameType
<1>3. imports \in [Files -> Seq(Paths)]  BY ProgramsAssumption DEF Typed
<1>4. ListOf(stack[d].path) \in Seq(Paths)  BY <1>2, <1>3, PathsAssumption DEF ListOf
<1>5. QED  BY <1>2, <1>3, <1>4

LEMMA InitLInv == Init => LInv
<1> SUFFICES ASSUME Init PROVE LInv  OBVIOUS
<1>1. Len(stack) = 0 /\ stack \in Seq(FrameType) /\ Len(out) = 0 /\ out \in Seq(Paths)
  BY DEF Init
<1>2. QED
  BY <1>1 DEF Init, LInv, Typed, Calls, Marked, Once, Complete, Wanted, Sound, Ordered, NoRepeats

-----------------------------------------------------------------------------
(* A call begins                                                           *)

\* The path p is new and is needed, and it is the root or the import at which
\* the innermost call stands.
Callable(p) ==
    /\ p \in Paths /\ p \notin visited /\ phase = "loading"
    /\ NeedsIn(imports, Root, p)
    /\ \A e \in 1..Len(stack) : NeedsIn(imports, stack[e].path, p)
    /\ stack = <<>> => p = Root
    /\ stack # <<>> => /\ Top.next <= Len(ListOf(Top.path))
                       /\ ListOf(Top.path)[Top.next] = p

LEMMA CallFails ==
    ASSUME LInv, NEW p, Callable(p), Call(p), FileOf[p] \in bad
    PROVE  LInv'
<1>1. /\ visited' = visited \cup {p} /\ phase' = "failed" /\ stack' = <<>>
      /\ imports' = imports /\ bad' = bad /\ out' = out
  BY DEF Call
<1>2. p \in Paths /\ NeedsIn(imports, Root, p) /\ out = <<>>
  BY DEF Callable, LInv, Typed
<1>3. Len(stack') = 0 /\ stack' \in Seq(FrameType) /\ Len(out') = 0  BY <1>1, <1>2
<1>4. Typed'  BY <1>1, <1>2, <1>3 DEF LInv, Typed
<1>5. Calls' /\ Marked' /\ Complete'  BY <1>1, <1>3 DEF Calls, Marked, Complete
<1>6. Once' /\ Ordered'  BY <1>1, <1>3 DEF LInv, Once, Ordered, NoRepeats
<1>7. Wanted' /\ Sound'  BY <1>1, <1>2 DEF LInv, Wanted, Sound
<1>8. QED  BY <1>4, <1>5, <1>6, <1>7 DEF LInv

LEMMA CallShape ==
    ASSUME Typed, NEW p \in Paths, Call(p), FileOf[p] \notin bad
    PROVE  /\ visited' = visited \cup {p} /\ phase' = phase
           /\ imports' = imports /\ bad' = bad /\ out' = out
           /\ Len(stack) \in Nat /\ Len(stack') = Len(stack) + 1
           /\ stack' \in Seq(FrameType)
           /\ \A d \in 1..Len(stack) : stack'[d] = stack[d]
           /\ stack'[Len(stack) + 1].path = p /\ stack'[Len(stack) + 1].next = 1
           /\ stack'[Len(stack) + 1].stmts = <<>>
<1>1. /\ visited' = visited \cup {p} /\ phase' = phase /\ stack' = Append(stack, Frame(p))
      /\ imports' = imports /\ bad' = bad /\ out' = out
  BY DEF Call
<1>2. Frame(p) \in FrameType /\ Frame(p).path = p /\ Frame(p).next = 1 /\ Frame(p).stmts = <<>>
  BY DEF Frame, FrameType
<1>3. stack \in Seq(FrameType)  BY DEF Typed
<1> HIDE DEF Frame, FrameType
<1>4. QED  BY <1>1, <1>2, <1>3

LEMMA CallSucceeds ==
    ASSUME LInv, NEW p, Callable(p), Call(p), FileOf[p] \notin bad
    PROVE  LInv'
<1> DEFINE n == Len(stack)
<1>1. Typed /\ p \in Paths /\ p \notin visited /\ phase = "loading"  BY DEF LInv, Callable
<1>2. /\ visited' = visited \cup {p} /\ phase' = phase
      /\ imports' = imports /\ bad' = bad /\ out' = out
      /\ n \in Nat /\ Len(stack') = n + 1 /\ stack' \in Seq(FrameType)
      /\ \A d \in 1..n : stack'[d] = stack[d]
      /\ stack'[n + 1].path = p /\ stack'[n + 1].next = 1 /\ stack'[n + 1].stmts = <<>>
  BY <1>1, CallShape
<1>3. \A d \in 1..n + 1 : d \in 1..n \/ d = n + 1  BY <1>2
<1>4. \A d \in 1..n : stack'[d].stmts = stack[d].stmts /\ stack'[d].path = stack[d].path
                      /\ stack'[d].next = stack[d].next
  BY <1>2
<1>5. Elements(<<>>) = {} /\ NoRepeats(<<>>)  BY DEF Elements, NoRepeats
<1>6. /\ \A d \in 1..n : Held(d)' = Held(d)
      /\ Elements(stack'[n + 1].stmts) \cup {stack'[n + 1].path} = {p}
  BY <1>2, <1>4, <1>5 DEF Held
<1>7. n # 0 => stack # <<>> /\ Top = stack[n]  BY <1>1, <1>2 DEF Typed, Top
<1>8. n = 0 => stack = <<>>  BY <1>1 DEF Typed
<1>9. \A q : (ListOf(q))' = ListOf(q)  BY <1>2 DEF ListOf
<1> HIDE DEF n
<1>10. Typed'  BY <1>1, <1>2 DEF Typed
<1>11. Calls'
  <2>1. stack'[1].path = Root
    <3>1. CASE n = 0  BY <3>1, <1>2, <1>8 DEF Callable
    <3>2. CASE n # 0
      <4>1. 1 \in 1..n  BY <3>2, <1>2
      <4>2. QED  BY <4>1, <3>2, <1>4, <1>7 DEF LInv, Calls
    <3>3. QED  BY <3>1, <3>2
  <2>2. ASSUME NEW d \in 1..Len(stack')
        PROVE  /\ stack'[d].next <= Len(ListOf(stack'[d].path)) + 1
               /\ \A i \in 1..stack'[d].next - 1 : ListOf(stack'[d].path)[i] \in visited'
    <3>1. CASE d \in 1..n
      BY <3>1, <1>2, <1>4 DEF LInv, Calls, n
    <3>2. CASE d = n + 1
      <4>1. ListOf(p) \in Seq(Paths)
        BY <1>1, PathsAssumption, ProgramsAssumption DEF ListOf, Typed
      <4>2. QED  BY <3>2, <4>1, <1>2
    <3>3. QED  BY <3>1, <3>2, <1>2, <1>3
  <2>3. ASSUME NEW d \in 1..Len(stack') - 1
        PROVE  /\ stack'[d].next <= Len(ListOf(stack'[d].path))
               /\ ListOf(stack'[d].path)[stack'[d].next] = stack'[d + 1].path
    <3>1. CASE d \in 1..n - 1
      <4>1. d \in 1..n /\ d + 1 \in 1..n  BY <3>1, <1>2
      <4>2. QED  BY <3>1, <4>1, <1>4 DEF LInv, Calls, n
    <3>2. CASE d = n
      <4>1. n # 0 /\ n \in 1..n  BY <3>2, <1>2
      <4>2. Top.next <= Len(ListOf(Top.path)) /\ ListOf(Top.path)[Top.next] = p
        BY <4>1, <1>7 DEF Callable
      <4>3. QED  BY <4>1, <4>2, <3>2, <1>2, <1>4, <1>7
    <3>3. QED  BY <3>1, <3>2, <1>2
  <2>4. ASSUME NEW e \in 1..Len(stack'), NEW d \in 1..Len(stack'), e <= d
        PROVE  NeedsIn(imports', stack'[e].path, stack'[d].path)
    <3>1. CASE d \in 1..n
      <4>1. e \in 1..n  BY <3>1, <2>4, <1>2
      <4>2. QED  BY <3>1, <4>1, <2>4, <1>2, <1>4 DEF LInv, Calls, n
    <3>2. CASE d = n + 1 /\ e \in 1..n
      BY <3>2, <1>2, <1>4 DEF Callable, n
    <3>3. CASE d = n + 1 /\ e = n + 1  BY <3>3, NeedsSelf
    <3>4. QED  BY <3>1, <3>2, <3>3, <1>2, <1>3
  <2>5. QED  BY <2>1, <2>2, <2>3, <2>4, <1>9 DEF Calls, ListOf
<1>12. Marked'
  <2>1. ASSUME NEW d \in 1..Len(stack')  PROVE Held(d)' \subseteq visited'
    <3>1. CASE d \in 1..n  BY <3>1, <1>2, <1>6 DEF LInv, Marked, n
    <3>2. CASE d = n + 1  BY <3>2, <1>2, <1>6 DEF Held
    <3>3. QED  BY <3>1, <3>2, <1>2, <1>3
  <2>2. ASSUME NEW q \in visited'  PROVE \E d \in 1..Len(stack') : q \in Held(d)'
    <3>1. CASE q \in visited
      <4>1. PICK d \in 1..n : q \in Held(d)  BY <3>1, <1>1 DEF LInv, Marked, n
      <4>2. d \in 1..Len(stack') /\ q \in Held(d)'  BY <4>1, <1>2, <1>6
      <4>3. QED  BY <4>2
    <3>2. CASE q = p
      <4>1. n + 1 \in 1..Len(stack')  BY <1>2
      <4>2. stack'[n + 1].path = q  BY <3>2, <1>2
      <4>3. QED  BY <4>1, <4>2 DEF Held
    <3>3. QED  BY <3>1, <3>2, <1>2
  <2>3. QED  BY <2>1, <2>2, <1>1, <1>2 DEF Marked
<1>13. Once'
  <2>1. ASSUME NEW d \in 1..Len(stack')
        PROVE  NoRepeats(stack'[d].stmts) /\ stack'[d].path \notin Elements(stack'[d].stmts)
    <3>1. CASE d \in 1..n  BY <3>1, <1>4 DEF LInv, Once, n
    <3>2. CASE d = n + 1  BY <3>2, <1>2, <1>5
    <3>3. QED  BY <3>1, <3>2, <1>2, <1>3
  <2>2. \A d \in 1..n : p \notin Held(d)  BY <1>1 DEF LInv, Marked, n
  <2>3. ASSUME NEW d \in 1..Len(stack'), NEW e \in 1..Len(stack'), d # e
        PROVE  Held(d)' \cap Held(e)' = {}
    <3>1. CASE d \in 1..n /\ e \in 1..n  BY <3>1, <2>3, <1>6 DEF LInv, Once, n
    <3>2. CASE d \in 1..n /\ e = n + 1
      <4>1. Held(e)' = {p}  BY <3>2, <1>6 DEF Held
      <4>2. QED  BY <3>2, <4>1, <2>2, <1>6
    <3>3. CASE d = n + 1 /\ e \in 1..n
      <4>1. Held(d)' = {p}  BY <3>3, <1>6 DEF Held
      <4>2. QED  BY <3>3, <4>1, <2>2, <1>6
    <3>4. QED  BY <3>1, <3>2, <3>3, <2>3, <1>2, <1>3
  <2>4. NoRepeats(out')  BY <1>2 DEF LInv, Once
  <2>5. QED  BY <2>1, <2>3, <2>4 DEF Once
<1>14. Complete'
  <2>1. ASSUME NEW d \in 1..Len(stack'), NEW q \in Elements(stack'[d].stmts)
        PROVE  ImportsIn(imports', q) \subseteq visited'
    <3>1. CASE d \in 1..n  BY <3>1, <2>1, <1>2, <1>4 DEF LInv, Complete, n
    <3>2. CASE d = n + 1  BY <3>2, <2>1, <1>2, <1>5
    <3>3. QED  BY <3>1, <3>2, <1>2, <1>3
  <2>2. QED  BY <2>1, <1>1, <1>2 DEF Complete
<1>15. Wanted' /\ Sound'
  BY <1>1, <1>2 DEF LInv, Wanted, Sound, Callable
<1>16. Ordered'
  <2>1. ASSUME NEW d \in 1..Len(stack'), NEW i \in 1..Len(stack'[d].stmts),
               NEW q \in ImportsIn(imports', stack'[d].stmts[i])
        PROVE  \/ \E j \in 1..i - 1 : stack'[d].stmts[j] = q
               \/ \E e \in 1..d - 1 : q \in Elements(stack'[e].stmts)
               \/ NeedsIn(imports', q, stack'[d].stmts[i])
    <3>1. CASE d \in 1..n
      <4>1. \A e \in 1..d - 1 : e \in 1..n  BY <3>1, <1>2
      <4>2. InPlace(stack[d].stmts, i, d)  BY <3>1, <1>4 DEF LInv, Ordered, n
      <4>3. QED  BY <3>1, <4>1, <4>2, <1>2, <1>4 DEF InPlace
    <3>2. CASE d = n + 1  BY <3>2, <1>2
    <3>3. QED  BY <3>1, <3>2, <1>2, <1>3
  <2>2. ASSUME NEW d \in 1..Len(stack'), NEW i \in 1..Len(stack'[d].stmts)
        PROVE  InPlace(stack[d].stmts, i, d)'
    BY <2>1 DEF InPlace
  <2>3. Len(out') = 0  BY <1>1, <1>2 DEF Typed
  <2>4. QED  BY <2>2, <2>3 DEF Ordered
<1>17. QED  BY <1>10, <1>11, <1>12, <1>13, <1>14, <1>15, <1>16 DEF LInv

LEMMA CallKeeps ==
    ASSUME LInv, NEW p, Callable(p), Call(p)
    PROVE  LInv'
BY CallFails, CallSucceeds

LEMMA StartCalls ==
    ASSUME LInv, Start
    PROVE  Callable(Root) /\ Call(Root)
<1>1. phase = "loading" /\ visited = {} /\ Call(Root)  BY DEF Start
<1>2. \A d \in 1..Len(stack) : FALSE  BY <1>1 DEF LInv, Marked, Held
<1>3. stack = <<>>
  <2>1. stack \in Seq(FrameType)  BY DEF LInv, Typed
  <2>2. Len(stack) = 0  BY <2>1, <1>2
  <2>3. QED  BY <2>1, <2>2
<1>4. Callable(Root)
  BY <1>1, <1>2, <1>3, NeedsSelf, PathsAssumption DEF Callable
<1>5. QED  BY <1>1, <1>4

LEMMA LoadImportCalls ==
    ASSUME LInv, LoadImport
    PROVE  \E p : Callable(p) /\ Call(p)
<1> DEFINE n == Len(stack)
           p == ListOf(Top.path)[Top.next]
<1>1. stack # <<>> /\ Top.next <= Len(ListOf(Top.path)) /\ p \notin visited /\ Call(p)
  BY DEF LoadImport, AlreadyLoaded, ImportsOf, ListOf
<1>2. n \in 1..n /\ Top = stack[n] /\ phase = "loading" /\ Typed
  <2>1. stack \in Seq(FrameType)  BY DEF LInv, Typed
  <2>2. QED  BY <2>1, <1>1 DEF LInv, Typed, Top
<1>3. Top.path \in Paths /\ Top.next \in 1..Len(ListOf(Top.path)) /\ imports \in [Files -> Seq(Paths)]
  BY <1>1, <1>2, FrameAt
<1>4. p \in Paths /\ p \in ImportsIn(imports, Top.path)
  BY <1>3, ImportAt DEF ListOf
<1> HIDE DEF p, n
<1>5. \A e \in 1..Len(stack) : NeedsIn(imports, stack[e].path, p)
  <2> SUFFICES ASSUME NEW e \in 1..Len(stack) PROVE NeedsIn(imports, stack[e].path, p)
    OBVIOUS
  <2>1. NeedsIn(imports, stack[e].path, stack[n].path)  BY <1>2 DEF LInv, Calls, n
  <2>2. QED  BY <2>1, <1>2, <1>4, NeedsImport
<1>6. NeedsIn(imports, Root, p)
  <2>1. 1 \in 1..Len(stack)  BY <1>2 DEF n
  <2>2. QED  BY <2>1, <1>1, <1>5 DEF LInv, Calls
<1>7. Callable(p)  BY <1>1, <1>2, <1>4, <1>5, <1>6 DEF Callable, p
<1>8. QED  BY <1>1, <1>7

-----------------------------------------------------------------------------
(* An import is passed over, a call returns                                *)

LEMMA SkipShape ==
    ASSUME Typed, SkipImport
    PROVE  /\ imports' = imports /\ bad' = bad /\ visited' = visited /\ phase' = phase /\ out' = out
           /\ Len(stack) \in 1..Len(stack) /\ Len(stack') = Len(stack) /\ stack' \in Seq(FrameType)
           /\ stack # <<>> /\ stack' # <<>>
           /\ \A d \in 1..Len(stack) :
                stack'[d].path = stack[d].path /\ stack'[d].stmts = stack[d].stmts
           /\ \A d \in 1..Len(stack) - 1 : stack'[d].next = stack[d].next
           /\ stack'[Len(stack)].next = stack[Len(stack)].next + 1
           /\ stack[Len(stack)].next <= Len(ListOf(stack[Len(stack)].path))
           /\ ListOf(stack[Len(stack)].path)[stack[Len(stack)].next] \in visited
<1> DEFINE n == Len(stack)
           f == [Top EXCEPT !.next = Top.next + 1]
<1>1. /\ stack # <<>> /\ Top.next <= Len(ListOf(Top.path)) /\ ListOf(Top.path)[Top.next] \in visited
      /\ stack' = [stack EXCEPT ![n] = f]
      /\ imports' = imports /\ bad' = bad /\ visited' = visited /\ phase' = phase /\ out' = out
  BY DEF SkipImport, AlreadyLoaded, ImportsOf, ListOf, Replace
<1>2. stack \in Seq(FrameType) /\ n \in 1..n  BY <1>1 DEF Typed
<1>3. Top = stack[n] /\ Top \in FrameType  BY <1>2, ElementOfSeq DEF Top
<1>4. f \in FrameType /\ f.path = Top.path /\ f.stmts = Top.stmts /\ f.next = Top.next + 1
  BY <1>3 DEF FrameType
<1> HIDE DEF f, FrameType
<1>5. /\ stack' \in Seq(FrameType) /\ Len(stack') = n
      /\ stack'[n] = f /\ \A d \in 1..n : d # n => stack'[d] = stack[d]
  BY <1>1, <1>2, <1>4
<1>6. \A d \in 1..n - 1 : d \in 1..n /\ d # n  BY <1>2
<1>7. stack' # <<>>  BY <1>2, <1>5
<1>8. \A d \in 1..n : stack'[d].path = stack[d].path /\ stack'[d].stmts = stack[d].stmts
  BY <1>3, <1>4, <1>5
<1>9. QED  BY <1>1, <1>2, <1>3, <1>4, <1>5, <1>6, <1>7, <1>8

LEMMA SkipImportKeeps ==
    ASSUME LInv, SkipImport
    PROVE  LInv'
<1> DEFINE n == Len(stack)
<1>1. Typed  BY DEF LInv
<1>2. /\ imports' = imports /\ bad' = bad /\ visited' = visited /\ phase' = phase /\ out' = out
      /\ n \in 1..n /\ Len(stack') = n /\ stack' \in Seq(FrameType)
      /\ stack # <<>> /\ stack' # <<>>
      /\ \A d \in 1..n : stack'[d].path = stack[d].path /\ stack'[d].stmts = stack[d].stmts
      /\ \A d \in 1..n - 1 : stack'[d].next = stack[d].next
      /\ stack'[n].next = stack[n].next + 1
      /\ stack[n].next <= Len(ListOf(stack[n].path))
      /\ ListOf(stack[n].path)[stack[n].next] \in visited
  BY <1>1, SkipShape
<1>3. \A d \in 1..n : Held(d)' = Held(d)  BY <1>2 DEF Held
<1>4. \A q : (ListOf(q))' = ListOf(q)  BY <1>2 DEF ListOf
<1> HIDE DEF n
<1>5. Typed'  BY <1>1, <1>2 DEF Typed
<1>6. Calls'
  <2>1. ASSUME NEW d \in 1..n
        PROVE  /\ stack'[d].next <= Len(ListOf(stack[d].path)) + 1
               /\ \A i \in 1..stack'[d].next - 1 : ListOf(stack[d].path)[i] \in visited
    <3>1. CASE d = n
      <4>1. stack[n].next \in Nat \ {0} /\ Len(ListOf(stack[n].path)) \in Nat
        BY <1>1, <1>2, FrameAt DEF n
      <4>2. \A i \in 1..stack[n].next - 1 : ListOf(stack[n].path)[i] \in visited
        BY <1>2 DEF LInv, Calls, n
      <4>3. \A i \in 1..stack'[n].next - 1 : i \in 1..stack[n].next - 1 \/ i = stack[n].next
        BY <4>1, <1>2
      <4>4. QED  BY <3>1, <4>1, <4>2, <4>3, <1>2
    <3>2. CASE d # n
      <4>1. d \in 1..n - 1  BY <3>2, <1>2
      <4>2. QED  BY <4>1, <1>2 DEF LInv, Calls, n
    <3>3. QED  BY <3>1, <3>2
  <2>2. ASSUME NEW d \in 1..n - 1
        PROVE  /\ stack'[d].next <= Len(ListOf(stack[d].path))
               /\ ListOf(stack[d].path)[stack'[d].next] = stack'[d + 1].path
    <3>1. d + 1 \in 1..n  BY <1>2
    <3>2. QED  BY <3>1, <1>2 DEF LInv, Calls, n
  <2>3. stack'[1].path = Root
    <3>1. 1 \in 1..n  BY <1>2
    <3>2. QED  BY <3>1, <1>2 DEF LInv, Calls
  <2>4. \A e, d \in 1..n : e <= d => NeedsIn(imports, stack'[e].path, stack'[d].path)
    BY <1>2 DEF LInv, Calls, n
  <2>5. \A d \in 1..n : stack'[d].path = stack[d].path  BY <1>2
  <2>6. \A d \in 1..n - 1 : d \in 1..n  BY <1>2
  <2>7. QED  BY <2>1, <2>2, <2>3, <2>4, <2>5, <2>6, <1>2, <1>4 DEF Calls, ListOf
<1>7. Marked' /\ Wanted' /\ Sound'
  BY <1>1, <1>2, <1>3 DEF LInv, Marked, Wanted, Sound, n
<1>8. Once' /\ Complete'
  BY <1>2, <1>3 DEF LInv, Once, Complete, n
<1>9. Ordered'
  <2>1. ASSUME NEW d \in 1..n, NEW i \in 1..Len(stack[d].stmts)
        PROVE  InPlace(stack[d].stmts, i, d)'
    <3>1. InPlace(stack[d].stmts, i, d)  BY <1>2 DEF LInv, Ordered, n
    <3>2. \A e \in 1..d - 1 : e \in 1..n  BY <1>2
    <3>3. QED  BY <3>1, <3>2, <1>2 DEF InPlace
  <2>2. ASSUME NEW i \in 1..Len(out)  PROVE InPlace(out, i, 1)'
    <3>1. InPlace(out, i, 1)  BY DEF LInv, Ordered
    <3>2. \A e \in 1..1 - 1 : FALSE  OBVIOUS
    <3>3. QED  BY <3>1, <3>2, <1>2 DEF InPlace
  <2>3. QED  BY <2>1, <2>2, <1>2 DEF Ordered
<1>10. QED  BY <1>5, <1>6, <1>7, <1>8, <1>9 DEF LInv

\* The innermost call can return: every import of its path has been marked, and
\* so the path may stand after the list the call has gathered.
LEMMA ReadyToReturn ==
    ASSUME LInv, Return
    PROVE  /\ stack # <<>> /\ Len(stack) \in 1..Len(stack) /\ Top = stack[Len(stack)]
           /\ phase = "loading" /\ Top.path \in Paths /\ Top.stmts \in Seq(Paths)
           /\ Top.next > Len(ListOf(Top.path))
           /\ Gathered(Top) \in Seq(Paths) /\ Elements(Gathered(Top)) = Held(Len(stack))
           /\ Len(Gathered(Top)) = Len(Top.stmts) + 1 /\ Len(Top.stmts) \in Nat
           /\ NoRepeats(Gathered(Top))
           /\ \A i \in 1..Len(Gathered(Top)) : InPlace(Gathered(Top), i, Len(stack))
           /\ \A q \in Held(Len(stack)) : ImportsIn(imports, q) \subseteq visited
<1> DEFINE n == Len(stack)
           g == Gathered(Top)
<1>1. stack # <<>> /\ Top.next > Len(ListOf(Top.path))
  BY DEF Return, ImportsOf, ListOf
<1>2. Typed /\ stack \in Seq(FrameType) /\ n \in 1..n /\ Top = stack[n] /\ phase = "loading"
  BY <1>1 DEF LInv, Typed, Top
<1>3. Top.path \in Paths /\ Top.stmts \in Seq(Paths) /\ ListOf(Top.path) \in Seq(Paths)
      /\ Top.next \in Nat
  BY <1>2, FrameAt
<1>4. /\ g \in Seq(Paths) /\ Elements(g) = Elements(Top.stmts) \cup {Top.path}
      /\ Len(g) = Len(Top.stmts) + 1 /\ Len(Top.stmts) \in Nat
      /\ \A i \in 1..Len(Top.stmts) : g[i] = Top.stmts[i]
      /\ g[Len(Top.stmts) + 1] = Top.path
  BY <1>3, ElementsAppend DEF Gathered
<1>5. NoRepeats(g)
  BY <1>2, <1>3, ElementsAppend DEF LInv, Once, Gathered
<1>6. \A q \in ImportsIn(imports, Top.path) : q \in visited
  <2> SUFFICES ASSUME NEW q \in ImportsIn(imports, Top.path) PROVE q \in visited
    OBVIOUS
  <2>1. PICK i \in 1..Len(ListOf(Top.path)) : ListOf(Top.path)[i] = q
    BY DEF ImportsIn, ListOf
  <2>2. i \in 1..Top.next - 1  BY <1>1, <1>3, <2>1
  <2>3. QED  BY <2>1, <2>2, <1>2 DEF LInv, Calls
<1>7. \A q \in Held(n) : ImportsIn(imports, q) \subseteq visited
  BY <1>2, <1>6 DEF LInv, Complete, Held
<1> HIDE DEF g, n
<1>8. ASSUME NEW i \in 1..Len(g)  PROVE InPlace(g, i, n)
  <2>1. CASE i \in 1..Len(Top.stmts)
    <3>1. InPlace(Top.stmts, i, n)  BY <2>1, <1>2 DEF LInv, Ordered, n
    <3>2. g[i] = Top.stmts[i] /\ \A j \in 1..i - 1 : g[j] = Top.stmts[j]
      BY <2>1, <1>4
    <3>3. QED  BY <3>1, <3>2 DEF InPlace
  <2>2. CASE i = Len(Top.stmts) + 1
    <3> SUFFICES ASSUME NEW q \in ImportsIn(imports, g[i])
                 PROVE  \/ \E j \in 1..i - 1 : g[j] = q
                        \/ \E e \in 1..n - 1 : q \in Elements(stack[e].stmts)
                        \/ NeedsIn(imports, q, g[i])
      BY DEF InPlace
    <3>1. g[i] = Top.path /\ q \in visited  BY <2>2, <1>4, <1>6
    <3>2. PICK e \in 1..n : q \in Held(e)  BY <3>1, <1>2 DEF LInv, Marked, n
    <3>3. CASE q = stack[e].path
      <4>1. NeedsIn(imports, stack[e].path, stack[n].path)
        BY <3>2, <1>2 DEF LInv, Calls, n
      <4>2. QED  BY <4>1, <3>1, <3>3, <1>2
    <3>4. CASE q \in Elements(stack[e].stmts) /\ e = n
      <4>1. PICK j \in 1..Len(Top.stmts) : Top.stmts[j] = q
        BY <3>4, <1>2, <1>3, InElements
      <4>2. j \in 1..i - 1 /\ g[j] = q  BY <4>1, <2>2, <1>4
      <4>3. QED  BY <4>2
    <3>5. CASE q \in Elements(stack[e].stmts) /\ e # n
      <4>1. e \in 1..n - 1  BY <3>5, <1>2
      <4>2. QED  BY <4>1, <3>5
    <3>6. QED  BY <3>2, <3>3, <3>4, <3>5 DEF Held
  <2>3. QED  BY <2>1, <2>2, <1>4
<1>9. QED  BY <1>1, <1>2, <1>3, <1>4, <1>5, <1>7, <1>8 DEF Held, g, n

LEMMA ReturnFromRoot ==
    ASSUME LInv, Return, Len(stack) = 1
    PROVE  LInv'
<1> DEFINE g == Gathered(Top)
<1>1. /\ phase = "loading" /\ g \in Seq(Paths) /\ Elements(g) = Held(1) /\ NoRepeats(g)
      /\ \A i \in 1..Len(g) : InPlace(g, i, 1)
      /\ \A q \in Held(1) : ImportsIn(imports, q) \subseteq visited
      /\ stack # <<>> /\ Top = stack[1]
  BY ReadyToReturn
<1>2. /\ stack' = <<>> /\ phase' = "done" /\ out' = g
      /\ imports' = imports /\ bad' = bad /\ visited' = visited
  BY DEF Return
<1>3. visited = Held(1) /\ Root \in Held(1)
  <2>1. \A d \in 1..Len(stack) : d = 1  OBVIOUS
  <2>2. Held(1) \subseteq visited  BY DEF LInv, Marked
  <2>3. \A q \in visited : q \in Held(1)  BY <1>1, <2>1 DEF LInv, Marked
  <2>4. stack[1].path = Root  BY <1>1 DEF LInv, Calls
  <2>5. QED  BY <2>2, <2>3, <2>4 DEF Held
<1>4. Len(stack') = 0 /\ stack' \in Seq(FrameType)  BY <1>2
<1> HIDE DEF g
<1>5. Typed'  BY <1>1, <1>2, <1>4 DEF LInv, Typed
<1>6. Calls'  BY <1>2, <1>4 DEF Calls
<1>7. Marked'  BY <1>1, <1>2, <1>3, <1>4 DEF Marked
<1>8. Once' /\ Complete'  BY <1>1, <1>2, <1>3, <1>4 DEF Once, Complete
<1>9. Wanted' /\ Sound'  BY <1>1, <1>2 DEF LInv, Wanted, Sound
<1>10. Ordered'
  <2>1. ASSUME NEW i \in 1..Len(out')  PROVE InPlace(out, i, 1)'
    <3>1. InPlace(g, i, 1)  BY <1>1, <1>2
    <3>2. \A e \in 1..1 - 1 : FALSE  OBVIOUS
    <3>3. QED  BY <3>1, <3>2, <1>2 DEF InPlace
  <2>2. QED  BY <2>1, <1>4 DEF Ordered
<1>11. QED  BY <1>5, <1>6, <1>7, <1>8, <1>9, <1>10 DEF LInv

LEMMA FrameUpdated ==
    ASSUME NEW r \in FrameType, NEW u, NEW v
    PROVE  [[r EXCEPT !.stmts = u] EXCEPT !.next = v] = [path |-> r.path, next |-> v, stmts |-> u]
<1>1. PICK a \in Paths, b \in Nat \ {0}, c \in Seq(Paths) : r = [path |-> a, next |-> b, stmts |-> c]
  BY DEF FrameType
<1>2. [r EXCEPT !.stmts = u] = [path |-> a, next |-> b, stmts |-> u]
  BY <1>1
<1>3. [[path |-> a, next |-> b, stmts |-> u] EXCEPT !.next = v] = [path |-> a, next |-> v, stmts |-> u]
  OBVIOUS
<1>4. r.path = a  BY <1>1
<1>5. QED  BY <1>2, <1>3, <1>4, Zenon

\* The caller's list grows by what the call has gathered.
LEMMA ReturnShape ==
    ASSUME LInv, Return, Len(stack) # 1
    PROVE  /\ imports' = imports /\ bad' = bad /\ visited' = visited /\ phase' = phase /\ out' = out
           /\ Len(stack) \in Nat /\ Len(stack) >= 2
           /\ Len(stack') = Len(stack) - 1 /\ stack' \in Seq(FrameType) /\ stack' # <<>>
           /\ \A d \in 1..Len(stack) - 2 : stack'[d] = stack[d]
           /\ stack'[Len(stack) - 1].path = stack[Len(stack) - 1].path
           /\ stack'[Len(stack) - 1].next = stack[Len(stack) - 1].next + 1
           /\ stack'[Len(stack) - 1].stmts = stack[Len(stack) - 1].stmts \o Gathered(Top)
<1> DEFINE d == Len(stack) - 1
           short == SubSeq(stack, 1, d)
           f == [path |-> stack[d].path, next |-> stack[d].next + 1,
                 stmts |-> stack[d].stmts \o Gathered(Top)]
<1>1. Gathered(Top) \in Seq(Paths) /\ Len(stack) \in 1..Len(stack)  BY ReadyToReturn
<1>2. stack \in Seq(FrameType) /\ d \in 1..Len(stack) /\ d \in 1..d /\ d + 1 = Len(stack) /\ Len(stack) \in Nat
  <2>1. stack \in Seq(FrameType)  BY DEF LInv, Typed
  <2>2. Len(stack) \in Nat  BY <2>1
  <2>3. Len(stack) >= 2
    <3> DEFINE k == Len(stack)
    <3>1. k \in Nat /\ k \in 1..k /\ k # 1  BY <2>2, <1>1
    <3> HIDE DEF k
    <3>2. k >= 2  BY <3>1
    <3>3. QED  BY <3>2 DEF k
  <2>4. d \in 1..Len(stack) /\ d \in 1..d /\ d + 1 = Len(stack)
    <3> DEFINE k == Len(stack)
    <3>1. k \in Nat /\ k >= 2  BY <2>2, <2>3
    <3> HIDE DEF k
    <3>2. k - 1 \in 1..k /\ k - 1 \in 1..(k - 1) /\ (k - 1) + 1 = k  BY <3>1
    <3>3. QED  BY <3>2 DEF k
  <2>5. QED  BY <2>1, <2>2, <2>4
<1>3. stack[d] \in FrameType  BY <1>2, ElementOfSeq
<1>4. stack[d].stmts \in Seq(Paths) /\ stack[d].path \in Paths /\ stack[d].next \in Nat \ {0}
  BY <1>3 DEF FrameType
<1>5. stack[d].stmts \o Gathered(Top) \in Seq(Paths)  BY <1>1, <1>4, ElementsConcat
<1>6. f \in FrameType  BY <1>4, <1>5 DEF FrameType
<1>7. short \in Seq(FrameType) /\ Len(short) = d /\ \A e \in 1..d : short[e] = stack[e]
  BY <1>2
<1>8. /\ stack' = [short EXCEPT ![d].stmts = stack[d].stmts \o Gathered(Top),
                                ![d].next = stack[d].next + 1]
      /\ phase' = phase /\ out' = out /\ imports' = imports /\ bad' = bad /\ visited' = visited
  BY DEF Return
<1>9. stack' = [short EXCEPT ![d] = f]
  <2> DEFINE u == stack[d].stmts \o Gathered(Top)
             v == stack[d].next + 1
  <2>1. short[d] = stack[d]  BY <1>2, <1>7
  <2>2. [[stack[d] EXCEPT !.stmts = u] EXCEPT !.next = v] = f
    <3> HIDE DEF d
    <3>1. f = [path |-> stack[d].path, next |-> v, stmts |-> u]  BY DEF f, u, v
    <3> HIDE DEF u, v, f
    <3>2. QED  BY <1>3, <3>1, FrameUpdated
  <2> HIDE DEF u, v, f
  <2>3. stack' = [[short EXCEPT ![d].stmts = u] EXCEPT ![d].next = v]
    BY <1>8 DEF u, v
  <2>4. d \in DOMAIN short  BY <1>2, <1>7
  <2> HIDE DEF d, short
  <2>5. [[short EXCEPT ![d].stmts = u] EXCEPT ![d].next = v]
          = [short EXCEPT ![d] = [[short[d] EXCEPT !.stmts = u] EXCEPT !.next = v]]
    BY <2>4
  <2>6. QED  BY <2>1, <2>2, <2>3, <2>5
<1> HIDE DEF f, short, FrameType
<1>10. /\ stack' \in Seq(FrameType) /\ Len(stack') = d /\ stack'[d] = f
       /\ \A e \in 1..d - 1 : stack'[e] = stack[e]
  <2> HIDE DEF d
  <2>1. d \in Nat /\ d \in 1..Len(short)  BY <1>2, <1>7
  <2>2. stack' \in Seq(FrameType) /\ Len(stack') = Len(short) /\ stack'[d] = f
        /\ \A e \in 1..Len(short) : e # d => stack'[e] = short[e]
    BY <2>1, <1>6, <1>7, <1>9
  <2>3. \A e \in 1..d - 1 : e \in 1..d /\ e # d  BY <2>1
  <2>4. QED  BY <2>2, <2>3, <1>7
<1>11. stack' # <<>>  BY <1>2, <1>10
<1>12. f.path = stack[d].path /\ f.next = stack[d].next + 1 /\ f.stmts = stack[d].stmts \o Gathered(Top)
  BY DEF f
<1>13. Len(stack) - 2 = d - 1 /\ Len(stack) >= 2  BY <1>2
<1>14. QED  BY <1>2, <1>8, <1>10, <1>11, <1>12, <1>13

LEMMA ReturnToCaller ==
    ASSUME LInv, Return, Len(stack) # 1
    PROVE  LInv'
<1> DEFINE n == Len(stack)
           c == Len(stack) - 1
           g == Gathered(Top)
           s == stack[c].stmts
<1>1. /\ imports' = imports /\ bad' = bad /\ visited' = visited /\ phase' = phase /\ out' = out
      /\ n \in Nat /\ n >= 2 /\ Len(stack') = c /\ stack' \in Seq(FrameType) /\ stack' # <<>>
      /\ \A d \in 1..c - 1 : stack'[d] = stack[d]
      /\ stack'[c].path = stack[c].path /\ stack'[c].next = stack[c].next + 1
      /\ stack'[c].stmts = s \o g
  <2>1. n \in Nat => n - 2 = c - 1  OBVIOUS
  <2>2. QED  BY <2>1, ReturnShape
<1>2. /\ phase = "loading" /\ g \in Seq(Paths) /\ Elements(g) = Held(n) /\ NoRepeats(g)
      /\ \A i \in 1..Len(g) : InPlace(g, i, n)
      /\ \A q \in Held(n) : ImportsIn(imports, q) \subseteq visited
      /\ Top = stack[n]
  BY ReadyToReturn
<1>3. c \in 1..n /\ n \in 1..n /\ c + 1 = n /\ c \in 1..c /\ c # n  BY <1>1
<1>4. Typed  BY DEF LInv
<1>5. s \in Seq(Paths) /\ stack[c].path \in Paths /\ stack[c].next \in Nat \ {0}
      /\ Len(ListOf(stack[c].path)) \in Nat
  BY <1>3, <1>4, FrameAt
<1>6. /\ Len(s \o g) = Len(s) + Len(g) /\ Len(s) \in Nat /\ Len(g) \in Nat
      /\ \A i \in 1..Len(s) : (s \o g)[i] = s[i]
      /\ \A i \in 1..Len(g) : (s \o g)[Len(s) + i] = g[i]
      /\ Elements(s \o g) = Elements(s) \cup Elements(g)
      /\ (NoRepeats(s) /\ NoRepeats(g) /\ Elements(s) \cap Elements(g) = {}) => NoRepeats(s \o g)
  <2>1. Len(s) \in Nat /\ Len(g) \in Nat  BY <1>2, <1>5
  <2>2. QED  BY <2>1, <1>2, <1>5, ElementsConcat
<1> HIDE DEF n, c, g, s
<1>7. \A d \in 1..c : d \in 1..c - 1 \/ d = c  BY <1>1, <1>3
<1>8. \A d \in 1..c : d \in 1..n  BY <1>1, <1>3
<1>9. /\ \A d \in 1..c - 1 : Held(d)' = Held(d)
      /\ Elements(stack'[c].stmts) \cup {stack'[c].path} = Held(c) \cup Held(n)
  BY <1>1, <1>2, <1>6 DEF Held, s
<1>10. \A d \in 1..c : stack'[d].path = stack[d].path  BY <1>1, <1>7
<1>11. \A q : (ListOf(q))' = ListOf(q)  BY <1>1 DEF ListOf
<1>12. Typed'  BY <1>1, <1>2, <1>4 DEF Typed
<1>13. Calls'
  <2>1. stack'[1].path = Root
    <3>1. 1 \in 1..c /\ stack # <<>>  BY <1>1, <1>3 DEF n
    <3>2. QED  BY <3>1, <1>10 DEF LInv, Calls
  <2>2. ASSUME NEW d \in 1..c
        PROVE  /\ stack'[d].next <= Len(ListOf(stack[d].path)) + 1
               /\ \A i \in 1..stack'[d].next - 1 : ListOf(stack[d].path)[i] \in visited
    <3>1. CASE d \in 1..c - 1  BY <3>1, <1>1, <1>8 DEF LInv, Calls, n
    <3>2. CASE d = c
      <4>1. c \in 1..n - 1  BY <1>1, <1>3
      <4>2. /\ stack[c].next <= Len(ListOf(stack[c].path))
            /\ ListOf(stack[c].path)[stack[c].next] = stack[n].path
        BY <4>1, <1>3 DEF LInv, Calls, n
      <4>3. stack[n].path \in visited  BY <1>3 DEF LInv, Marked, Held, n
      <4>4. \A i \in 1..stack[c].next - 1 : ListOf(stack[c].path)[i] \in visited
        BY <1>3 DEF LInv, Calls, n
      <4>5. \A i \in 1..stack'[c].next - 1 : i \in 1..stack[c].next - 1 \/ i = stack[c].next
        BY <1>1, <1>5
      <4>6. QED  BY <3>2, <4>2, <4>3, <4>4, <4>5, <1>1, <1>5
    <3>3. QED  BY <3>1, <3>2, <1>7
  <2>3. ASSUME NEW d \in 1..c - 1
        PROVE  /\ stack'[d].next <= Len(ListOf(stack[d].path))
               /\ ListOf(stack[d].path)[stack'[d].next] = stack'[d + 1].path
    <3>1. d \in 1..n - 1 /\ d + 1 \in 1..c  BY <1>1, <1>3
    <3>2. QED  BY <3>1, <1>1, <1>10 DEF LInv, Calls, n
  <2>4. \A e, d \in 1..c : e <= d => NeedsIn(imports, stack[e].path, stack[d].path)
    BY <1>8 DEF LInv, Calls, n
  <2>5. \A d \in 1..c - 1 : d \in 1..c  BY <1>1, <1>3
  <2>6. QED  BY <2>1, <2>2, <2>3, <2>4, <2>5, <1>1, <1>10, <1>11 DEF Calls, ListOf
<1>14. Marked'
  <2>1. ASSUME NEW d \in 1..c  PROVE Held(d)' \subseteq visited
    <3>1. Held(d) \subseteq visited /\ Held(n) \subseteq visited  BY <1>3, <1>8 DEF LInv, Marked, n
    <3>2. CASE d \in 1..c - 1  BY <3>1, <3>2, <1>9
    <3>3. CASE d = c  BY <3>1, <3>3, <1>9 DEF Held
    <3>4. QED  BY <3>2, <3>3, <1>7
  <2>2. ASSUME NEW q \in visited  PROVE \E d \in 1..c : q \in Held(d)'
    <3>1. PICK d \in 1..n : q \in Held(d)  BY <1>2 DEF LInv, Marked, n
    <3>2. CASE d \in 1..c - 1
      <4>1. d \in 1..c /\ q \in Held(d)'  BY <3>1, <3>2, <1>3, <1>9
      <4>2. QED  BY <4>1
    <3>3. CASE d = c \/ d = n
      <4>1. q \in Elements(stack'[c].stmts) \cup {stack'[c].path}  BY <3>1, <3>3, <1>9
      <4>2. QED  BY <4>1, <1>3 DEF Held
    <3>4. QED  BY <3>2, <3>3, <1>1, <1>3
  <2>3. QED  BY <2>1, <2>2, <1>1, <1>2 DEF Marked
<1>15. Once'
  <2>1. Held(c) \cap Held(n) = {}  BY <1>3 DEF LInv, Once, n
  <2>2. NoRepeats(s) /\ stack[c].path \notin Elements(s)  BY <1>3 DEF LInv, Once, n, s
  <2>3. NoRepeats(s \o g) /\ stack[c].path \notin Elements(s \o g)
    <3>1. Elements(s) \subseteq Held(c) /\ stack[c].path \in Held(c)  BY DEF Held, s
    <3>2. QED  BY <3>1, <2>1, <2>2, <1>2, <1>6
  <2>4. ASSUME NEW d \in 1..c
        PROVE  NoRepeats(stack'[d].stmts) /\ stack'[d].path \notin Elements(stack'[d].stmts)
    <3>1. CASE d \in 1..c - 1  BY <3>1, <1>1, <1>8 DEF LInv, Once, n
    <3>2. CASE d = c  BY <3>2, <2>3, <1>1
    <3>3. QED  BY <3>1, <3>2, <1>7
  <2>5. ASSUME NEW d \in 1..c, NEW e \in 1..c, d # e
        PROVE  Held(d)' \cap Held(e)' = {}
    <3>1. /\ Held(d) \cap Held(e) = {}
          /\ d # n => Held(d) \cap Held(n) = {}
          /\ e # n => Held(e) \cap Held(n) = {}
      BY <2>5, <1>3, <1>8 DEF LInv, Once, n
    <3>2. d # n /\ e # n  BY <1>1, <1>3
    <3>3. CASE d \in 1..c - 1 /\ e \in 1..c - 1  BY <3>1, <3>3, <1>9
    <3>4. CASE d = c /\ e \in 1..c - 1
      <4>1. Held(d)' = Held(c) \cup Held(n)  BY <3>4, <1>9 DEF Held
      <4>2. QED  BY <4>1, <3>1, <3>2, <3>4, <1>9
    <3>5. CASE e = c /\ d \in 1..c - 1
      <4>1. Held(e)' = Held(c) \cup Held(n)  BY <3>5, <1>9 DEF Held
      <4>2. QED  BY <4>1, <3>1, <3>2, <3>5, <1>9
    <3>6. QED  BY <2>5, <3>3, <3>4, <3>5, <1>7
  <2>6. NoRepeats(out')  BY <1>1 DEF LInv, Once
  <2>7. QED  BY <2>4, <2>5, <2>6, <1>1 DEF Once
<1>16. Complete'
  <2>1. ASSUME NEW d \in 1..c, NEW q \in Elements(stack'[d].stmts)
        PROVE  ImportsIn(imports, q) \subseteq visited
    <3>1. CASE d \in 1..c - 1  BY <3>1, <2>1, <1>1, <1>8 DEF LInv, Complete, n
    <3>2. CASE d = c
      <4>1. q \in Elements(s) \/ q \in Held(n)  BY <3>2, <2>1, <1>1, <1>2, <1>6
      <4>2. q \in Elements(s) => ImportsIn(imports, q) \subseteq visited
        BY <1>3 DEF LInv, Complete, n, s
      <4>3. QED  BY <4>1, <4>2, <1>2
    <3>3. QED  BY <3>1, <3>2, <1>7
  <2>2. QED  BY <2>1, <1>1, <1>2 DEF Complete
<1>17. Wanted' /\ Sound'  BY <1>1, <1>2 DEF LInv, Wanted, Sound
<1>18. Ordered'
  <2>1. ASSUME NEW d \in 1..c, NEW i \in 1..Len(stack'[d].stmts)
        PROVE  InPlace(stack[d].stmts, i, d)'
    <3>1. CASE d \in 1..c - 1
      <4>1. InPlace(stack[d].stmts, i, d)  BY <3>1, <1>1, <1>8 DEF LInv, Ordered, n
      <4>2. \A e \in 1..d - 1 : e \in 1..c - 1  BY <3>1, <1>1, <1>3
      <4>3. QED  BY <3>1, <4>1, <4>2, <1>1 DEF InPlace
    <3>2. CASE d = c
      <4>1. \A e \in 1..c - 1 : stack'[e].stmts = stack[e].stmts  BY <1>1
      <4>2. stack'[d].stmts = s \o g  BY <3>2, <1>1
      <4>3. ASSUME NEW q \in ImportsIn(imports, (s \o g)[i])
            PROVE  \/ \E j \in 1..i - 1 : (s \o g)[j] = q
                   \/ \E e \in 1..c - 1 : q \in Elements(stack[e].stmts)
                   \/ NeedsIn(imports, q, (s \o g)[i])
        <5>1. CASE i \in 1..Len(s)
          <6>1. InPlace(s, i, c)  BY <5>1, <1>3 DEF LInv, Ordered, n, s
          <6>2. (s \o g)[i] = s[i] /\ \A j \in 1..i - 1 : (s \o g)[j] = s[j]
            BY <5>1, <1>6
          <6>3. QED  BY <6>1, <6>2 DEF InPlace
        <5>2. ASSUME NEW k \in 1..Len(g), i = Len(s) + k
              PROVE  \/ \E j \in 1..i - 1 : (s \o g)[j] = q
                     \/ \E e \in 1..c - 1 : q \in Elements(stack[e].stmts)
                     \/ NeedsIn(imports, q, (s \o g)[i])
          <6>1. (s \o g)[i] = g[k] /\ InPlace(g, k, n)  BY <5>2, <1>2, <1>6
          <6>2. \/ \E j \in 1..k - 1 : g[j] = q
                \/ \E e \in 1..n - 1 : q \in Elements(stack[e].stmts)
                \/ NeedsIn(imports, q, g[k])
            BY <6>1 DEF InPlace
          <6>3. CASE \E j \in 1..k - 1 : g[j] = q
            <7>1. PICK j \in 1..k - 1 : g[j] = q  BY <6>3
            <7>2. Len(s) + j \in 1..i - 1 /\ j \in 1..Len(g)  BY <5>2, <1>6
            <7>3. QED  BY <7>1, <7>2, <1>6
          <6>4. CASE \E e \in 1..n - 1 : q \in Elements(stack[e].stmts)
            <7>1. PICK e \in 1..n - 1 : q \in Elements(stack[e].stmts)  BY <6>4
            <7>2. CASE e = c
              <8>1. PICK j \in 1..Len(s) : s[j] = q  BY <7>1, <7>2, <1>5, InElements DEF s
              <8>2. j \in 1..i - 1 /\ (s \o g)[j] = q  BY <8>1, <5>2, <1>6
              <8>3. QED  BY <8>2
            <7>3. CASE e # c
              <8>1. e \in 1..c - 1  BY <7>3, <1>1, <1>3
              <8>2. QED  BY <8>1, <7>1
            <7>4. QED  BY <7>2, <7>3
          <6>5. QED  BY <6>1, <6>2, <6>3, <6>4
        <5>3. i \in 1..Len(s) \/ \E k \in 1..Len(g) : i = Len(s) + k
          <6>1. i \in 1..Len(s) + Len(g)  BY <4>2, <1>6
          <6>2. i > Len(s) => i - Len(s) \in 1..Len(g) /\ i = Len(s) + (i - Len(s))
            BY <6>1, <1>6
          <6>3. QED  BY <6>1, <6>2, <1>6
        <5>4. QED  BY <5>1, <5>2, <5>3
      <4>4. QED
        <5> DEFINE t == s \o g
        <5> HIDE DEF t
        <5>1. \A q \in ImportsIn(imports', stack'[d].stmts[i]) :
                 \/ \E j \in 1..i - 1 : stack'[d].stmts[j] = q
                 \/ \E e \in 1..d - 1 : q \in Elements(stack'[e].stmts)
                 \/ NeedsIn(imports', q, stack'[d].stmts[i])
          <6>1. stack'[d].stmts = t /\ imports' = imports /\ d = c  BY <3>2, <4>2, <1>1 DEF t
          <6>2. \A q \in ImportsIn(imports, t[i]) :
                 \/ \E j \in 1..i - 1 : t[j] = q
                 \/ \E e \in 1..c - 1 : q \in Elements(stack[e].stmts)
                 \/ NeedsIn(imports, q, t[i])
            BY <4>3 DEF t
          <6>3. QED  BY <6>1, <6>2, <4>1
        <5>2. QED  BY <5>1 DEF InPlace
    <3>3. QED  BY <3>1, <3>2, <1>7
  <2>2. out = <<>> /\ Len(out') = 0  BY <1>1, <1>2, <1>4 DEF Typed
  <2>3. QED  BY <2>1, <2>2, <1>1 DEF Ordered
<1>19. QED  BY <1>12, <1>13, <1>14, <1>15, <1>16, <1>17, <1>18 DEF LInv

-----------------------------------------------------------------------------
(* The invariant holds, and the properties follow from it                  *)

LEMMA StutterKeeps ==
    ASSUME LInv, UNCHANGED vars
    PROVE  LInv'
<1>1. /\ imports' = imports /\ bad' = bad /\ stack' = stack
      /\ visited' = visited /\ phase' = phase /\ out' = out
  BY DEF vars
<1>2. \A d : Held(d)' = Held(d)  BY <1>1 DEF Held
<1>3. \A q : ListOf(q)' = ListOf(q)  BY <1>1 DEF ListOf
<1>4. Typed'  BY <1>1 DEF LInv, Typed
<1>5. Calls'  BY <1>1, <1>3 DEF LInv, Calls
<1>6. Marked'  BY <1>1, <1>2 DEF LInv, Marked
<1>7. Once'  BY <1>1, <1>2 DEF LInv, Once
<1>8. Complete' /\ Wanted' /\ Sound'  BY <1>1 DEF LInv, Complete, Wanted, Sound
<1>9. Ordered'  BY <1>1 DEF LInv, Ordered, InPlace
<1>10. QED  BY <1>4, <1>5, <1>6, <1>7, <1>8, <1>9 DEF LInv

LEMMA StepLInv == LInv /\ [Next]_vars => LInv'
<1> SUFFICES ASSUME LInv, [Next]_vars PROVE LInv'  OBVIOUS
<1>1. CASE Start  BY <1>1, StartCalls, CallKeeps
<1>2. CASE SkipImport  BY <1>2, SkipImportKeeps
<1>3. CASE LoadImport  BY <1>3, LoadImportCalls, CallKeeps
<1>4. CASE Return  BY <1>4, ReturnFromRoot, ReturnToCaller
<1>5. CASE UNCHANGED vars  BY <1>5, StutterKeeps
<1>6. QED  BY <1>1, <1>2, <1>3, <1>4, <1>5 DEF Next

THEOREM Inductive == Spec => []LInv
BY InitLInv, StepLInv, PTL DEF Spec

\* Every variable stays in its type, and the nested calls of
\* loadAndParseRecursive are for different paths, all of them marked: the
\* recursion is never deeper than there are paths.
THEOREM TypeCorrect == Spec => []TypeOK
<1>1. ASSUME LInv PROVE TypeOK
  <2>1. Typed  BY <1>1 DEF LInv
  <2>2. ASSUME NEW d \in 1..Len(stack)
        PROVE  /\ stack[d].next <= Len(ImportsOf(stack[d].path)) + 1
               /\ stack[d].path \in visited
               /\ Elements(stack[d].stmts) \subseteq visited
    <3>1. stack[d].next <= Len(ImportsOf(stack[d].path)) + 1
      BY <1>1, <2>2 DEF LInv, Calls, ListOf, ImportsOf
    <3>2. Held(d) \subseteq visited  BY <1>1, <2>2 DEF LInv, Marked
    <3>3. QED  BY <3>1, <3>2 DEF Held
  <2>3. ASSUME NEW d \in 1..Len(stack), NEW e \in 1..Len(stack), stack[d].path = stack[e].path
        PROVE  d = e
    <3>1. stack[d].path \in Held(d) /\ stack[d].path \in Held(e)  BY <2>3 DEF Held
    <3>2. d # e => Held(d) \cap Held(e) = {}  BY <1>1 DEF LInv, Once
    <3>3. QED  BY <3>1, <3>2
  <2>4. QED  BY <2>1, <2>2, <2>3 DEF Typed, TypeOK
<1>2. QED  BY <1>1, Inductive, PTL

\* visited keeps loadAndParseRecursive from merging a path's statements twice,
\* whatever the import graph: neither one list of statements nor two lists of
\* calls in progress hold a path twice.
THEOREM LoadedOnce == Spec => []EachOnce
<1>1. ASSUME LInv PROVE EachOnce
  <2>1. ASSUME NEW d \in 1..Len(stack)
        PROVE  NoRepeats(Gathered(stack[d])) /\ Elements(Gathered(stack[d])) = Held(d)
    <3>1. stack[d].path \in Paths /\ stack[d].stmts \in Seq(Paths)
      BY <1>1, <2>1, FrameAt DEF LInv
    <3>2. NoRepeats(stack[d].stmts) /\ stack[d].path \notin Elements(stack[d].stmts)
      BY <1>1 DEF LInv, Once
    <3>3. QED  BY <3>1, <3>2, ElementsAppend DEF Gathered, Held
  <2>2. NoRepeats(out) /\ \A d, e \in 1..Len(stack) : d # e => Held(d) \cap Held(e) = {}
    BY <1>1 DEF LInv, Once
  <2>3. QED  BY <2>1, <2>2 DEF EachOnce
<1>2. QED  BY <1>1, Inductive, PTL

\* In the merged program an import's statements stand before the importer's,
\* except around a circle of imports.
THEOREM ImportsComeFirst == Spec => []DependenciesFirst
<1>1. ASSUME LInv PROVE DependenciesFirst
  <2>1. ASSUME NEW i \in 1..Len(out), NEW q \in Imported(out[i])
        PROVE  (\E j \in 1..i - 1 : out[j] = q) \/ Needs(q, out[i])
    <3>1. InPlace(out, i, 1)  BY <1>1 DEF LInv, Ordered
    <3>2. q \in ImportsIn(imports, out[i])  BY NeedsIsNeedsIn
    <3>3. \A e \in 1..1 - 1 : FALSE  OBVIOUS
    <3>4. (\E j \in 1..i - 1 : out[j] = q) \/ NeedsIn(imports, q, out[i])
      BY <3>1, <3>2, <3>3 DEF InPlace
    <3>5. QED  BY <3>4, NeedsIsNeedsIn
  <2>2. QED  BY <2>1 DEF DependenciesFirst
<1>2. QED  BY <1>1, Inductive, PTL

\* When loading is done the marked paths are those the root needs.
LEMMA MarkedAreNeeded ==
    ASSUME LInv, phase = "done"
    PROVE  visited = Elements(out) /\ visited = {q \in Paths : Needs(Root, q)}
<1>1. visited = Elements(out) /\ Root \in visited  BY DEF LInv, Marked
<1>2. visited \in SUBSET Paths  BY DEF LInv, Typed
<1>3. \A r \in visited : ImportsIn(imports, r) \subseteq visited  BY DEF LInv, Complete
<1>4. ASSUME NEW q \in Paths, NeedsIn(imports, Root, q)  PROVE q \in visited
  BY <1>1, <1>2, <1>3, <1>4 DEF NeedsIn
<1>5. \A q \in visited : NeedsIn(imports, Root, q)  BY DEF LInv, Wanted
<1>6. QED  BY <1>1, <1>2, <1>4, <1>5, NeedsIsNeedsIn

\* A successful load has merged every path the root needs, directly or through
\* other files, and no other.
THEOREM LoadsExactlyNeeded == Spec => []ExactlyNeeded
<1>1. ASSUME LInv PROVE ExactlyNeeded  BY <1>1, MarkedAreNeeded DEF ExactlyNeeded
<1>2. QED  BY <1>1, Inductive, PTL

\* The exception for a file that cannot be opened or parsed ends the load just
\* when the root needs such a file.
THEOREM LoadFailsExactly == Spec => []FailsExactly
<1>1. ASSUME LInv PROVE FailsExactly
  <2>1. ASSUME phase = "failed"  PROVE \E q \in Paths : Needs(Root, q) /\ FileOf[q] \in bad
    BY <1>1, <2>1, NeedsIsNeedsIn DEF LInv, Sound
  <2>2. ASSUME phase = "done", NEW q \in Paths, Needs(Root, q)  PROVE FileOf[q] \notin bad
    <3>1. q \in visited  BY <1>1, <2>2, MarkedAreNeeded
    <3>2. QED  BY <1>1, <2>2, <3>1 DEF LInv, Sound
  <2>3. QED  BY <2>1, <2>2 DEF FailsExactly
<1>2. QED  BY <1>1, Inductive, PTL

-----------------------------------------------------------------------------
(* Flattening a sequence of lists *)

\* g[i] is the first i of the lists ls put end to end, for i up to m.
Follows(g, m, ls) == \A i \in 1 .. m : g[i] = IF i = 1 THEN ls[i] ELSE g[i - 1] \o ls[i]
Concatenates(g, m, ls) == g \in [1 .. m -> Seq(Paths)] /\ Follows(g, m, ls)

LEMMA ConcatenationExists ==
    ASSUME NEW ls \in Seq(Seq(Paths)), NEW m \in 1 .. Len(ls)
    PROVE  \E g : Concatenates(g, m, ls)
<1> DEFINE T == {i \in 1 .. Len(ls) : \E g : Concatenates(g, i, ls)}
<1>1. Len(ls) \in Nat /\ \A i \in 1 .. Len(ls) : ls[i] \in Seq(Paths)
  BY ElementOfSeq
<1>2. Len(ls) > 0 => 1 \in T
  <2> SUFFICES ASSUME Len(ls) > 0 PROVE 1 \in T  OBVIOUS
  <2>1. Concatenates([i \in 1 .. 1 |-> ls[1]], 1, ls)  BY <1>1 DEF Concatenates, Follows
  <2>2. QED  BY <2>1, <1>1
<1>3. ASSUME NEW i \in 1 .. Len(ls) - 1, i \in T  PROVE i + 1 \in T
  <2>1. PICK g : Concatenates(g, i, ls)  BY <1>3
  <2> DEFINE h == [j \in 1 .. i + 1 |-> IF j = i + 1 THEN g[i] \o ls[i + 1] ELSE g[j]]
  <2>2. i \in 1 .. i /\ i + 1 \in 1 .. Len(ls) /\ i + 1 # 1  BY <1>1
  <2>3. g[i] \in Seq(Paths) /\ ls[i + 1] \in Seq(Paths)  BY <2>1, <2>2, <1>1 DEF Concatenates, Follows
  <2>4. g[i] \o ls[i + 1] \in Seq(Paths)  BY <2>3, ElementsConcat
  <2>5. \A j \in 1 .. i + 1 : j = i + 1 \/ j \in 1 .. i  BY <2>2
  <2>6. h \in [1 .. i + 1 -> Seq(Paths)]  BY <2>1, <2>4, <2>5 DEF Concatenates, Follows
  <2>7. \A j \in 1 .. i : j # i + 1 /\ (j # 1 => j - 1 # i + 1 /\ j - 1 \in 1 .. i + 1)
                          /\ j \in 1 .. i + 1  BY <2>2
  <2>8. ASSUME NEW j \in 1 .. i + 1
        PROVE  h[j] = IF j = 1 THEN ls[j] ELSE h[j - 1] \o ls[j]
    <3>1. CASE j = i + 1
      <4>0. j - 1 = i /\ j # 1 /\ i # i + 1 /\ i \in 1 .. i + 1  BY <3>1, <2>2
      <4>1. h[j] = g[i] \o ls[i + 1]  BY <3>1
      <4>2. h[i] = g[i]  BY <4>0
      <4>3. QED  BY <4>0, <4>1, <4>2, <3>1
    <3>2. CASE j \in 1 .. i
      <4>1. h[j] = g[j] /\ (j # 1 => h[j - 1] = g[j - 1])  BY <3>2, <2>7
      <4>2. g[j] = IF j = 1 THEN ls[j] ELSE g[j - 1] \o ls[j]
        BY <3>2, <2>1 DEF Concatenates, Follows
      <4> HIDE DEF h
      <4>3. QED  BY <4>1, <4>2
    <3>3. QED  BY <3>1, <3>2, <2>5
  <2>9. Concatenates(h, i + 1, ls)
    <3> HIDE DEF h
    <3>1. QED  BY <2>6, <2>8 DEF Concatenates, Follows
  <2>10. QED  BY <2>9, <2>2
<1>4. 1 .. Len(ls) \subseteq T
  <2> HIDE DEF T
  <2>1. QED  BY <1>1, <1>2, <1>3, UpTo
<1>5. QED  BY <1>4

Agree(f, g, m) == \A i \in 1 .. m : f[i] = g[i]

\* There is only one such function.
LEMMA ConcatenationUnique ==
    ASSUME NEW ls, NEW lt, NEW m \in Nat, NEW n \in Nat, m <= n,
           Agree(ls, lt, m), NEW g, NEW h, Follows(g, m, ls), Follows(h, n, lt)
    PROVE  Agree(g, h, m)
<1> DEFINE T == {i \in 1 .. m : g[i] = h[i]}
<1>1. m > 0 => 1 \in T  BY DEF Follows, Agree
<1>2. ASSUME NEW i \in 1 .. m - 1, i \in T  PROVE i + 1 \in T
  <2>1. i + 1 \in 1 .. m /\ i + 1 \in 1 .. n /\ i + 1 # 1 /\ i + 1 - 1 = i  OBVIOUS
  <2>2. \A k \in 2 .. m : g[k] = g[k - 1] \o ls[k] /\ h[k] = h[k - 1] \o lt[k]
    <3>1. \A k \in 2 .. m : k \in 1 .. m /\ k \in 1 .. n /\ k # 1  OBVIOUS
    <3>2. QED  BY <3>1 DEF Follows
  <2>3. PICK k \in 2 .. m : k = i + 1  BY <2>1
  <2>4. k - 1 = i /\ k \in 1 .. m /\ ls[k] = lt[k] /\ g[i] = h[i]  BY <2>3, <1>2 DEF Agree
  <2>5. g[k] = h[k]  BY <2>2, <2>4
  <2>6. QED  BY <2>3, <2>4, <2>5
<1>3. 1 .. m \subseteq T
  <2> HIDE DEF T
  <2>1. QED  BY <1>1, <1>2, UpTo
<1>4. QED  BY <1>3 DEF Agree

\* FlattenSeq puts lists end to end.
LEMMA FlattenIs ==
    ASSUME NEW ls \in Seq(Seq(Paths)), Len(ls) > 0, NEW g, Concatenates(g, Len(ls), ls)
    PROVE  FlattenSeq(ls) = g[Len(ls)]
<1> DEFINE F(f) == [i \in 1 .. Len(ls) |-> IF i = 1 THEN ls[i] ELSE f[i - 1] \o ls[i]]
           flatten[i \in 1 .. Len(ls)] == IF i = 1 THEN ls[i] ELSE flatten[i - 1] \o ls[i]
<1>0. Len(ls) \in Nat  OBVIOUS
<1>1. g = F(g)
  <2>1. g = [i \in 1 .. Len(ls) |-> g[i]]  BY DEF Concatenates, Follows
  <2>2. QED  BY <2>1 DEF Concatenates, Follows
<1>2. flatten = F(flatten)
  <2>1. flatten = CHOOSE f : f = F(f)  BY DEF flatten
  <2>2. QED  BY <2>1, <1>1
<1>3. FlattenSeq(ls) = flatten[Len(ls)]  BY DEF FlattenSeq
<1> HIDE DEF flatten
<1>4. Follows(flatten, Len(ls), ls)  BY <1>2 DEF Follows
<1>5. Agree(ls, ls, Len(ls))  BY DEF Agree
<1>6. Agree(g, flatten, Len(ls))
  BY <1>0, <1>4, <1>5, ConcatenationUnique DEF Concatenates
<1>7. Len(ls) \in 1 .. Len(ls)  BY <1>0
<1>8. QED  BY <1>3, <1>6, <1>7 DEF Agree

\* No lists are no elements.
LEMMA FlattenNone == \A ls : Len(ls) = 0 => FlattenSeq(ls) = ls
BY DEF FlattenSeq

\* Lists of paths put end to end are a list of paths.
LEMMA FlattenTyped ==
    ASSUME NEW ls \in Seq(Seq(Paths))
    PROVE  FlattenSeq(ls) \in Seq(Paths)
<1>0. Len(ls) \in Nat  OBVIOUS
<1>1. CASE Len(ls) = 0
  <2>1. ls = <<>> /\ <<>> \in Seq(Paths)  BY <1>1
  <2>2. QED  BY <1>1, <2>1, FlattenNone
<1>2. CASE Len(ls) > 0
  <2>1. Len(ls) \in 1 .. Len(ls)  BY <1>0, <1>2
  <2>2. PICK g : Concatenates(g, Len(ls), ls)  BY <2>1, ConcatenationExists
  <2>3. QED  BY <1>2, <2>1, <2>2, FlattenIs DEF Concatenates
<1>3. QED  BY <1>0, <1>1, <1>2

\* One more list comes last.
LEMMA FlattenAppend ==
    ASSUME NEW ls \in Seq(Seq(Paths)), NEW s \in Seq(Paths)
    PROVE  FlattenSeq(Append(ls, s)) = FlattenSeq(ls) \o s
<1> DEFINE lt == Append(ls, s)
           n  == Len(ls)
<1>1. /\ lt \in Seq(Seq(Paths)) /\ Len(lt) = n + 1 /\ n \in Nat /\ lt[n + 1] = s
      /\ \A i \in 1 .. n : ls[i] = lt[i]
  OBVIOUS
<1>2. Len(lt) > 0 /\ n + 1 \in 1 .. Len(lt) /\ n <= n + 1 /\ n + 1 \in Nat  BY <1>1
<1> HIDE DEF lt, n
<1>3. PICK h : Concatenates(h, n + 1, lt)  BY <1>1, <1>2, ConcatenationExists
<1>4. FlattenSeq(lt) = h[n + 1]  BY <1>1, <1>2, <1>3, FlattenIs
<1>5. CASE n = 0
  <2>1. ls = <<>> /\ <<>> \o s = s  BY <1>5 DEF n
  <2>2. FlattenSeq(ls) = <<>>  BY <1>5, <2>1, FlattenNone DEF n
  <2>3. h[n + 1] = s  BY <1>1, <1>2, <1>3, <1>5 DEF Concatenates, Follows
  <2>4. QED  BY <1>4, <2>1, <2>2, <2>3 DEF lt
<1>6. CASE n > 0
  <2>1. n \in 1 .. n /\ n + 1 \in 1 .. n + 1 /\ n + 1 # 1 /\ n + 1 - 1 = n  BY <1>1, <1>6
  <2>2. PICK g : Concatenates(g, n, ls)  BY <2>1, ConcatenationExists DEF n
  <2>3. FlattenSeq(ls) = g[n]  BY <1>6, <2>2, FlattenIs DEF n
  <2>4. g[n] = h[n]
    <3>1. PICK k \in Nat : k = n + 1 /\ n <= k  BY <1>1
    <3>2. Follows(g, n, ls) /\ Follows(h, k, lt)  BY <2>2, <1>3, <3>1 DEF Concatenates
    <3>3. Agree(ls, lt, n)  BY <1>1 DEF Agree
    <3>4. Agree(g, h, n)  BY <3>1, <3>2, <3>3, <1>1, ConcatenationUnique
    <3>5. QED  BY <3>4, <2>1 DEF Agree
  <2>5. h[n + 1] = h[n] \o s
    <3>1. PICK k \in 1 .. n + 1 : k = n + 1  BY <2>1
    <3>2. h[k] = IF k = 1 THEN lt[k] ELSE h[k - 1] \o lt[k]
      BY <1>3 DEF Concatenates, Follows
    <3>3. k # 1 /\ k - 1 = n /\ lt[k] = s  BY <3>1, <2>1, <1>1
    <3>4. QED  BY <3>1, <3>2, <3>3
  <2>6. QED  BY <1>4, <2>3, <2>4, <2>5 DEF lt
<1>7. QED  BY <1>1, <1>5, <1>6

\* One list more of the first lists of ls.
LEMMA OneMore ==
    ASSUME NEW ls \in Seq(Seq(Paths)), NEW m \in 0 .. Len(ls) - 1
    PROVE  /\ SubSeq(ls, 1, m) \in Seq(Seq(Paths)) /\ Len(SubSeq(ls, 1, m)) = m
           /\ SubSeq(ls, 1, m + 1) = Append(SubSeq(ls, 1, m), ls[m + 1])
           /\ ls[m + 1] \in Seq(Paths)
OBVIOUS

\* What stands in lists put end to end is what stands in some of them.
LEMMA FlattenElements ==
    ASSUME NEW ls \in Seq(Seq(Paths))
    PROVE  \A p : p \in Elements(FlattenSeq(ls)) <=> \E d \in 1 .. Len(ls) : p \in Elements(ls[d])
<1> DEFINE Right(m) == \A p : p \in Elements(FlattenSeq(SubSeq(ls, 1, m)))
                               <=> \E d \in 1 .. m : p \in Elements(ls[d])
           T == {m \in 1 .. Len(ls) : Right(m)}
<1>1. Len(ls) \in Nat  OBVIOUS
<1>2. ASSUME NEW m \in 0 .. Len(ls) - 1
      PROVE  /\ SubSeq(ls, 1, m) \in Seq(Seq(Paths)) /\ Len(SubSeq(ls, 1, m)) = m
             /\ SubSeq(ls, 1, m + 1) = Append(SubSeq(ls, 1, m), ls[m + 1])
             /\ ls[m + 1] \in Seq(Paths)
  BY OneMore
<1>3. ASSUME NEW m \in 0 .. Len(ls) - 1, Right(m)  PROVE Right(m + 1)
  <2> DEFINE a == SubSeq(ls, 1, m)
  <2>1. FlattenSeq(Append(a, ls[m + 1])) = FlattenSeq(a) \o ls[m + 1] /\ FlattenSeq(a) \in Seq(Paths)
    BY <1>2, FlattenAppend, FlattenTyped
  <2>2. Elements(FlattenSeq(Append(a, ls[m + 1]))) = Elements(FlattenSeq(a)) \cup Elements(ls[m + 1])
    <3>1. \A u \in Seq(Paths), v \in Seq(Paths) : Elements(u \o v) = Elements(u) \cup Elements(v)
      BY ElementsConcat
    <3>2. QED  BY <1>2, <2>1, <3>1
  <2>3. \A d : d \in 1 .. m + 1 <=> d \in 1 .. m \/ d = m + 1  BY <1>1
  <2>4. QED  BY <1>2, <1>3, <2>2, <2>3
<1>4. Right(0)
  <2>1. Len(SubSeq(ls, 1, 0)) = 0 /\ SubSeq(ls, 1, 0) = <<>>  OBVIOUS
  <2>2. FlattenSeq(SubSeq(ls, 1, 0)) = <<>>  BY <2>1, FlattenNone
  <2>3. Elements(<<>>) = {}  BY DEF Elements
  <2>4. QED  BY <2>2, <2>3
<1>5. Right(Len(ls))
  <2>1. CASE Len(ls) = 0  BY <1>4, <2>1
  <2>2. CASE Len(ls) > 0
    <3>1. 1 \in T
      <4>1. 0 \in 0 .. Len(ls) - 1 /\ 0 + 1 = 1  BY <1>1, <2>2
      <4>2. Right(1)
        <5> HIDE DEF Right
        <5>1. QED  BY <1>3, <1>4, <4>1
      <4>3. QED  BY <4>2, <1>1, <2>2
    <3>2. ASSUME NEW i \in 1 .. Len(ls) - 1, i \in T  PROVE i + 1 \in T
      <4>1. i \in 0 .. Len(ls) - 1 /\ i + 1 \in 1 .. Len(ls)  BY <1>1
      <4>2. Right(i)  BY <3>2
      <4> HIDE DEF Right
      <4>3. Right(i + 1)  BY <1>3, <4>1, <4>2
      <4>4. QED  BY <4>1, <4>3
    <3>3. 1 .. Len(ls) \subseteq T
      <4> HIDE DEF T
      <4>1. QED  BY <1>1, <3>1, <3>2, UpTo
    <3>4. Len(ls) \in T  BY <1>1, <2>2, <3>3
    <3>5. QED  BY <3>4
  <2>3. QED  BY <1>1, <2>1, <2>2
<1>6. SubSeq(ls, 1, Len(ls)) = ls  OBVIOUS
<1>7. QED  BY <1>5, <1>6

-----------------------------------------------------------------------------
(* The refinement *)

-----------------------------------------------------------------------------
(* The loader implements the abstract import order *)

\* The lists of the open calls, the innermost first, are as many as the calls.
LEMMA ListsTyped ==
    ASSUME Typed
    PROVE  /\ Lists \in Seq(Seq(Paths)) /\ Len(Lists) = Len(stack)
           /\ \A d \in 1 .. Len(stack) : Lists[d] = stack[d].stmts
<1>1. \A d \in 1 .. Len(stack) : stack[d].stmts \in Seq(Paths)  BY FrameAt
<1>2. Len(stack) \in Nat  BY DEF Typed
<1>3. QED  BY <1>1, <1>2 DEF Lists

\* The lists after a step are those of the calls it leaves open.
LEMMA ListsAfter ==
    ASSUME NEW ls \in Seq(Seq(Paths)), Len(stack') = Len(ls),
           \A d \in 1 .. Len(ls) : stack'[d].stmts = ls[d]
    PROVE  Lists' = ls
<1>1. ls = [d \in 1 .. Len(ls) |-> ls[d]]  OBVIOUS
<1>2. QED  BY <1>1 DEF Lists

\* While loading goes on, the paths whose place is fixed are those in some list.
LEMMA OrderWhileLoading ==
    ASSUME Typed, phase = "loading"
    PROVE  /\ Order = FlattenSeq(Lists) /\ Order \in Seq(Paths)
           /\ \A p : p \in Promise!Placed
                     <=> \E d \in 1 .. Len(stack) : p \in Elements(stack[d].stmts)
<1>1. out = <<>>  BY DEF Typed
<1>2. FlattenSeq(Lists) \in Seq(Paths)  BY ListsTyped, FlattenTyped
<1>3. Order = FlattenSeq(Lists)  BY <1>1, <1>2 DEF Order
<1>4. Promise!Placed = Elements(Order)  BY DEF Promise!Placed, Elements
<1>5. QED  BY <1>2, <1>3, <1>4, ListsTyped, FlattenElements

\* The abstract order and the loader mean the same by a needed path.
LEMMA PromiseNeeds ==
    /\ \A p : Promise!Imported(p) = ImportsIn(imports, p)
    /\ \A p, q : Promise!Needs(p, q) <=> NeedsIn(imports, p, q)
    /\ Promise!Wanted = {q \in Paths : NeedsIn(imports, Root, q)}
<1>1. \A p : Promise!Imported(p) = ImportsIn(imports, p)
  BY DEF Promise!Imported, Promise!ImportsOf, ImportsIn
<1>2. \A p, q : Promise!Needs(p, q) <=> NeedsIn(imports, p, q)
  BY <1>1 DEF Promise!Needs, NeedsIn, Promise!Closed
<1>3. QED  BY <1>1, <1>2 DEF Promise!Wanted

\* Nothing has been placed at the start.
LEMMA InitRefines == Init => Promise!AbstractInit
<1> SUFFICES ASSUME Init PROVE Promise!AbstractInit  OBVIOUS
<1>1. Len(stack) = 0 /\ out = <<>>  BY DEF Init
<1>2. Len(Lists) = 0 /\ Lists = <<>>  BY <1>1 DEF Lists
<1>3. Order = <<>>  BY <1>1, <1>2, FlattenNone DEF Order
<1>4. QED  BY <1>3 DEF Init, Result, Promise!AbstractInit

\* A file that cannot be loaded: the run gives up.
LEMMA CallFailsRefines ==
    ASSUME LInv, NEW p, Callable(p), Call(p), FileOf[p] \in bad
    PROVE  Promise!GiveUp
<1>1. phase' = "failed" /\ stack' = <<>> /\ imports' = imports /\ bad' = bad /\ out' = out
  BY DEF Call
<1>2. phase = "loading" /\ p \in Paths /\ NeedsIn(imports, Root, p) /\ out = <<>>
  BY DEF Callable, LInv, Typed
<1>3. Lists' = <<>> /\ Len(Lists') = 0  BY <1>1 DEF Lists
<1>4. Order' = <<>>  BY <1>1, <1>2, <1>3, FlattenNone DEF Order
<1>5. Result = "none" /\ Result' = "failed"  BY <1>1, <1>2 DEF Result
<1>6. p \in Promise!Wanted  BY <1>2, PromiseNeeds
<1>7. QED  BY <1>1, <1>4, <1>5, <1>6 DEF Promise!GiveUp

\* A call that begins has an empty list: nothing is placed.
LEMMA CallSucceedsRefines ==
    ASSUME LInv, NEW p, Callable(p), Call(p), FileOf[p] \notin bad
    PROVE  UNCHANGED Promise!abstractVars
<1>1. Typed /\ p \in Paths  BY DEF LInv, Callable
<1>2. /\ phase' = phase /\ imports' = imports /\ bad' = bad /\ out' = out
      /\ Len(stack) \in Nat /\ Len(stack') = Len(stack) + 1
      /\ \A d \in 1 .. Len(stack) : stack'[d] = stack[d]
      /\ stack'[Len(stack) + 1].stmts = <<>>
  BY <1>1, CallShape
<1>3. /\ Lists \in Seq(Seq(Paths)) /\ Len(Lists) = Len(stack)
      /\ \A d \in 1 .. Len(stack) : Lists[d] = stack[d].stmts
  BY <1>1, ListsTyped
<1>4. Lists' = Append(Lists, <<>>)
  <2> DEFINE ls == Append(Lists, <<>>)
  <2>1. <<>> \in Seq(Paths)  OBVIOUS
  <2>2. /\ ls \in Seq(Seq(Paths)) /\ Len(ls) = Len(stack) + 1 /\ ls[Len(stack) + 1] = <<>>
        /\ \A d \in 1 .. Len(stack) : ls[d] = Lists[d]
    BY <1>3, <2>1
  <2>3. \A d \in 1 .. Len(ls) : stack'[d].stmts = ls[d]
    <3> HIDE DEF ls
    <3>1. \A d \in 1 .. Len(ls) : d \in 1 .. Len(stack) \/ d = Len(stack) + 1
      BY <2>2, <1>2
    <3>2. QED  BY <3>1, <2>2, <1>2, <1>3
  <2>4. Len(stack') = Len(ls)  BY <2>2, <1>2
  <2> HIDE DEF ls
  <2>5. Lists' = ls  BY <2>2, <2>3, <2>4, ListsAfter
  <2>6. QED  BY <2>5 DEF ls
<1>5. FlattenSeq(Lists') = FlattenSeq(Lists)
  <2>1. <<>> \in Seq(Paths)  OBVIOUS
  <2>2. FlattenSeq(Lists') = FlattenSeq(Lists) \o <<>>  BY <1>3, <1>4, <2>1, FlattenAppend
  <2>3. FlattenSeq(Lists) \in Seq(Paths)  BY <1>3, FlattenTyped
  <2>4. QED  BY <2>2, <2>3
<1>6. QED  BY <1>2, <1>5 DEF Promise!abstractVars, Order, Result

\* An import that is skipped places nothing.
LEMMA SkipRefines ==
    ASSUME LInv, SkipImport
    PROVE  UNCHANGED Promise!abstractVars
<1>1. Len(stack) \in Nat /\ stack # <<>>  BY DEF LInv, Typed, SkipImport
<1>2. /\ imports' = imports /\ bad' = bad /\ phase' = phase /\ out' = out
      /\ stack' = [stack EXCEPT ![Len(stack)] = [Top EXCEPT !.next = Top.next + 1]]
  BY DEF SkipImport, Replace
<1>3. \A d \in 1 .. Len(stack) : stack[d] \in FrameType /\ stack \in Seq(FrameType)
  BY ElementOfSeq DEF LInv, Typed
<1>4. Len(stack') = Len(stack) /\ \A d \in 1 .. Len(stack) : stack'[d].stmts = stack[d].stmts
  <2>1. Top \in FrameType  BY <1>1, <1>3 DEF Top, LInv, Typed
  <2>2. [Top EXCEPT !.next = Top.next + 1].stmts = Top.stmts  BY <2>1 DEF FrameType
  <2>3. QED  BY <1>1, <1>2, <1>3, <2>2 DEF Top, LInv, Typed
<1>5. Lists' = Lists  BY <1>4 DEF Lists
<1>6. QED  BY <1>2, <1>5 DEF Promise!abstractVars, Order, Result

\* Appending to the second of two lists appends to both.
LEMMA AppendAssociates ==
    ASSUME NEW u \in Seq(Paths), NEW v \in Seq(Paths), NEW p \in Paths
    PROVE  /\ Append(u \o v, p) = u \o Append(v, p)
           /\ u \o v \in Seq(Paths) /\ Append(v, p) \in Seq(Paths)
OBVIOUS

\* Lists can be put end to end in any order of joining them.
LEMMA ConcatAssociates ==
    ASSUME NEW u \in Seq(Paths), NEW v \in Seq(Paths), NEW w \in Seq(Paths)
    PROVE  (u \o v) \o w = u \o (v \o w)
OBVIOUS

\* The last list and one path more go to the end of the list before: the path
\* comes after all that was there.
LEMMA FlattenReturn ==
    ASSUME NEW ls \in Seq(Seq(Paths)), Len(ls) >= 2, NEW p \in Paths,
           NEW lt, lt = Append(SubSeq(ls, 1, Len(ls) - 2),
                               ls[Len(ls) - 1] \o Append(ls[Len(ls)], p))
    PROVE  FlattenSeq(lt) = Append(FlattenSeq(ls), p)
<1> DEFINE n == Len(ls)
           a == SubSeq(ls, 1, n - 2)
           s == ls[n - 1]
           t == ls[n]
<1>1. n \in Nat /\ n - 1 \in 1 .. n /\ n \in 1 .. n /\ n - 2 \in 0 .. n /\ n - 2 + 1 = n - 1
      /\ n - 1 + 1 = n /\ n - 2 \in 0 .. Len(ls) - 1 /\ n - 1 \in 0 .. Len(ls) - 1
  OBVIOUS
<1>2. s \in Seq(Paths) /\ t \in Seq(Paths)  BY <1>1, ElementOfSeq
<1>3. a \in Seq(Seq(Paths)) /\ Append(a, s) = SubSeq(ls, 1, n - 1)
  <2>1. PICK m \in 0 .. Len(ls) - 1 : m = n - 2 /\ m + 1 = n - 1
    <3> HIDE DEF n
    <3>1. QED  BY <1>1
  <2>2. QED  BY <2>1, OneMore
<1>4. Append(SubSeq(ls, 1, n - 1), t) = ls
  <2>1. PICK m \in 0 .. Len(ls) - 1 : m = n - 1 /\ m + 1 = n
    <3> HIDE DEF n
    <3>1. QED  BY <1>1
  <2>2. SubSeq(ls, 1, n) = ls  OBVIOUS
  <2>3. QED  BY <2>1, <2>2, OneMore
<1>5. Append(a, s) \in Seq(Seq(Paths))  BY <1>2, <1>3
<1> HIDE DEF n, a, s, t
<1>6. Append(a, s) \in Seq(Seq(Paths)) /\ Append(Append(a, s), t) = ls
  BY <1>3, <1>4, <1>5
<1> DEFINE f == FlattenSeq(a)
<1>7. f \in Seq(Paths)  BY <1>3, FlattenTyped
<1> HIDE DEF f
<1>8. FlattenSeq(ls) = (f \o s) \o t  BY <1>2, <1>3, <1>6, FlattenAppend DEF f
<1>9. s \o Append(t, p) = Append(s \o t, p) /\ s \o t \in Seq(Paths) /\ Append(s \o t, p) \in Seq(Paths)
  BY <1>2, AppendAssociates
<1>10. FlattenSeq(lt) = f \o Append(s \o t, p)
  <2>1. lt = Append(a, Append(s \o t, p))  BY <1>9 DEF n, a, s, t
  <2>2. QED  BY <2>1, <1>3, <1>9, FlattenAppend DEF f
<1>11. f \o Append(s \o t, p) = Append(f \o (s \o t), p)  BY <1>7, <1>9, AppendAssociates
<1>12. f \o (s \o t) = (f \o s) \o t  BY <1>2, <1>7, ConcatAssociates
<1>13. QED  BY <1>8, <1>10, <1>11, <1>12

\* Returning places the path of the innermost call, where the promise lets it
\* stand.
LEMMA ReturnMayPlace ==
    ASSUME LInv, Return
    PROVE  /\ Result = "none" /\ Top.path \in Promise!Wanted /\ Top.path \notin Promise!Placed
           /\ FileOf[Top.path] \notin bad
           /\ \A q \in Promise!Imported(Top.path) :
                 q \in Promise!Placed \/ Promise!Needs(q, Top.path)
<1> DEFINE n == Len(stack)
           p == Top.path
<1>1. /\ n \in 1 .. n /\ Top = stack[n] /\ phase = "loading" /\ p \in Paths
      /\ \A q \in Held(n) : ImportsIn(imports, q) \subseteq visited
      /\ Typed /\ stack # <<>>
  BY ReadyToReturn DEF LInv
<1>2. \A q : q \in Promise!Placed <=> \E d \in 1 .. n : q \in Elements(stack[d].stmts)
  BY <1>1, OrderWhileLoading
<1>3. p \in Held(n)  BY <1>1 DEF Held
<1>4. p \notin Promise!Placed
  <2> SUFFICES ASSUME NEW d \in 1 .. n, p \in Elements(stack[d].stmts)  PROVE FALSE
    BY <1>2
  <2>1. p \in Held(d)  BY DEF Held
  <2>2. d = n  BY <1>1, <1>3, <2>1 DEF LInv, Once
  <2>3. QED  BY <1>1, <2>2 DEF LInv, Once
<1>5. p \in visited  BY <1>1, <1>3 DEF LInv, Marked
<1>6. FileOf[p] \notin bad  BY <1>1, <1>5 DEF LInv, Sound
<1>7. p \in Promise!Wanted  BY <1>1, <1>5, PromiseNeeds DEF LInv, Wanted
<1>8. ASSUME NEW q \in Promise!Imported(p)
      PROVE  q \in Promise!Placed \/ Promise!Needs(q, p)
  <2>1. q \in visited  BY <1>1, <1>3, PromiseNeeds
  <2>2. PICK d \in 1 .. n : q \in Held(d)  BY <2>1, <1>1 DEF LInv, Marked
  <2>3. CASE q \in Elements(stack[d].stmts)  BY <2>3, <1>2
  <2>4. CASE q = stack[d].path
    <3>1. NeedsIn(imports, stack[d].path, stack[n].path)  BY <1>1, <2>2 DEF LInv, Calls
    <3>2. QED  BY <2>4, <3>1, <1>1, PromiseNeeds
  <2>5. QED  BY <2>2, <2>3, <2>4 DEF Held
<1>9. Result = "none"  BY <1>1 DEF Result
<1>10. QED  BY <1>4, <1>6, <1>7, <1>8, <1>9

\* The end of the outermost call places the root file and ends the run.
LEMMA ReturnFromRootRefines ==
    ASSUME LInv, Return, Len(stack) = 1
    PROVE  Promise!Place(Top.path)
<1>1. /\ Len(stack) \in 1 .. Len(stack) /\ Top = stack[Len(stack)] /\ phase = "loading"
      /\ Top.stmts \in Seq(Paths) /\ Top.path \in Paths /\ Gathered(Top) \in Seq(Paths)
      /\ Typed /\ stack # <<>>
  BY ReadyToReturn DEF LInv
<1>2. /\ stack' = <<>> /\ phase' = "done" /\ out' = Append(Top.stmts, Top.path)
      /\ imports' = imports /\ bad' = bad /\ visited' = visited
  BY DEF Return, Gathered
<1>3. Top.path = Root  BY <1>1 DEF LInv, Calls
<1>4. Order = Top.stmts
  <2>1. Lists \in Seq(Seq(Paths)) /\ Len(Lists) = 1 /\ Lists[1] = Top.stmts
    BY <1>1, ListsTyped
  <2>2. Lists = Append(<<>>, Top.stmts)  BY <2>1
  <2>3. <<>> \in Seq(Seq(Paths)) /\ FlattenSeq(<<>>) = <<>>  BY FlattenNone
  <2>4. FlattenSeq(Lists) = <<>> \o Top.stmts  BY <1>1, <2>2, <2>3, FlattenAppend
  <2>5. QED  BY <1>1, <2>4, OrderWhileLoading
<1>5. Order' = Append(Order, Top.path)
  <2>1. Lists' = <<>> /\ Len(Lists') = 0  BY <1>2 DEF Lists
  <2>2. Order' = <<>> \o Append(Top.stmts, Top.path)  BY <1>2, <2>1, FlattenNone DEF Order
  <2>3. QED  BY <1>1, <1>4, <2>2
<1>6. Promise!Placed = Promise!Wanted \ {Root}
  <2>1. LInv' /\ (phase = "done")'  BY <1>2, ReturnFromRoot
  <2>2. Promise!Placed = Elements(Top.stmts)  BY <1>4 DEF Promise!Placed, Elements
  <2>3. visited = Held(1)
    <3>1. \A d \in 1 .. Len(stack) : d = 1  OBVIOUS
    <3>2. QED  BY <1>1, <3>1 DEF LInv, Marked
  <2>4. Held(1) = Promise!Placed \cup {Root} /\ Root \notin Promise!Placed
    BY <1>1, <1>3, <2>2 DEF Held, LInv, Once
  <2>5. \A q \in visited : NeedsIn(imports, Root, q) /\ q \in Paths  BY DEF LInv, Wanted, Typed
  <2>6. ASSUME NEW q \in Paths, NeedsIn(imports, Root, q)  PROVE q \in visited
    <3>1. Root \in visited /\ visited \in SUBSET Paths  BY <2>3, <2>4 DEF LInv, Typed
    <3>2. \A r \in visited : ImportsIn(imports, r) \subseteq visited
      BY <2>3, ReadyToReturn
    <3>3. QED  BY <2>6, <3>1, <3>2 DEF NeedsIn
  <2>7. QED  BY <2>3, <2>4, <2>5, <2>6, PromiseNeeds
<1>7. Result' = "done"  BY <1>2 DEF Result
<1>8. QED  BY <1>2, <1>3, <1>5, <1>6, <1>7, ReturnMayPlace DEF Promise!Place

\* The end of an inner call places its file after all that was there.
LEMMA ReturnToCallerRefines ==
    ASSUME LInv, Return, Len(stack) # 1
    PROVE  Promise!Place(Top.path)
<1> DEFINE n == Len(stack)
           p == Top.path
<1>1. /\ n \in 1 .. n /\ Top = stack[n] /\ phase = "loading" /\ p \in Paths
      /\ Top.stmts \in Seq(Paths) /\ Typed /\ stack # <<>>
  BY ReadyToReturn DEF LInv
<1>2. /\ imports' = imports /\ bad' = bad /\ phase' = phase /\ out' = out
      /\ n \in Nat /\ n >= 2 /\ Len(stack') = n - 1
      /\ \A d \in 1 .. n - 2 : stack'[d] = stack[d]
      /\ stack'[n - 1].stmts = stack[n - 1].stmts \o Append(Top.stmts, p)
  BY ReturnShape DEF Gathered
<1>3. /\ Lists \in Seq(Seq(Paths)) /\ Len(Lists) = n
      /\ \A d \in 1 .. n : Lists[d] = stack[d].stmts
  BY <1>1, ListsTyped
<1> DEFINE lt == Append(SubSeq(Lists, 1, n - 2), Lists[n - 1] \o Append(Lists[n], p))
<1>4. n - 1 \in 1 .. n /\ n - 2 \in Nat /\ n - 2 + 1 = n - 1 /\ n - 2 <= n  BY <1>2
<1>5. Lists[n - 1] \in Seq(Paths) /\ Lists[n] = Top.stmts /\ Lists[n - 1] = stack[n - 1].stmts
  BY <1>1, <1>3, <1>4, ElementOfSeq
<1>6. Lists[n - 1] \o Append(Lists[n], p) \in Seq(Paths)  BY <1>1, <1>5, AppendAssociates, ElementsConcat
<1>7. Lists' = lt
  <2> DEFINE a == SubSeq(Lists, 1, n - 2)
             w == Lists[n - 1] \o Append(Lists[n], p)
  <2>1. a \in Seq(Seq(Paths)) /\ Len(a) = n - 2 /\ \A d \in 1 .. n - 2 : a[d] = Lists[d]
    BY <1>3, <1>4
  <2>2. w \in Seq(Paths) /\ stack'[n - 1].stmts = w  BY <1>2, <1>5, <1>6
  <2> HIDE DEF a, w
  <2>3. /\ Append(a, w) \in Seq(Seq(Paths)) /\ Len(Append(a, w)) = n - 1
        /\ Append(a, w)[n - 1] = w /\ \A d \in 1 .. n - 2 : Append(a, w)[d] = a[d]
    BY <2>1, <2>2, <1>4
  <2>4. ASSUME NEW d \in 1 .. n - 1  PROVE stack'[d].stmts = Append(a, w)[d]
    <3>1. CASE d = n - 1  BY <3>1, <2>2, <2>3
    <3>2. CASE d \in 1 .. n - 2
      <4>1. d \in 1 .. n  BY <3>2, <1>4
      <4>2. Append(a, w)[d] = a[d] /\ a[d] = Lists[d]  BY <3>2, <2>1, <2>3
      <4>3. stack'[d] = stack[d] /\ Lists[d] = stack[d].stmts  BY <3>2, <4>1, <1>2, <1>3
      <4>4. QED  BY <4>2, <4>3
    <3>3. d \in 1 .. n - 2 \/ d = n - 1
      <4> HIDE DEF n
      <4>1. QED  BY <1>2
    <3>4. QED  BY <3>1, <3>2, <3>3
  <2>5. Lists' = Append(a, w)  BY <2>3, <2>4, <1>2, ListsAfter
  <2>6. QED  BY <2>5 DEF a, w
<1>8. FlattenSeq(Lists') = Append(FlattenSeq(Lists), p)
  <2> HIDE DEF n, p, lt
  <2>1. lt = Append(SubSeq(Lists, 1, Len(Lists) - 2), Lists[Len(Lists) - 1] \o Append(Lists[Len(Lists)], p))
    BY <1>3 DEF lt
  <2>2. Len(Lists) >= 2  BY <1>2, <1>3
  <2>3. FlattenSeq(lt) = Append(FlattenSeq(Lists), p)  BY <1>1, <1>3, <2>1, <2>2, FlattenReturn
  <2>4. QED  BY <2>3, <1>7
<1>9. Order' = Append(Order, p)
  <2>1. out = <<>> /\ FlattenSeq(Lists) \in Seq(Paths)
    BY <1>1, <1>3, FlattenTyped DEF Typed
  <2> DEFINE f == FlattenSeq(Lists)
  <2> HIDE DEF f
  <2>2. Order = f \o <<>> /\ Order' = Append(f, p) \o <<>>  BY <1>2, <1>8, <2>1 DEF Order, f
  <2>3. f \in Seq(Paths) /\ Append(f, p) \in Seq(Paths)  BY <1>1, <2>1 DEF f
  <2>4. QED  BY <2>2, <2>3
<1>10. p # Root
  <2>1. stack[1].path = Root /\ 1 \in 1 .. n /\ n # 1  BY <1>1, <1>2 DEF LInv, Calls
  <2>2. Root \in Held(1) /\ p \in Held(n)  BY <2>1, <1>1 DEF Held
  <2>3. QED  BY <2>1, <2>2, <1>1 DEF LInv, Once
<1>11. Result' = "none"  BY <1>1, <1>2 DEF Result
<1>12. QED  BY <1>2, <1>9, <1>10, <1>11, ReturnMayPlace DEF Promise!Place

\* Every step of the loader is a step of the abstract order, or places nothing.
LEMMA StepRefines == LInv /\ [Next]_vars => [Promise!AbstractNext]_Promise!abstractVars
<1> SUFFICES ASSUME LInv, [Next]_vars  PROVE [Promise!AbstractNext]_Promise!abstractVars
  OBVIOUS
<1>1. ASSUME NEW p, Callable(p), Call(p)
      PROVE  Promise!AbstractNext \/ UNCHANGED Promise!abstractVars
  BY <1>1, CallFailsRefines, CallSucceedsRefines DEF Promise!AbstractNext
<1>2. CASE Start  BY <1>1, <1>2, StartCalls
<1>3. CASE SkipImport  BY <1>3, SkipRefines
<1>4. CASE LoadImport  BY <1>1, <1>4, LoadImportCalls
<1>5. CASE Return
  <2>1. Promise!Place(Top.path)  BY <1>5, ReturnFromRootRefines, ReturnToCallerRefines
  <2>2. Top.path \in Promise!Wanted  BY <1>5, ReturnMayPlace
  <2>3. QED  BY <2>1, <2>2 DEF Promise!AbstractNext
<1>6. CASE UNCHANGED vars
  BY <1>6 DEF vars, Promise!abstractVars, Order, Lists, Result
<1>7. QED  BY <1>2, <1>3, <1>4, <1>5, <1>6 DEF Next

\* loadImportsRecursive keeps what ImportOrder promises: a path gets its place in
\* the list of files once, only if it is needed, after the imports that can come
\* before it, and the run succeeds exactly if every needed file can be loaded.
THEOREM KeepsPromise == Spec => ImplementsImportOrder
<1>1. Spec => []LInv  BY Inductive
<1>2. QED
  BY <1>1, InitRefines, StepRefines, PTL DEF Spec, ImplementsImportOrder, Promise!AbstractSpec

=============================================================================
