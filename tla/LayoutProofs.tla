---------------------------- MODULE LayoutProofs ----------------------------
(***************************************************************************)
(* Proofs about where values lie in memory: the layout of structs (module  *)
(* StructLayout), for every set of member types, array sizes that are no   *)
(* powers of two included, and any number of members; and the stack frames *)
(* of functions (module Frame), for all values of its constants.           *)
(***************************************************************************)
EXTENDS Frame, StructLayout, NumberLemmas, SequenceTheorems

-----------------------------------------------------------------------------
(* Structs: the layout of one definition                                   *)

\* The size of a member type is a natural number, its alignment one of 1..8.
LEMMA MemberSize ==
    ASSUME NEW t \in MemberTypes
    PROVE  SizeOf(t) \in Nat /\ AlignOf(t) \in 1..8
<1>1. t.arr \in Nat /\ t.ptr \in Nat  BY MemberTypesAssumption DEF TypeRecord
<1> DEFINE one == IF t.base \in Scalars THEN ScalarBytes[t.base] ELSE 0
           alt == IF t.base \in Scalars THEN ScalarBytes[t.base] ELSE 1
<1>2. one \in Nat /\ alt \in Nat  BY ScalarBytesRange
<1>3. one * t.arr \in Nat /\ alt * t.arr \in Nat  BY <1>1, <1>2, ProductNat
<1>4. SizeOf(t) = SizeWith(t, one)
  BY DEF SizeOf, TypeSize, NoStructs
<1>5. AlignOf(t) = LET sz == SizeWith(t, alt)
                   IN  IF t.ptr > 0 THEN 8 ELSE IF sz <= 0 THEN 1 ELSE IF sz >= 8 THEN 8 ELSE sz
  BY DEF AlignOf, TypeAlign, NoStructs
<1> HIDE DEF one, alt
<1>6. SizeWith(t, one) \in Nat /\ SizeWith(t, alt) \in Nat
  BY <1>2, <1>3 DEF SizeWith
<1>7. QED  BY <1>4, <1>5, <1>6

-----------------------------------------------------------------------------
(* The inductive invariant.  The parser's side: each member begins where   *)
(* the ones before it have ended, and none reaches past the cursor.  The   *)
(* generator's side: a table entry is that of a member it has visited, and *)
(* the size reaches to the end of every member visited.                    *)

MemberRecord == [name : MemberNames, type : MemberTypes, offset : Nat]

End(i) == members[i].offset + SizeOf(members[i].type)

InOrder ==
    /\ \A i \in 1..Len(members) : End(i) <= cursor
    /\ \A i, j \in 1..Len(members) : i < j => End(i) <= members[j].offset

Visited ==
    \A x \in DOMAIN fields : \E i \in 1..index - 1 :
        /\ i <= Len(members) /\ members[i].name = x
        /\ fields[x].offset = members[i].offset /\ fields[x].size = SizeOf(members[i].type)

SInv ==
    /\ phase \in {"parsing", "visiting", "defined", "rejected"}
    /\ members \in Seq(MemberRecord)
    /\ cursor \in Nat /\ index \in 1..Len(members) + 1
    /\ size \in Nat /\ maxAlign \in 1..8
    /\ phase = "parsing" => index = 1
    /\ InOrder
    /\ Visited
    /\ \A i \in 1..index - 1 : End(i) <= size

\* A member of the list, and where it ends.
LEMMA MemberTyped ==
    ASSUME members \in Seq(MemberRecord), NEW i \in 1..Len(members)
    PROVE  /\ members[i].name \in MemberNames /\ members[i].type \in MemberTypes
           /\ members[i].offset \in Nat /\ SizeOf(members[i].type) \in Nat
           /\ AlignOf(members[i].type) \in 1..8 /\ End(i) \in Nat
<1>1. members[i] \in MemberRecord  BY ElementOfSeq
<1>2. members[i].name \in MemberNames /\ members[i].type \in MemberTypes /\ members[i].offset \in Nat
  BY <1>1 DEF MemberRecord
<1>3. SizeOf(members[i].type) \in Nat /\ AlignOf(members[i].type) \in 1..8
  BY <1>2, MemberSize
<1>4. QED  BY <1>2, <1>3 DEF End

LEMMA InitSInv == StructInit => SInv
BY DEF StructInit, SInv, InOrder, Visited

LEMMA AddMemberKeeps ==
    ASSUME SInv, NEW x \in MemberNames, NEW t \in MemberTypes, AddMember(x, t)
    PROVE  SInv'
<1>1. CASE IsStructValue(t)
  <2>1. UNCHANGED <<members, cursor, index, size, maxAlign, fields>> /\ phase' = "rejected"
    BY <1>1 DEF AddMember
  <2>2. QED  BY <2>1 DEF SInv, InOrder, Visited, End
<1>2. CASE ~IsStructValue(t)
  <2> DEFINE m == Place(x, t)
             n == Len(members)
  <2>1. /\ members' = Append(members, m) /\ cursor' = m.offset + SizeOf(t)
        /\ UNCHANGED <<phase, index, size, maxAlign, fields>> /\ phase = "parsing"
    BY <1>2 DEF AddMember
  <2>2. /\ members \in Seq(MemberRecord) /\ cursor \in Nat /\ index = 1
        /\ size \in Nat /\ maxAlign \in 1..8
    BY <2>1 DEF SInv
  <2>3. SizeOf(t) \in Nat /\ AlignOf(t) \in 1..8  BY MemberSize
  <2>4. AlignUp(cursor, AlignOf(t)) \in Nat /\ cursor <= AlignUp(cursor, AlignOf(t))
    BY <2>2, <2>3, AlignUpBounds
  <2>5. /\ m.offset = AlignUp(cursor, AlignOf(t)) /\ m.type = t /\ m \in MemberRecord
        /\ m.name = x
    BY <2>4 DEF Place, MemberRecord
  <2> HIDE DEF m
  <2>6. n \in Nat /\ Len(members') = n + 1 /\ members' \in Seq(MemberRecord)
    BY <2>1, <2>2, <2>5
  <2>7. \A i \in 1..n : members'[i] = members[i]  BY <2>1, <2>2
  <2>8. members'[n + 1] = m  BY <2>1, <2>2
  <2>9. \A i \in 1..n : End(i)' = End(i)  BY <2>7 DEF End
  <2>10. members'[n + 1].offset + SizeOf(members'[n + 1].type) = cursor'
    BY <2>1, <2>5, <2>8
  <2>11. \A i \in 1..n : End(i) \in Nat /\ End(i) <= cursor
    BY <2>2, MemberTyped DEF SInv, InOrder
  <2>12. cursor' \in Nat /\ cursor <= m.offset /\ m.offset <= cursor'
    BY <2>1, <2>2, <2>3, <2>4, <2>5
  <2> HIDE DEF n
  <2>13. InOrder'
    <3>1. ASSUME NEW i \in 1..Len(members')  PROVE End(i)' <= cursor'
      <4>1. CASE i = n + 1  BY <4>1, <2>10, <2>12 DEF End
      <4>2. CASE i \in 1..n
        <5>1. End(i) \in Nat /\ End(i) <= cursor /\ End(i)' = End(i)  BY <4>2, <2>9, <2>11
        <5>2. m.offset \in Nat  BY <2>4, <2>5
        <5>3. QED  BY <5>1, <5>2, <2>2, <2>12
      <4>3. QED  BY <4>1, <4>2, <2>6
    <3>2. ASSUME NEW i \in 1..Len(members'), NEW j \in 1..Len(members'), i < j
          PROVE  End(i)' <= members'[j].offset
      <4>1. i \in 1..n /\ (j \in 1..n \/ j = n + 1)  BY <3>2, <2>6
      <4>2. End(i)' = End(i)  BY <4>1, <2>9
      <4>3. CASE j \in 1..n
        BY <4>1, <4>2, <4>3, <3>2, <2>7 DEF SInv, InOrder, n
      <4>4. CASE j = n + 1
        <5>1. members'[j].offset = m.offset /\ m.offset \in Nat  BY <4>4, <2>4, <2>5, <2>8
        <5>2. End(i) \in Nat /\ End(i) <= cursor  BY <4>1, <2>11
        <5>3. QED  BY <5>1, <5>2, <4>2, <2>2, <2>12
      <4>5. QED  BY <4>1, <4>3, <4>4
    <3>3. QED  BY <3>1, <3>2 DEF InOrder
  <2>14. Visited'
    BY <2>1, <2>2 DEF SInv, Visited
  <2>15. QED
    BY <2>1, <2>2, <2>6, <2>12, <2>13, <2>14 DEF SInv
<1>3. QED  BY <1>1, <1>2

LEMMA CloseKeeps ==
    ASSUME SInv, CloseDefinition
    PROVE  SInv'
BY DEF SInv, CloseDefinition, InOrder, Visited, End

LEMMA VisitKeeps ==
    ASSUME SInv, VisitMember
    PROVE  SInv'
<1> DEFINE m == members[index]
<1>1. /\ phase = "visiting" /\ index <= Len(members)
      /\ index' = index + 1 /\ UNCHANGED <<phase, members, cursor>>
      /\ fields' = [x \in DOMAIN fields \cup {m.name} |->
                      IF x = m.name
                      THEN [offset |-> m.offset, size |-> SizeOf(m.type), type |-> m.type]
                      ELSE fields[x]]
      /\ maxAlign' = Larger(maxAlign, AlignOf(m.type))
      /\ size' = Larger(size, m.offset + SizeOf(m.type))
  BY DEF VisitMember
<1>2. /\ members \in Seq(MemberRecord) /\ Len(members) \in Nat /\ index \in 1..Len(members)
      /\ size \in Nat /\ maxAlign \in 1..8 /\ cursor \in Nat
  BY <1>1 DEF SInv
<1>3. /\ m.offset \in Nat /\ SizeOf(m.type) \in Nat /\ AlignOf(m.type) \in 1..8
      /\ End(index) = m.offset + SizeOf(m.type) /\ End(index) \in Nat
  BY <1>2, MemberTyped DEF End
<1> HIDE DEF m
<1>4. maxAlign' \in 1..8 /\ size' \in Nat /\ size <= size' /\ End(index) <= size'
  BY <1>1, <1>2, <1>3 DEF Larger
<1>5. InOrder'  BY <1>1 DEF SInv, InOrder, End
<1>6. ASSUME NEW i \in 1..index' - 1  PROVE End(i)' <= size'
  <2>1. End(i)' = End(i)  BY <1>1 DEF End
  <2>2. CASE i = index  BY <2>1, <2>2, <1>4
  <2>3. CASE i # index
    <3>1. i \in 1..index - 1 /\ i \in 1..Len(members)  BY <2>3, <1>1, <1>2
    <3>2. End(i) <= size /\ End(i) \in Nat  BY <3>1, <1>2, MemberTyped DEF SInv
    <3>3. QED  BY <3>2, <2>1, <1>2, <1>4
  <2>4. QED  BY <2>2, <2>3
<1>7. Visited'
  <2> SUFFICES ASSUME NEW x \in DOMAIN fields'
               PROVE \E i \in 1..index' - 1 :
                        /\ i <= Len(members') /\ members'[i].name = x
                        /\ fields'[x].offset = members'[i].offset
                        /\ fields'[x].size = SizeOf(members'[i].type)
    BY DEF Visited
  <2>1. CASE x = m.name
    <3>1. fields'[x] = [offset |-> m.offset, size |-> SizeOf(m.type), type |-> m.type]
      BY <2>1, <1>1
    <3>2. fields'[x].offset = m.offset /\ fields'[x].size = SizeOf(m.type)  BY <3>1
    <3>3. index \in 1..index' - 1 /\ index <= Len(members') /\ members'[index] = m
      BY <1>1, <1>2 DEF m
    <3>4. QED  BY <2>1, <3>2, <3>3
  <2>2. CASE x # m.name
    <3>1. x \in DOMAIN fields /\ fields'[x] = fields[x]  BY <2>2, <1>1
    <3>2. PICK i \in 1..index - 1 :
             /\ i <= Len(members) /\ members[i].name = x
             /\ fields[x].offset = members[i].offset
             /\ fields[x].size = SizeOf(members[i].type)
      BY <3>1 DEF SInv, Visited
    <3>3. i \in 1..index' - 1  BY <1>1, <1>2, <3>2
    <3>4. QED  BY <3>1, <3>2, <3>3, <1>1
  <2>3. QED  BY <2>1, <2>2
<1>8. index' \in 1..Len(members') + 1  BY <1>1, <1>2
<1>9. QED  BY <1>1, <1>2, <1>4, <1>5, <1>6, <1>7, <1>8 DEF SInv

LEMMA RegisterKeeps ==
    ASSUME SInv, Register
    PROVE  SInv'
<1>1. /\ phase' = "defined" /\ size' = AlignUp(size, maxAlign)
      /\ UNCHANGED <<members, cursor, index, maxAlign, fields>>
  BY DEF Register
<1>2. size \in Nat /\ maxAlign \in 1..8 /\ members \in Seq(MemberRecord)
      /\ index \in 1..Len(members) + 1  BY DEF SInv
<1>3. size' \in Nat /\ size <= size'  BY <1>1, <1>2, AlignUpBounds
<1>4. ASSUME NEW i \in 1..index' - 1  PROVE End(i)' <= size'
  <2>1. End(i)' = End(i) /\ i \in 1..Len(members) /\ i \in 1..index - 1
    BY <1>1, <1>2 DEF End
  <2>2. End(i) \in Nat /\ End(i) <= size  BY <2>1, <1>2, MemberTyped DEF SInv
  <2>3. QED  BY <2>1, <2>2, <1>2, <1>3
<1>5. InOrder' /\ Visited'  BY <1>1 DEF SInv, InOrder, Visited, End
<1>6. QED  BY <1>1, <1>2, <1>3, <1>4, <1>5 DEF SInv

LEMMA StepSInv == SInv /\ [StructNext]_structVars => SInv'
<1> SUFFICES ASSUME SInv, [StructNext]_structVars PROVE SInv'  OBVIOUS
<1>1. CASE \E x \in MemberNames, t \in MemberTypes : AddMember(x, t)
  BY <1>1, AddMemberKeeps
<1>2. CASE CloseDefinition  BY <1>2, CloseKeeps
<1>3. CASE VisitMember  BY <1>3, VisitKeeps
<1>4. CASE Register  BY <1>4, RegisterKeeps
<1>5. CASE UNCHANGED structVars
  BY <1>5 DEF structVars, SInv, InOrder, Visited, End
<1>6. QED  BY <1>1, <1>2, <1>3, <1>4, <1>5 DEF StructNext

-----------------------------------------------------------------------------
(* What the invariant gives *)

\* A table entry is that of a member the generator has visited.
LEMMA FieldOf ==
    ASSUME SInv, NEW x \in DOMAIN fields
    PROVE  \E i \in 1..Len(members) :
             /\ i \in 1..index - 1 /\ members[i].name = x
             /\ fields[x].offset = members[i].offset /\ fields[x].offset \in Nat
             /\ fields[x].size = SizeOf(members[i].type) /\ fields[x].size \in Nat
             /\ End(i) = fields[x].offset + fields[x].size
<1>1. members \in Seq(MemberRecord) /\ index \in 1..Len(members) + 1  BY DEF SInv
<1>2. PICK i \in 1..index - 1 :
         /\ i <= Len(members) /\ members[i].name = x
         /\ fields[x].offset = members[i].offset /\ fields[x].size = SizeOf(members[i].type)
  BY DEF SInv, Visited
<1>3. i \in 1..Len(members)  BY <1>1, <1>2
<1>4. members[i].offset \in Nat /\ SizeOf(members[i].type) \in Nat  BY <1>1, <1>3, MemberTyped
<1>5. QED  BY <1>2, <1>3, <1>4 DEF End

LEMMA SInvTypes == SInv => StructTypeOK
<1> SUFFICES ASSUME SInv PROVE StructTypeOK  OBVIOUS
<1>1. \A i \in 1..Len(members) : members[i].name \in MemberNames /\ members[i].type \in MemberTypes
  BY MemberTyped DEF SInv
<1>2. ASSUME NEW m \in Layout.members
      PROVE  m.offset \in Nat /\ m.size \in Nat /\ m.offset + m.size <= Layout.size
  <2>1. PICK x \in DOMAIN fields : m = [offset |-> fields[x].offset, size |-> fields[x].size]
    BY DEF Layout
  <2>2. PICK i \in 1..Len(members) :
           /\ i \in 1..index - 1 /\ fields[x].offset \in Nat /\ fields[x].size \in Nat
           /\ End(i) = fields[x].offset + fields[x].size
    BY FieldOf
  <2>3. End(i) <= size  BY <2>2 DEF SInv
  <2>4. Layout.size = size  BY DEF Layout
  <2>5. QED  BY <2>1, <2>2, <2>3, <2>4
<1>3. QED  BY <1>1, <1>2 DEF SInv, StructTypeOK

LEMMA SInvDisjoint == SInv => MembersDisjoint
<1> SUFFICES ASSUME SInv, NEW x \in DOMAIN fields, NEW y \in DOMAIN fields, x # y
             PROVE  \/ fields[x].offset + fields[x].size <= fields[y].offset
                    \/ fields[y].offset + fields[y].size <= fields[x].offset
  BY DEF MembersDisjoint
<1>1. PICK i \in 1..Len(members) :
         /\ members[i].name = x /\ fields[x].offset = members[i].offset
         /\ End(i) = fields[x].offset + fields[x].size
  BY FieldOf
<1>2. PICK j \in 1..Len(members) :
         /\ members[j].name = y /\ fields[y].offset = members[j].offset
         /\ End(j) = fields[y].offset + fields[y].size
  BY FieldOf
<1>3. i < j \/ j < i  BY <1>1, <1>2
<1>4. QED  BY <1>1, <1>2, <1>3 DEF SInv, InOrder

-----------------------------------------------------------------------------
(* The layout of C: what the loops have computed so far, exactly.          *)

EndOf(n) == IF n = 0 THEN 0 ELSE End(n)

CInv ==
    /\ \A i \in 1..Len(members) :
          members[i].offset = AlignUp(EndOf(i - 1), AlignOf(members[i].type))
    /\ cursor = EndOf(Len(members))
    /\ \A i \in 1..index - 1 : AlignOf(members[i].type) <= maxAlign
    /\ maxAlign = 1 \/ \E i \in 1..index - 1 : AlignOf(members[i].type) = maxAlign
    /\ phase = "parsing" => size = 0
    /\ phase = "visiting" => size = EndOf(index - 1)
    /\ phase = "defined" =>
          index = Len(members) + 1 /\ size = AlignUp(EndOf(Len(members)), maxAlign)

\* Nothing is read or visited at first.
LEMMA InitCInv == StructInit => CInv
BY DEF StructInit, CInv, EndOf

\* The parser puts the next member where the last one ends, rounded up.
LEMMA AddMemberCInv ==
    ASSUME SInv, CInv, NEW x \in MemberNames, NEW t \in MemberTypes, AddMember(x, t)
    PROVE  CInv'
<1>1. CASE IsStructValue(t)
  <2>1. UNCHANGED <<members, cursor, index, size, maxAlign, fields>> /\ phase' = "rejected"
    BY <1>1 DEF AddMember
  <2>2. QED  BY <2>1 DEF CInv, EndOf, End
<1>2. CASE ~IsStructValue(t)
  <2> DEFINE m == Place(x, t)
             n == Len(members)
  <2>1. /\ members' = Append(members, m) /\ cursor' = m.offset + SizeOf(t)
        /\ UNCHANGED <<phase, index, size, maxAlign, fields>> /\ phase = "parsing"
    BY <1>2 DEF AddMember
  <2>2. members \in Seq(MemberRecord) /\ index = 1 /\ n \in Nat
    BY <2>1 DEF SInv
  <2>3. m.offset = AlignUp(cursor, AlignOf(t)) /\ m.type = t  BY DEF Place
  <2> HIDE DEF m
  <2>4. Len(members') = n + 1 /\ members'[n + 1] = m
        /\ \A i \in 1..n : members'[i] = members[i]
    BY <2>1, <2>2
  <2>5. \A i \in 0..n : EndOf(i)' = EndOf(i)
    BY <2>2, <2>4 DEF EndOf, End
  <2>6. cursor = EndOf(n)  BY DEF CInv
  <2> HIDE DEF n
  <2>7. ASSUME NEW i \in 1..n + 1
        PROVE  members'[i].offset = AlignUp(EndOf(i - 1)', AlignOf(members'[i].type))
    <3>1. i - 1 \in 0..n  BY <2>2, <2>7
    <3>2. EndOf(i - 1)' = EndOf(i - 1)  BY <2>5, <3>1
    <3>3. CASE i = n + 1
      <4>1. i - 1 = n  BY <2>2, <3>3
      <4>2. QED  BY <2>3, <2>4, <2>6, <3>2, <3>3, <4>1
    <3>4. CASE i \in 1..n
      <4>1. members[i].offset = AlignUp(EndOf(i - 1), AlignOf(members[i].type))
        BY <3>4 DEF CInv, n
      <4>2. QED  BY <2>4, <3>2, <3>4, <4>1
    <3>5. QED  BY <2>2, <3>3, <3>4
  <2>8. cursor' = EndOf(Len(members))'
    <3>1. Len(members') # 0 /\ members'[Len(members')] = m  BY <2>2, <2>4
    <3>2. EndOf(Len(members))' = m.offset + SizeOf(m.type)  BY <3>1 DEF EndOf, End
    <3>3. QED  BY <2>1, <2>3, <3>2
  <2>9. 1..index - 1 = {} /\ 1..index' - 1 = {}  BY <2>1, <2>2
  <2>10. maxAlign' = 1 /\ size' = 0  BY <2>1, <2>9 DEF CInv
  <2>11. QED  BY <2>1, <2>4, <2>7, <2>8, <2>9, <2>10 DEF CInv
<1>3. QED  BY <1>1, <1>2

\* The generator's visit starts with nothing.
LEMMA CloseCInv ==
    ASSUME SInv, CInv, CloseDefinition
    PROVE  CInv'
<1>1. index = 1 /\ phase' = "visiting" /\ size = 0
      /\ UNCHANGED <<members, cursor, index, size, maxAlign, fields>>
  BY DEF CloseDefinition, SInv, CInv
<1>2. EndOf(index - 1) = 0  BY <1>1 DEF EndOf
<1>3. QED  BY <1>1, <1>2 DEF CInv, EndOf, End

\* Of the members visited the last one ends last, and one has the largest alignment.
LEMMA VisitCInv ==
    ASSUME SInv, CInv, VisitMember
    PROVE  CInv'
<1> DEFINE m == members[index]
           al == AlignOf(m.type)
<1>1. /\ phase = "visiting" /\ index <= Len(members)
      /\ index' = index + 1 /\ UNCHANGED <<phase, members, cursor>>
      /\ maxAlign' = Larger(maxAlign, AlignOf(m.type))
      /\ size' = Larger(size, m.offset + SizeOf(m.type))
  BY DEF VisitMember
<1>2. /\ members \in Seq(MemberRecord) /\ Len(members) \in Nat /\ index \in 1..Len(members)
      /\ size \in Nat /\ maxAlign \in 1..8
  BY <1>1 DEF SInv
<1>3. al \in 1..8 /\ End(index) = m.offset + SizeOf(m.type) /\ End(index) \in Nat
      /\ m.offset \in Nat /\ SizeOf(m.type) \in Nat
  BY <1>2, MemberTyped DEF End
<1>4. \A i \in Nat : EndOf(i)' = EndOf(i)  BY <1>1 DEF EndOf, End
<1>5. size <= m.offset
  <2>1. size = EndOf(index - 1)  BY <1>1 DEF CInv
  <2>2. CASE index = 1  BY <1>3, <2>1, <2>2 DEF EndOf
  <2>3. CASE index # 1
    <3>1. index - 1 \in 1..Len(members) /\ index - 1 < index  BY <1>2, <2>3
    <3>2. End(index - 1) <= members[index].offset  BY <1>2, <3>1 DEF SInv, InOrder
    <3>3. QED  BY <2>1, <3>1, <3>2 DEF EndOf
  <2>4. QED  BY <2>2, <2>3
<1>6. size' = EndOf(index - 1)'
  <2>1. size' = End(index)
    <3> HIDE DEF m
    <3>1. QED  BY <1>1, <1>2, <1>3, <1>5 DEF Larger
  <2>2. index' - 1 = index /\ index # 0 /\ index \in Nat  BY <1>1, <1>2
  <2>3. EndOf(index) = End(index)  BY <2>2 DEF EndOf
  <2>4. EndOf(index - 1)' = EndOf(index)  BY <1>1, <2>2 DEF EndOf, End
  <2>5. QED  BY <2>1, <2>3, <2>4
<1> HIDE DEF al
<1>7. maxAlign' \in 1..8 /\ maxAlign <= maxAlign' /\ al <= maxAlign'
      /\ (maxAlign' = maxAlign \/ maxAlign' = al)
  <2>1. maxAlign' = Larger(maxAlign, al)  BY <1>1 DEF al
  <2>2. QED  BY <1>2, <1>3, <2>1 DEF Larger
<1>8. ASSUME NEW i \in 1..index' - 1  PROVE AlignOf(members'[i].type) <= maxAlign'
  <2>1. CASE i = index  BY <1>1, <1>7, <2>1 DEF al
  <2>2. CASE i # index
    <3>1. i \in 1..index - 1 /\ i \in 1..Len(members)  BY <1>1, <1>2, <2>2
    <3>2. AlignOf(members[i].type) <= maxAlign  BY <3>1 DEF CInv
    <3>3. AlignOf(members[i].type) \in 1..8  BY <1>2, <3>1, MemberTyped
    <3>4. AlignOf(members[i].type) <= maxAlign'  BY <1>2, <1>7, <3>2, <3>3
    <3>5. QED  BY <1>1, <3>4
  <2>3. QED  BY <2>1, <2>2
<1>9. maxAlign' = 1 \/ \E i \in 1..index' - 1 : AlignOf(members'[i].type) = maxAlign'
  <2>1. CASE maxAlign' = maxAlign
    <3>1. \A i \in 1..index - 1 : i \in 1..index' - 1  BY <1>1, <1>2
    <3>2. QED  BY <1>1, <2>1, <3>1 DEF CInv
  <2>2. CASE maxAlign' = al
    <3>1. index \in 1..index' - 1  BY <1>1, <1>2
    <3>2. QED  BY <1>1, <2>2, <3>1 DEF al
  <2>3. QED  BY <1>7, <2>1, <2>2
<1>10. \A i \in 1..Len(members') :
          members'[i].offset = AlignUp(EndOf(i - 1)', AlignOf(members'[i].type))
  <2>1. ASSUME NEW i \in 1..Len(members)
        PROVE  members[i].offset = AlignUp(EndOf(i - 1)', AlignOf(members[i].type))
    <3>1. i - 1 \in Nat  BY <1>2
    <3>2. EndOf(i - 1)' = EndOf(i - 1)  BY <1>4, <3>1
    <3>3. QED  BY <3>2 DEF CInv
  <2>2. QED  BY <1>1, <2>1
<1>11. cursor' = EndOf(Len(members))'  BY <1>1 DEF CInv, EndOf, End
<1>12. QED  BY <1>1, <1>6, <1>8, <1>9, <1>10, <1>11 DEF CInv

\* The size of a registered struct is its last member's end, rounded up.
LEMMA RegisterCInv ==
    ASSUME SInv, CInv, Register
    PROVE  CInv'
<1>1. /\ phase = "visiting" /\ phase' = "defined" /\ size' = AlignUp(size, maxAlign)
      /\ index > Len(members) /\ UNCHANGED <<members, cursor, index, maxAlign, fields>>
  BY DEF Register
<1>2. index = Len(members) + 1 /\ Len(members) \in Nat
  BY <1>1 DEF SInv
<1>3. size = EndOf(Len(members))
  <2>1. size = EndOf(index - 1)  BY <1>1 DEF CInv
  <2>2. index - 1 = Len(members)  BY <1>2
  <2>3. QED  BY <2>1, <2>2
<1>4. size' = AlignUp(EndOf(Len(members))', maxAlign)  BY <1>1, <1>3 DEF EndOf, End
<1>5. QED  BY <1>1, <1>2, <1>4 DEF CInv, EndOf, End

\* Every step keeps to the layout.
LEMMA StepCInv == SInv /\ CInv /\ [StructNext]_structVars => CInv'
<1> SUFFICES ASSUME SInv, CInv, [StructNext]_structVars PROVE CInv'  OBVIOUS
<1>1. CASE \E x \in MemberNames, t \in MemberTypes : AddMember(x, t)
  BY <1>1, AddMemberCInv
<1>2. CASE CloseDefinition  BY <1>2, CloseCInv
<1>3. CASE VisitMember  BY <1>3, VisitCInv
<1>4. CASE Register  BY <1>4, RegisterCInv
<1>5. CASE UNCHANGED structVars  BY <1>5 DEF structVars, CInv, EndOf, End
<1>6. QED  BY <1>1, <1>2, <1>3, <1>4, <1>5 DEF StructNext

\* Clearing the low bits finds the least multiple.
LEMMA AlignUpIsRoundUp ==
    ASSUME NEW n \in Nat, NEW a \in {1, 2, 4, 8}
    PROVE  AlignUp(n, a) = RoundUp(n, a)
<1> DEFINE k == AlignUp(n, a)
<1>1. k \in n..n + a - 1 /\ k % a = 0
  <2>1. a \in 1..8  OBVIOUS
  <2>2. k \in Nat /\ n <= k /\ k < n + a  BY <2>1, AlignUpBounds
  <2>3. k % a = 0  BY AlignUpMultiple
  <2> HIDE DEF k
  <2>4. QED  BY <2>1, <2>2, <2>3
<1> HIDE DEF k
<1>2. ASSUME NEW j \in n..n + a - 1, j % a = 0  PROVE j = k
  <2>1. CASE a = 1  BY <1>1, <1>2, <2>1
  <2>2. CASE a = 2  BY <1>1, <1>2, <2>2
  <2>3. CASE a = 4  BY <1>1, <1>2, <2>3
  <2>4. CASE a = 8  BY <1>1, <1>2, <2>4
  <2>5. QED  BY <2>1, <2>2, <2>3, <2>4
<1>3. RoundUp(n, a) = k  BY <1>1, <1>2 DEF RoundUp
<1>4. QED  BY <1>3 DEF k

\* Scalars and pointers are aligned to their size.
LEMMA WordAlign ==
    ASSUME NEW t \in MemberTypes, IsWord(t)
    PROVE  SizeOf(t) \in {1, 2, 4, 8} /\ AlignOf(t) = SizeOf(t)
<1>1. t.arr = 0 /\ t.ptr \in Nat /\ (t.ptr # 0 \/ t.base \in Scalars)
  BY MemberTypesAssumption DEF IsWord, IsStructValue, TypeRecord
<1>2. CASE t.ptr > 0
  BY <1>2 DEF SizeOf, AlignOf, TypeSize, TypeAlign, SizeWith
<1>3. CASE t.ptr = 0
  <2>1. ScalarBytes[t.base] \in {1, 2, 4, 8}  BY <1>1, <1>3, ScalarBytesRange
  <2>2. t.base \in Scalars  BY <1>1, <1>3
  <2>3. SizeOf(t) = ScalarBytes[t.base]
    BY <1>1, <1>3, <2>2 DEF SizeOf, TypeSize, SizeWith
  <2>4. AlignOf(t) = ScalarBytes[t.base]
    BY <1>1, <1>3, <2>1, <2>2 DEF AlignOf, TypeAlign, SizeWith
  <2>5. QED  BY <2>1, <2>3, <2>4
<1>4. QED  BY <1>1, <1>2, <1>3

\* At the end the layout is that of C.
LEMMA LayoutOfC == SInv /\ CInv => MatchesC
<1> SUFFICES ASSUME SInv, CInv, phase = "defined", \A i \in 1..Len(members) : IsWord(members[i].type)
             PROVE  /\ \A i \in 1..Len(members) : members[i].offset = COffset(i)
                    /\ maxAlign = CAlign
                    /\ members # <<>> => size = RoundUp(Ending(members[Len(members)]), CAlign)
  BY DEF MatchesC
<1>1. members \in Seq(MemberRecord) /\ Len(members) \in Nat /\ index = Len(members) + 1
  BY DEF SInv, CInv
<1>2. ASSUME NEW i \in 1..Len(members)
      PROVE  /\ SizeOf(members[i].type) \in {1, 2, 4, 8}
             /\ AlignOf(members[i].type) = SizeOf(members[i].type)
             /\ End(i) \in Nat /\ Ending(members[i]) = End(i) /\ EndOf(i) = End(i)
  <2>1. members[i].type \in MemberTypes /\ End(i) \in Nat  BY <1>1, MemberTyped
  <2>2. QED  BY <2>1, WordAlign DEF End, Ending, EndOf
<1>3. ASSUME NEW i \in 1..Len(members)  PROVE members[i].offset = COffset(i)
  <2>1. members[i].offset = AlignUp(EndOf(i - 1), SizeOf(members[i].type))
    BY <1>2 DEF CInv
  <2>2. EndOf(i - 1) \in Nat
    <3>1. i - 1 = 0 \/ i - 1 \in 1..Len(members)  BY <1>1
    <3>2. QED  BY <1>2, <3>1 DEF EndOf
  <2>3. members[i].offset = RoundUp(EndOf(i - 1), SizeOf(members[i].type))
    BY <1>2, <2>1, <2>2, AlignUpIsRoundUp
  <2>4. CASE i = 1
    <3>1. EndOf(i - 1) = 0  BY <2>4 DEF EndOf
    <3>2. AlignUp(0, SizeOf(members[i].type)) = 0
      <4>1. \A a \in {1, 2, 4, 8} : AlignUp(0, a) = 0  BY DEF AlignUp, Bit0, Bit1, Bit2
      <4>2. QED  BY <1>2, <4>1
    <3>3. QED  BY <2>1, <2>4, <3>1, <3>2 DEF COffset
  <2>5. CASE i # 1
    <3>1. i - 1 \in 1..Len(members)  BY <1>1, <2>5
    <3>2. EndOf(i - 1) = Ending(members[i - 1])  BY <1>2, <3>1
    <3>3. QED  BY <2>3, <2>5, <3>2 DEF COffset
  <2>6. QED  BY <2>4, <2>5
<1>4. maxAlign \in {1, 2, 4, 8} /\ maxAlign = CAlign
  <2> DEFINE P(a) == /\ a = 1 \/ \E i \in 1..Len(members) : SizeOf(members[i].type) = a
                     /\ \A i \in 1..Len(members) : SizeOf(members[i].type) <= a
  <2>1. 1..index - 1 = 1..Len(members)  BY <1>1
  <2>2. P(maxAlign)
    <3>1. maxAlign = 1 \/ \E i \in 1..Len(members) : AlignOf(members[i].type) = maxAlign
      BY <2>1 DEF CInv
    <3>2. \A i \in 1..Len(members) : AlignOf(members[i].type) <= maxAlign
      BY <2>1 DEF CInv
    <3>3. QED  BY <1>2, <3>1, <3>2
  <2>3. maxAlign \in {1, 2, 4, 8}  BY <1>2, <2>2
  <2>4. ASSUME NEW a \in {1, 2, 4, 8}, P(a)  PROVE a = maxAlign
    <3>1. \A i \in 1..Len(members) : SizeOf(members[i].type) \in {1, 2, 4, 8}  BY <1>2
    <3>2. a <= maxAlign
      <4>1. CASE a = 1  BY <2>3, <4>1
      <4>2. CASE \E i \in 1..Len(members) : SizeOf(members[i].type) = a  BY <2>2, <4>2
      <4>3. QED  BY <2>4, <4>1, <4>2
    <3>3. maxAlign <= a
      <4>1. CASE maxAlign = 1  BY <4>1
      <4>2. CASE \E i \in 1..Len(members) : SizeOf(members[i].type) = maxAlign  BY <2>4, <4>2
      <4>3. QED  BY <2>2, <4>1, <4>2
    <3>4. QED  BY <2>3, <3>2, <3>3
  <2>5. CAlign = CHOOSE a \in {1, 2, 4, 8} : P(a)  BY DEF CAlign
  <2> HIDE DEF P
  <2>6. QED  BY <2>2, <2>3, <2>4, <2>5
<1>5. ASSUME members # <<>>  PROVE size = RoundUp(Ending(members[Len(members)]), CAlign)
  <2>1. Len(members) \in 1..Len(members)  BY <1>1, <1>5
  <2>2. size = AlignUp(EndOf(Len(members)), maxAlign)  BY DEF CInv
  <2>3. EndOf(Len(members)) \in Nat /\ EndOf(Len(members)) = Ending(members[Len(members)])
    BY <1>2, <2>1
  <2>4. QED  BY <1>4, <2>2, <2>3, AlignUpIsRoundUp
<1>6. QED  BY <1>3, <1>4, <1>5

\* The two halves of the layout agree whatever the members are: the variables
\* of both loops keep their types, and a struct that has been registered has an
\* alignment from 1 to 8 and no member beyond its end.
THEOREM StructTypeCorrect == StructSpec => []StructTypeOK
<1>1. StructSpec => []SInv  BY InitSInv, StepSInv, PTL DEF StructSpec
<1>2. QED  BY <1>1, SInvTypes, PTL

\* Two members never share a byte: for arrays of any size, whose alignment need
\* not be a power of two, a store through one never changes the other.
THEOREM NeverOverlap == StructSpec => []MembersDisjoint
<1>1. StructSpec => []SInv  BY InitSInv, StepSInv, PTL DEF StructSpec
<1>2. QED  BY <1>1, SInvDisjoint, PTL

\* A struct of scalars and pointers has the offsets, the alignment and the size that
\* a C compiler gives it, whatever the members and however many.
THEOREM LayoutMatchesC == StructSpec => []MatchesC
<1>1. StructSpec => [](SInv /\ CInv)
  BY InitSInv, StepSInv, InitCInv, StepCInv, PTL DEF StructSpec
<1>2. QED  BY <1>1, LayoutOfC, PTL

\* What visit(StructDefNode) registers (Codegen.cpp) is a layout as module Frame assumes
\* them: LayoutsAssumption is no more than what the compiler establishes.
THEOREM RegisteredAsAssumed == StructSpec => [](phase = "defined" => LayoutOK(Layout))
<1>1. StructTypeOK => LayoutOK(Layout)
  <2>1. Layout.size = size /\ Layout.align = maxAlign  BY DEF Layout
  <2>2. QED  BY <2>1 DEF StructTypeOK, LayoutOK
<1>2. QED  BY <1>1, StructTypeCorrect, PTL

-----------------------------------------------------------------------------
(* Sizes and alignments of types *)

RegistryOK(r) ==
    /\ DOMAIN r \subseteq StructNames
    /\ \A s \in DOMAIN r : r[s] \in Layouts[s] \cup {NoLayout}

AllTypes == TypeRecord(StructNames)

LEMMA RegistryFields ==
    ASSUME NEW r, RegistryOK(r), NEW s \in DOMAIN r
    PROVE  r[s].size \in Nat /\ r[s].align \in 0..8 /\ (r[s].align = 0 => r[s] = NoLayout)
BY LayoutsAssumption DEF RegistryOK, LayoutOK, NoLayout

LEMMA TypeSizeNat ==
    ASSUME NEW r, RegistryOK(r), NEW t \in AllTypes
    PROVE  TypeSize(t, r) \in Nat
<1> DEFINE base == IF t.base \in Scalars THEN ScalarBytes[t.base]
                   ELSE IF t.base \in DOMAIN r THEN r[t.base].size ELSE 0
<1>1. base \in Nat  BY ScalarBytesRange, RegistryFields
<1>2. t.arr \in Nat  BY DEF AllTypes, TypeRecord
<1>3. base * t.arr \in Nat  BY <1>1, <1>2, ProductNat
<1> QED  BY <1>1, <1>3 DEF TypeSize, SizeWith

LEMMA TypeAlignRange ==
    ASSUME NEW r, RegistryOK(r), NEW t \in AllTypes
    PROVE  TypeAlign(t, r) \in 1..8
<1> DEFINE base == IF t.base \in Scalars THEN ScalarBytes[t.base]
                   ELSE IF t.base \in DOMAIN r THEN r[t.base].align ELSE 1
<1>1. base \in Nat  BY ScalarBytesRange, RegistryFields
<1>2. t.arr \in Nat  BY DEF AllTypes, TypeRecord
<1>3. base * t.arr \in Nat  BY <1>1, <1>2, ProductNat
<1>4. SizeWith(t, base) \in Nat  BY <1>1, <1>3 DEF SizeWith
<1> HIDE DEF base
<1>5. TypeAlign(t, r) = LET sz == SizeWith(t, base)
                        IN IF t.ptr > 0 THEN 8 ELSE IF sz <= 0 THEN 1
                           ELSE IF sz >= 8 THEN 8 ELSE sz
  BY DEF TypeAlign, base
<1> QED  BY <1>4, <1>5

\* A scalar or a pointer has a size that one mov stores, and is aligned to it.
LEMMA WordSize ==
    ASSUME NEW r, NEW t \in AllTypes, IsWord(t)
    PROVE  TypeSize(t, r) \in {1, 2, 4, 8} /\ TypeAlign(t, r) = TypeSize(t, r)
<1>1. CASE t.ptr > 0
  BY <1>1 DEF TypeSize, TypeAlign, SizeWith
<1>2. CASE t.ptr = 0
  <2>1. t.base \in Scalars /\ t.arr = 0  BY <1>2 DEF IsWord, IsStructValue
  <2>2. ScalarBytes[t.base] \in {1, 2, 4, 8}  BY <2>1, ScalarBytesRange
  <2>3. QED  BY <1>2, <2>1, <2>2 DEF TypeSize, TypeAlign, SizeWith
<1>3. QED  BY <1>1, <1>2 DEF AllTypes, TypeRecord

----------------------------------------------------------------------------
(* The inductive invariant *)

\* What holds of a context whatever the program does: freeTmp gives back what
\* pushTmp took because the temporaries are the top of the frame, and the high
\* water mark is above everything.
CtxLayout(c) ==
    /\ c \in Context
    /\ c.cur <= c.max
    /\ 8 * Len(c.temps) <= c.cur
    /\ \A k \in 1..Len(c.temps) : c.temps[k] = c.cur - 8 * (Len(c.temps) - k)
    /\ \A i \in 1..Len(c.slots) : c.slots[i].lo <= c.slots[i].hi /\ c.slots[i].hi <= c.max
    /\ \A i \in 1..Len(c.slots) :
         IsWord(c.slots[i].type) => c.slots[i].hi % (c.slots[i].hi - c.slots[i].lo) = 0
    /\ \A x \in Names : c.vars[x] <= Len(c.slots)
    /\ \A i \in 1..Len(c.params) :
         c.params[i].slot \in 1..Len(c.slots) /\ c.vars[c.params[i].name] # 0
    /\ \A p \in 1..Len(c.pending) : c.pending[p].base <= Len(c.temps)
    /\ \A p, q \in 1..Len(c.pending) : p < q => c.pending[p].base <= c.pending[q].base
    /\ c.pending # <<>> => c.pending[1].base = 0
    /\ c.pending = <<>> => c.temps = <<>>

\* What needs alignUp not to restart the frame: slots are handed out downwards.
CtxOrdered(c) ==
    /\ \A i, j \in 1..Len(c.slots) : i < j => c.slots[i].hi <= c.slots[j].lo
    /\ \A i \in 1..Len(c.slots) : c.slots[i].hi <= c.cur - 8 * Len(c.temps)

CtxGood(c, qs) == CtxLayout(c) /\ ("undeclared" \notin qs => CtxOrdered(c))

IInv ==
    /\ RegistryOK(structs)
    /\ ctxStack \in Seq(Context)
    /\ \A d \in 1..Len(ctxStack) : CtxGood(ctxStack[d], quirks)
    /\ stray \in BOOLEAN
    /\ quirks \subseteq Quirks

----------------------------------------------------------------------------
(* Lemmas about contexts *)

LEMMA SlotTypes ==
    ASSUME NEW c \in Context
    PROVE  /\ c.slots \in Seq(Slot)
           /\ \A i \in 1..Len(c.slots) :
                /\ c.slots[i] \in Slot
                /\ c.slots[i].lo \in Nat /\ c.slots[i].hi \in Nat
                /\ c.slots[i].type \in AllTypes
<1>1. c.slots \in Seq(Slot)  BY DEF Context
<1>2. \A i \in 1..Len(c.slots) : c.slots[i] \in Slot  BY <1>1
<1>3. \A s \in Slot : s.lo \in Nat /\ s.hi \in Nat /\ s.type \in AllTypes
  BY TypesAssumption DEF Slot, AllTypes
<1>4. QED  BY <1>1, <1>2, <1>3

LEMMA TopTypes ==
    ASSUME IInv, InFunction
    PROVE  Top \in Context /\ CtxGood(Top, quirks) /\ CtxLayout(Top)
<1>1. ctxStack \in Seq(Context) /\ Len(ctxStack) \in 1..Len(ctxStack)
  BY DEF IInv, InFunction
<1>2. QED  BY <1>1 DEF IInv, Top, CtxGood

\* Replacing the innermost context by a good one.
LEMMA SetTopGood ==
    ASSUME NEW c \in Context, IInv, InFunction, SetTop(c),
           quirks \subseteq quirks', CtxGood(c, quirks')
    PROVE  /\ ctxStack' \in Seq(Context)
           /\ \A d \in 1..Len(ctxStack') : CtxGood(ctxStack'[d], quirks')
<1>1. Len(ctxStack') = Len(ctxStack) /\ ctxStack' \in Seq(Context)
  BY DEF SetTop, InFunction, IInv
<1>2. ASSUME NEW d \in 1..Len(ctxStack')
      PROVE  CtxGood(ctxStack'[d], quirks')
  <2>1. CASE d = Len(ctxStack)  BY <2>1, <1>1 DEF SetTop, IInv, InFunction
  <2>2. CASE d # Len(ctxStack)
    <3>1. ctxStack \in Seq(Context) /\ d \in 1..Len(ctxStack)
      BY <1>1 DEF IInv
    <3>2. ctxStack'[d] = ctxStack[d]  BY <2>2, <3>1 DEF SetTop
    <3>3. CtxGood(ctxStack[d], quirks)  BY <3>1 DEF IInv
    <3>4. QED  BY <3>2, <3>3 DEF CtxGood
  <2>3. QED  BY <2>1, <2>2
<1>3. QED  BY <1>1, <1>2

----------------------------------------------------------------------------
(* Reserving a slot *)

LEMMA NewSlotShape ==
    ASSUME NEW c \in Context, NEW t \in VarTypes \cup ValueTypes,
           NEW sz \in Nat, NEW a \in 0..8
    PROVE  /\ NewSlot(c, t, sz, a) \in Slot
           /\ NewSlot(c, t, sz, a).lo = AlignUp(c.cur, a)
           /\ NewSlot(c, t, sz, a).hi = AlignUp(c.cur, a) + sz
           /\ NewSlot(c, t, sz, a).type = t
           /\ a # 0 => c.cur <= NewSlot(c, t, sz, a).lo
           /\ a = sz /\ sz \in {1, 2, 4, 8} => NewSlot(c, t, sz, a).hi % sz = 0
<1>1. c.cur \in Nat  BY DEF Context
<1>2. AlignUp(c.cur, a) \in Nat /\ (a # 0 => c.cur <= AlignUp(c.cur, a))
  <2>1. CASE a = 0  BY <2>1 DEF AlignUp
  <2>2. CASE a # 0
    <3>1. a \in 1..8  BY <2>2
    <3>2. QED  BY <1>1, <3>1, AlignUpBounds
  <2>3. QED  BY <2>1, <2>2
<1>3. ASSUME a = sz, sz \in {1, 2, 4, 8}
      PROVE  (AlignUp(c.cur, a) + sz) % sz = 0
  <2>1. AlignUp(c.cur, a) % a = 0  BY <1>1, <1>3, AlignUpMultiple
  <2> DEFINE b == AlignUp(c.cur, a)
  <2>2. b \in Nat /\ b % sz = 0  BY <2>1, <1>2, <1>3
  <2> HIDE DEF b
  <2>3. (b + sz) % sz = 0
    <3>1. CASE sz = 1  BY <3>1, <2>2
    <3>2. CASE sz = 2  BY <3>2, <2>2
    <3>3. CASE sz = 4  BY <3>3, <2>2
    <3>4. CASE sz = 8  BY <3>4, <2>2
    <3>5. QED  BY <3>1, <3>2, <3>3, <3>4, <1>3
  <2>4. QED  BY <2>3 DEF b
<1>4. QED  BY <1>2, <1>3 DEF NewSlot, Slot

\* The slots of a context after one more has been reserved.
LEMMA ReserveShape ==
    ASSUME NEW c \in Context, NEW x \in Names, NEW t \in VarTypes \cup ValueTypes,
           NEW sz \in Nat, NEW a \in 0..8
    PROVE  /\ Reserve(c, x, t, sz, a) \in Context
           /\ Reserve(c, x, t, sz, a).cur = NewSlot(c, t, sz, a).hi
           /\ Reserve(c, x, t, sz, a).max = Larger(c.max, NewSlot(c, t, sz, a).hi)
           /\ Len(c.slots) \in Nat
           /\ Len(Reserve(c, x, t, sz, a).slots) = Len(c.slots) + 1
           /\ Reserve(c, x, t, sz, a).slots[Len(c.slots) + 1] = NewSlot(c, t, sz, a)
           /\ Reserve(c, x, t, sz, a).temps = c.temps
           /\ Reserve(c, x, t, sz, a).pending = c.pending
           /\ Reserve(c, x, t, sz, a).params = c.params
<1> DEFINE s  == NewSlot(c, t, sz, a)
           c2 == Reserve(c, x, t, sz, a)
<1>1. s \in Slot  BY NewSlotShape
<1>2. s.hi \in Nat  BY <1>1 DEF Slot
<1>3. c.slots \in Seq(Slot) /\ c.max \in Nat  BY DEF Context
<1>4. Len(c.slots) + 1 \in Nat /\ Append(c.slots, s) \in Seq(Slot)
  BY <1>1, <1>3
<1>5. Larger(c.max, s.hi) \in Nat  BY <1>2, <1>3 DEF Larger
<1>6. c2 = [c EXCEPT !.cur = s.hi, !.max = Larger(c.max, s.hi),
                     !.vars = [c.vars EXCEPT ![x] = Len(c.slots) + 1],
                     !.slots = Append(c.slots, s)]
  BY DEF Reserve
<1> HIDE DEF s, c2
<1>7. c2 \in Context
  <2>1. [c.vars EXCEPT ![x] = Len(c.slots) + 1] \in [Names -> Nat]
    BY <1>4 DEF Context
  <2>2. QED  BY <2>1, <1>2, <1>4, <1>5, <1>6 DEF Context
<1>8. /\ c2.cur = s.hi
      /\ c2.max = Larger(c.max, s.hi)
      /\ c2.slots = Append(c.slots, s)
      /\ c2.temps = c.temps /\ c2.pending = c.pending /\ c2.params = c.params
  BY <1>6 DEF Context
<1>9. /\ Len(c.slots) \in Nat /\ Len(Append(c.slots, s)) = Len(c.slots) + 1
      /\ Append(c.slots, s)[Len(c.slots) + 1] = s
  BY <1>1, <1>3
<1>10. QED  BY <1>7, <1>8, <1>9 DEF s, c2

LEMMA ReserveLayout ==
    ASSUME NEW c \in Context, NEW x \in Names, NEW t \in VarTypes \cup ValueTypes,
           NEW sz \in Nat, NEW a \in 0..8,
           CtxLayout(c), c.pending = <<>>,
           IsWord(t) => a = sz /\ sz \in {1, 2, 4, 8}
    PROVE  /\ CtxLayout(Reserve(c, x, t, sz, a))
           /\ a # 0 /\ CtxOrdered(c) => CtxOrdered(Reserve(c, x, t, sz, a))
<1> DEFINE s  == NewSlot(c, t, sz, a)
           n  == Len(c.slots)
           c2 == Reserve(c, x, t, sz, a)
<1>0. c \in Context /\ c.temps = <<>>  BY DEF CtxLayout
<1>1. /\ c2 \in Context
      /\ c2.cur = s.hi
      /\ c2.max = Larger(c.max, s.hi)
      /\ \A y \in Names : c2.vars[y] = IF y = x THEN n + 1 ELSE c.vars[y]
      /\ n \in Nat
      /\ Len(c2.slots) = n + 1
      /\ \A i \in 1..n : c2.slots[i] = c.slots[i]
      /\ c2.slots[n + 1] = s
      /\ c2.temps = c.temps /\ c2.pending = c.pending /\ c2.params = c.params
  <2>1. c2 \in Context /\ c2.cur = s.hi  BY ReserveShape
  <2>2. c2.max = Larger(c.max, s.hi)  BY ReserveShape
  <2>3. \A y \in Names : c2.vars[y] = IF y = x THEN n + 1 ELSE c.vars[y]
    <3>1. c2.vars = [c.vars EXCEPT ![x] = n + 1]  BY DEF Reserve, Context
    <3>2. c.vars \in [Names -> Nat]  BY DEF Context
    <3> HIDE DEF c2, n
    <3>3. QED  BY <3>1, <3>2
  <2>4. n \in Nat /\ Len(c2.slots) = n + 1  BY ReserveShape
  <2>5. \A i \in 1..n : c2.slots[i] = c.slots[i]
    <3>1. c2.slots = Append(c.slots, s)  BY DEF Reserve, Context
    <3>2. c.slots \in Seq(Slot) /\ s \in Slot  BY SlotTypes, NewSlotShape
    <3> HIDE DEF c2, s
    <3>3. QED  BY <3>1, <3>2
  <2>6. c2.slots[n + 1] = s  BY ReserveShape
  <2>7. c2.temps = c.temps /\ c2.pending = c.pending /\ c2.params = c.params
    BY ReserveShape
  <2> HIDE DEF s, n, c2
  <2>8. QED  BY <2>1, <2>2, <2>3, <2>4, <2>5, <2>6, <2>7
<1>2. /\ s.lo \in Nat /\ s.hi \in Nat /\ s.lo <= s.hi
      /\ s.hi = s.lo + sz
      /\ a # 0 => c.cur <= s.lo
      /\ IsWord(s.type) => s.hi % (s.hi - s.lo) = 0
  <2>1. s \in Slot /\ s.hi = s.lo + sz /\ s.type = t /\ (a # 0 => c.cur <= s.lo)
    BY <1>0, NewSlotShape
  <2>2. s.lo \in Nat /\ s.hi \in Nat  BY <2>1 DEF Slot
  <2>3. s.hi - s.lo = sz  BY <2>1, <2>2
  <2>4. IsWord(t) => s.hi % sz = 0  BY <1>0, NewSlotShape
  <2>5. QED  BY <2>1, <2>2, <2>3, <2>4
<1>3. /\ c.cur \in Nat /\ c.max \in Nat /\ c.vars \in [Names -> Nat]
      /\ \A i \in 1..n : c.slots[i].lo \in Nat /\ c.slots[i].hi \in Nat
  BY <1>0, SlotTypes DEF Context
<1> HIDE DEF c2
<1>4. c2.max \in Nat /\ c.max <= c2.max /\ s.hi <= c2.max
  BY <1>1, <1>2, <1>3 DEF Larger
<1> HIDE DEF s, n
<1>5. \A i \in 1..n + 1 : i \in 1..n \/ i = n + 1  BY <1>1
<1>6. ASSUME NEW i \in 1..Len(c2.slots)
      PROVE  /\ c2.slots[i].lo <= c2.slots[i].hi /\ c2.slots[i].hi <= c2.max
             /\ IsWord(c2.slots[i].type) =>
                   c2.slots[i].hi % (c2.slots[i].hi - c2.slots[i].lo) = 0
  <2>1. CASE i = n + 1  BY <2>1, <1>1, <1>2, <1>4
  <2>2. CASE i \in 1..n
    <3>1. c2.slots[i] = c.slots[i]  BY <2>2, <1>1
    <3>2. /\ c.slots[i].lo <= c.slots[i].hi /\ c.slots[i].hi <= c.max
          /\ IsWord(c.slots[i].type) =>
                c.slots[i].hi % (c.slots[i].hi - c.slots[i].lo) = 0
      BY <2>2 DEF CtxLayout, n
    <3>3. QED  BY <2>2, <3>1, <3>2, <1>3, <1>4
  <2>3. QED  BY <2>1, <2>2, <1>1, <1>5
<1>7. \A y \in Names : c2.vars[y] <= Len(c2.slots)
  BY <1>1, <1>3 DEF CtxLayout, n
<1>8. ASSUME NEW i \in 1..Len(c2.params)
      PROVE  c2.params[i].slot \in 1..Len(c2.slots) /\ c2.vars[c2.params[i].name] # 0
  <2>1. c.params[i].slot \in 1..n /\ c.vars[c.params[i].name] # 0
    BY <1>1 DEF CtxLayout, n
  <2>2. c.params[i].name \in Names
    <3>1. c.params \in Seq(Param) /\ i \in 1..Len(c.params)
      BY <1>0, <1>1 DEF Context
    <3>2. c.params[i] \in Param  BY <3>1
    <3>3. QED  BY <3>2 DEF Param
  <2>3. c2.vars[c.params[i].name] \in {n + 1, c.vars[c.params[i].name]}
    BY <2>2, <1>1
  <2>4. c2.vars[c.params[i].name] # 0  BY <2>1, <2>3, <1>1
  <2>5. QED  BY <2>1, <2>4, <1>1
<1>9. CtxLayout(c2)
  BY <1>0, <1>1, <1>2, <1>4, <1>6, <1>7, <1>8 DEF CtxLayout
<1>10. ASSUME a # 0, CtxOrdered(c)
       PROVE  CtxOrdered(c2)
  <2>1. c.cur <= s.lo  BY <1>2, <1>10
  <2>2. \A i \in 1..n : c.slots[i].hi <= c.cur
    BY <1>0, <1>3, <1>10 DEF CtxOrdered, n
  <2>3. ASSUME NEW i \in 1..Len(c2.slots), NEW j \in 1..Len(c2.slots), i < j
        PROVE  c2.slots[i].hi <= c2.slots[j].lo
    <3>1. i \in 1..n /\ c2.slots[i] = c.slots[i]  BY <2>3, <1>1
    <3>2. CASE j = n + 1  BY <3>1, <3>2, <2>1, <2>2, <1>1, <1>2, <1>3
    <3>3. CASE j \in 1..n
      BY <3>1, <3>3, <2>3, <1>1, <1>10 DEF CtxOrdered, n
    <3>4. QED  BY <3>2, <3>3, <1>1, <1>5
  <2>4. \A i \in 1..Len(c2.slots) : c2.slots[i].hi <= c2.cur - 8 * Len(c2.temps)
    <3>1. Len(c2.temps) = 0  BY <1>0, <1>1
    <3>2. \A i \in 1..n : c.slots[i].hi <= s.hi  BY <2>1, <2>2, <1>2, <1>3
    <3>3. QED  BY <3>1, <3>2, <1>1, <1>2, <1>5
  <2>5. QED  BY <2>3, <2>4 DEF CtxOrdered
<1>11. QED  BY <1>9, <1>10 DEF c2

----------------------------------------------------------------------------
(* The other ways a context changes *)

LEMMA EmptyGood == EmptyContext \in Context /\ \A qs : CtxGood(EmptyContext, qs)
<1>1. EmptyContext \in Context  BY DEF EmptyContext, Context
<1>2. CtxLayout(EmptyContext)  BY <1>1 DEF CtxLayout, EmptyContext
<1>3. CtxOrdered(EmptyContext)  BY DEF CtxOrdered, EmptyContext
<1>4. QED  BY <1>1, <1>2, <1>3 DEF CtxGood

\* Only the high-water mark is raised: a temporary is popped at once.
LEMMA MaxRaised ==
    ASSUME NEW c \in Context, NEW m \in Nat
    PROVE  /\ [c EXCEPT !.max = Larger(c.max, c.cur + m)] \in Context
           /\ \A qs : CtxGood(c, qs) =>
                   CtxGood([c EXCEPT !.max = Larger(c.max, c.cur + m)], qs)
<1> DEFINE h  == Larger(c.max, c.cur + m)
           c2 == [c EXCEPT !.max = h]
<1>1. c.max \in Nat /\ c.cur \in Nat  BY DEF Context
<1>2. h \in Nat /\ c.max <= h  BY <1>1 DEF Larger
<1> HIDE DEF h
<1>3. c2 \in Context  BY <1>2 DEF Context
<1>4. /\ c2.cur = c.cur /\ c2.max = h /\ c2.vars = c.vars /\ c2.slots = c.slots
      /\ c2.temps = c.temps /\ c2.pending = c.pending /\ c2.params = c.params
  BY DEF Context
<1> HIDE DEF c2
<1>5. ASSUME CtxLayout(c)  PROVE  CtxLayout(c2)
  <2>1. \A i \in 1..Len(c.slots) : c.slots[i].hi \in Nat /\ c.slots[i].hi <= c.max
    BY <1>5, SlotTypes DEF CtxLayout
  <2>2. \A i \in 1..Len(c.slots) : c.slots[i].hi <= h  BY <2>1, <1>1, <1>2
  <2>3. c.cur <= h  BY <1>5, <1>1, <1>2 DEF CtxLayout
  <2>4. QED  BY <1>3, <1>4, <1>5, <2>2, <2>3 DEF CtxLayout
<1>6. CtxOrdered(c) => CtxOrdered(c2)  BY <1>4 DEF CtxOrdered
<1>7. QED  BY <1>3, <1>5, <1>6 DEF CtxGood, c2, h

\* A parameter is recorded: its slot is the one just reserved.
LEMMA ParamAdded ==
    ASSUME NEW c \in Context, NEW x \in Names, CtxLayout(c),
           c.vars[x] # 0, Len(c.slots) # 0
    PROVE  LET c2 == [c EXCEPT !.params =
                         Append(c.params, [name |-> x, slot |-> Len(c.slots)])]
           IN  c2 \in Context /\ CtxLayout(c2) /\ (CtxOrdered(c) => CtxOrdered(c2))
<1> DEFINE p  == [name |-> x, slot |-> Len(c.slots)]
           c2 == [c EXCEPT !.params = Append(c.params, p)]
<1>1. Len(c.slots) \in Nat  BY SlotTypes
<1>2. p \in Param /\ p.name = x /\ p.slot = Len(c.slots)  BY <1>1 DEF Param
<1> HIDE DEF p
<1>3. c.params \in Seq(Param)  BY DEF Context
<1>4. Append(c.params, p) \in Seq(Param)  BY <1>2, <1>3
<1>5. c2 \in Context  BY <1>4 DEF Context
<1>6. /\ c2.cur = c.cur /\ c2.max = c.max /\ c2.vars = c.vars /\ c2.slots = c.slots
      /\ c2.temps = c.temps /\ c2.pending = c.pending
      /\ c2.params = Append(c.params, p)
  BY DEF Context
<1> HIDE DEF c2
<1>7. ASSUME NEW i \in 1..Len(c2.params)
      PROVE  c2.params[i].slot \in 1..Len(c2.slots) /\ c2.vars[c2.params[i].name] # 0
  <2>1. CASE i \in 1..Len(c.params)
    <3>1. c2.params[i] = c.params[i]  BY <2>1, <1>6, <1>3, <1>2
    <3>2. QED  BY <2>1, <3>1, <1>6 DEF CtxLayout
  <2>2. CASE i = Len(c.params) + 1
    <3>1. c2.params[i] = p  BY <2>2, <1>6, <1>3, <1>2
    <3>2. QED  BY <3>1, <1>1, <1>2, <1>6
  <2>3. QED  BY <2>1, <2>2, <1>2, <1>3, <1>6
<1>8. CtxLayout(c2)  BY <1>5, <1>6, <1>7 DEF CtxLayout
<1>9. CtxOrdered(c) => CtxOrdered(c2)  BY <1>6 DEF CtxOrdered
<1>10. QED  BY <1>5, <1>8, <1>9 DEF c2, p

\* An expression node starts: whatever it pushes lies above the temporaries
\* that are there.
LEMMA OpenedGood ==
    ASSUME NEW c \in Context, NEW q \in Quotas, NEW qs, CtxGood(c, qs)
    PROVE  LET c2 == [c EXCEPT !.pending =
                         Append(c.pending, [base |-> Len(c.temps), quota |-> q])]
           IN  c2 \in Context /\ CtxGood(c2, qs)
<1> DEFINE p  == [base |-> Len(c.temps), quota |-> q]
           c2 == [c EXCEPT !.pending = Append(c.pending, p)]
           n  == Len(c.pending)
<1>1. c.pending \in Seq(Pending) /\ c.temps \in Seq(Nat)  BY DEF Context
<1>2. Len(c.temps) \in Nat  BY <1>1
<1>3. p \in Pending /\ p.base = Len(c.temps)  BY <1>2 DEF Pending
<1> HIDE DEF p
<1>4. /\ Append(c.pending, p) \in Seq(Pending)
      /\ n \in Nat /\ Len(Append(c.pending, p)) = n + 1
      /\ \A i \in 1..n : Append(c.pending, p)[i] = c.pending[i]
      /\ Append(c.pending, p)[n + 1] = p
  BY <1>1, <1>3
<1>5. c2 \in Context  BY <1>4 DEF Context
<1>6. /\ c2.cur = c.cur /\ c2.max = c.max /\ c2.vars = c.vars /\ c2.slots = c.slots
      /\ c2.temps = c.temps /\ c2.params = c.params
      /\ c2.pending = Append(c.pending, p)
  BY DEF Context
<1> HIDE DEF c2
<1>7. CtxLayout(c)  BY DEF CtxGood
<1>8. \A i \in 1..n : c.pending[i].base \in Nat /\ c.pending[i].base <= Len(c.temps)
  <2>1. \A i \in 1..n : c.pending[i] \in Pending  BY <1>1
  <2>2. QED  BY <2>1, <1>7 DEF CtxLayout, Pending
<1>9. \A i \in 1..n + 1 : i \in 1..n \/ i = n + 1  BY <1>4
<1>10. \A i \in 1..Len(c2.pending) : c2.pending[i].base <= Len(c2.temps)
  BY <1>2, <1>3, <1>4, <1>6, <1>8, <1>9
<1>11. ASSUME NEW i \in 1..Len(c2.pending), NEW j \in 1..Len(c2.pending), i < j
       PROVE  c2.pending[i].base <= c2.pending[j].base
  <2>1. i \in 1..n /\ c2.pending[i] = c.pending[i]  BY <1>11, <1>4, <1>6
  <2>2. CASE j = n + 1  BY <2>1, <2>2, <1>3, <1>4, <1>6, <1>8
  <2>3. CASE j \in 1..n
    <3>1. c2.pending[j] = c.pending[j]  BY <2>3, <1>4, <1>6
    <3>2. QED  BY <2>1, <2>3, <3>1, <1>7, <1>11 DEF CtxLayout
  <2>4. QED  BY <2>2, <2>3, <1>4, <1>6, <1>9
<1>12. c2.pending[1].base = 0
  <2>1. CASE n = 0
    <3>1. c.pending = <<>>  BY <2>1, <1>1
    <3>2. Len(c.temps) = 0  BY <3>1, <1>7 DEF CtxLayout
    <3>3. QED  BY <2>1, <3>2, <1>3, <1>4, <1>6
  <2>2. CASE n # 0
    <3>1. 1 \in 1..n /\ c.pending # <<>>  BY <2>2, <1>4
    <3>2. c2.pending[1] = c.pending[1]  BY <3>1, <1>4, <1>6
    <3>3. QED  BY <3>1, <3>2, <1>7 DEF CtxLayout
  <2>3. QED  BY <2>1, <2>2
<1>13. c2.pending # <<>>  BY <1>4, <1>6
<1>14. CtxLayout(c2)
  BY <1>5, <1>6, <1>7, <1>10, <1>11, <1>12, <1>13 DEF CtxLayout
<1>15. CtxOrdered(c) => CtxOrdered(c2)  BY <1>6 DEF CtxOrdered
<1>16. QED  BY <1>5, <1>14, <1>15 DEF CtxGood, c2, p

\* pushTmp: the new temporary is at the bottom of the frame.
LEMMA PushedGood ==
    ASSUME NEW c \in Context, NEW qs, CtxGood(c, qs), c.pending # <<>>
    PROVE  LET c2 == [c EXCEPT !.cur = c.cur + 8, !.max = Larger(c.max, c.cur + 8),
                               !.temps = Append(c.temps, c.cur + 8)]
           IN  c2 \in Context /\ CtxGood(c2, qs)
<1> DEFINE h  == Larger(c.max, c.cur + 8)
           c2 == [c EXCEPT !.cur = c.cur + 8, !.max = h,
                           !.temps = Append(c.temps, c.cur + 8)]
           n  == Len(c.temps)
<1>1. /\ c.cur \in Nat /\ c.max \in Nat /\ c.temps \in Seq(Nat)
      /\ c.pending \in Seq(Pending)
  BY DEF Context
<1>2. h \in Nat /\ c.max <= h /\ c.cur + 8 <= h  BY <1>1 DEF Larger
<1>3. /\ Append(c.temps, c.cur + 8) \in Seq(Nat)
      /\ n \in Nat /\ Len(Append(c.temps, c.cur + 8)) = n + 1
      /\ \A i \in 1..n : Append(c.temps, c.cur + 8)[i] = c.temps[i]
      /\ Append(c.temps, c.cur + 8)[n + 1] = c.cur + 8
  BY <1>1
<1> HIDE DEF h
<1>4. c2 \in Context
  <2> DEFINE d == c.cur + 8
             ts == Append(c.temps, c.cur + 8)
  <2>1. d \in Nat /\ ts \in Seq(Nat)  BY <1>1, <1>3
  <2>2. c2 = [c EXCEPT !.cur = d, !.max = h, !.temps = ts]  OBVIOUS
  <2> HIDE DEF c2, d, ts
  <2>3. QED  BY <2>1, <2>2, <1>2 DEF Context
<1>5. /\ c2.cur = c.cur + 8 /\ c2.max = h /\ c2.vars = c.vars /\ c2.slots = c.slots
      /\ c2.temps = Append(c.temps, c.cur + 8) /\ c2.params = c.params
      /\ c2.pending = c.pending
  BY DEF Context
<1> HIDE DEF c2
<1>6. CtxLayout(c)  BY DEF CtxGood
<1>7. Len(c2.temps) = n + 1  BY <1>3, <1>5
<1>8. c2.cur <= c2.max /\ 8 * Len(c2.temps) <= c2.cur
  <2>1. 8 * n <= c.cur  BY <1>6 DEF CtxLayout
  <2>2. QED  BY <2>1, <1>1, <1>2, <1>3, <1>5, <1>7
<1>9. ASSUME NEW k \in 1..Len(c2.temps)
      PROVE  c2.temps[k] = c2.cur - 8 * (Len(c2.temps) - k)
  <2>1. CASE k = n + 1  BY <2>1, <1>1, <1>3, <1>5, <1>7
  <2>2. CASE k \in 1..n
    <3>1. c.temps[k] = c.cur - 8 * (n - k)  BY <2>2, <1>6 DEF CtxLayout
    <3>2. c2.temps[k] = c.temps[k]  BY <2>2, <1>3, <1>5
    <3>3. QED  BY <3>1, <3>2, <2>2, <1>1, <1>3, <1>5, <1>7
  <2>3. QED  BY <2>1, <2>2, <1>3, <1>7
<1>10. \A i \in 1..Len(c.slots) :
          /\ c.slots[i].hi \in Nat /\ c.slots[i].hi <= c2.max
          /\ c.slots[i].lo <= c.slots[i].hi
  <2>1. \A i \in 1..Len(c.slots) : c.slots[i].hi \in Nat /\ c.slots[i].hi <= c.max
    BY <1>6, SlotTypes DEF CtxLayout
  <2>2. QED  BY <2>1, <1>1, <1>2, <1>5, <1>6 DEF CtxLayout
<1>11. \A p \in 1..Len(c.pending) : c.pending[p].base <= Len(c2.temps)
  <2>1. \A p \in 1..Len(c.pending) : c.pending[p] \in Pending  BY <1>1
  <2>2. \A p \in 1..Len(c.pending) : c.pending[p].base \in Nat /\ c.pending[p].base <= n
    BY <2>1, <1>6 DEF CtxLayout, Pending
  <2>3. QED  BY <2>2, <1>3, <1>7
<1>12. CtxLayout(c2)
  BY <1>4, <1>5, <1>6, <1>8, <1>9, <1>10, <1>11 DEF CtxLayout
<1>13. ASSUME CtxOrdered(c)  PROVE  CtxOrdered(c2)
  <2>1. \A i \in 1..Len(c.slots) : c.slots[i].hi <= c.cur - 8 * n
    BY <1>13 DEF CtxOrdered
  <2>2. c2.cur - 8 * Len(c2.temps) = c.cur - 8 * n  BY <1>1, <1>3, <1>5, <1>7
  <2>3. QED  BY <2>1, <2>2, <1>5, <1>13 DEF CtxOrdered
<1>14. QED  BY <1>4, <1>12, <1>13 DEF CtxGood, c2, h

\* popTmp and freeTmp: taking 8 bytes for each temporary of the node off the
\* offset leaves exactly the temporaries of the nodes around it.
LEMMA ClosedGood ==
    ASSUME NEW c \in Context, NEW qs, CtxGood(c, qs), c.pending # <<>>
    PROVE  LET c2 == [c EXCEPT
                        !.cur = c.cur - 8 * Held(c),
                        !.temps = SubSeq(c.temps, 1, LastPending(c).base),
                        !.pending = SubSeq(c.pending, 1, Len(c.pending) - 1)]
           IN  c2 \in Context /\ CtxGood(c2, qs)
<1> DEFINE n  == Len(c.temps)
           m  == Len(c.pending)
           b  == LastPending(c).base
           c2 == [c EXCEPT !.cur = c.cur - 8 * Held(c), !.temps = SubSeq(c.temps, 1, b),
                           !.pending = SubSeq(c.pending, 1, m - 1)]
<1>1. /\ c.cur \in Nat /\ c.max \in Nat /\ c.temps \in Seq(Nat)
      /\ c.pending \in Seq(Pending)
  BY DEF Context
<1>2. CtxLayout(c)  BY DEF CtxGood
<1>3. m \in Nat /\ m > 0 /\ n \in Nat  BY <1>1
<1>4. b \in Nat /\ b <= n /\ b = c.pending[m].base
  <2>1. m \in 1..m  BY <1>3
  <2>2. c.pending[m] \in Pending  BY <2>1, <1>1
  <2>3. QED  BY <2>1, <2>2, <1>2 DEF LastPending, CtxLayout, Pending
<1>5. Held(c) = n - b  BY DEF Held
<1>6. 8 * n <= c.cur /\ c.cur <= c.max  BY <1>2 DEF CtxLayout
<1> HIDE DEF b
<1>7. /\ SubSeq(c.temps, 1, b) \in Seq(Nat) /\ Len(SubSeq(c.temps, 1, b)) = b
      /\ \A k \in 1..b : SubSeq(c.temps, 1, b)[k] = c.temps[k]
  BY <1>1, <1>3, <1>4
<1>8. /\ SubSeq(c.pending, 1, m - 1) \in Seq(Pending)
      /\ Len(SubSeq(c.pending, 1, m - 1)) = m - 1
      /\ \A k \in 1..m - 1 : SubSeq(c.pending, 1, m - 1)[k] = c.pending[k]
  BY <1>1, <1>3
<1> DEFINE r == c.cur - 8 * (n - b)
<1> HIDE DEF n, m
<1>9. /\ r \in Nat /\ r <= c.cur /\ 8 * b <= r /\ r - 8 * b = c.cur - 8 * n
      /\ \A k \in Nat : r - 8 * (b - k) = c.cur - 8 * (n - k)
      /\ c.cur - 8 * Held(c) = r
  <2>1. c.cur \in Nat /\ n \in Nat /\ b \in Nat /\ b <= n /\ 8 * n <= c.cur
    BY <1>1, <1>3, <1>4, <1>6
  <2>2. r \in Nat  BY <2>1
  <2>3. r <= c.cur /\ 8 * b <= r  BY <2>1
  <2>4. r - 8 * b = c.cur - 8 * n  BY <2>1
  <2>5. \A k \in Nat : r - 8 * (b - k) = c.cur - 8 * (n - k)  BY <2>1
  <2>6. c.cur - 8 * Held(c) = r  BY <1>5
  <2> HIDE DEF r
  <2>7. QED  BY <2>2, <2>3, <2>4, <2>5, <2>6
<1> HIDE DEF r
<1>10. c2 \in Context
  <2> DEFINE ts == SubSeq(c.temps, 1, b)
             ps == SubSeq(c.pending, 1, m - 1)
  <2>1. ts \in Seq(Nat) /\ ps \in Seq(Pending)  BY <1>7, <1>8
  <2>2. c2 = [c EXCEPT !.cur = r, !.temps = ts, !.pending = ps]  BY <1>9
  <2> HIDE DEF c2, ts, ps
  <2>3. QED  BY <2>1, <2>2, <1>9 DEF Context
<1>11. /\ c2.cur = r /\ c2.max = c.max /\ c2.vars = c.vars
       /\ c2.slots = c.slots /\ c2.temps = SubSeq(c.temps, 1, b)
       /\ c2.params = c.params /\ c2.pending = SubSeq(c.pending, 1, m - 1)
  BY <1>9 DEF Context
<1> HIDE DEF c2
<1>12. c2.cur <= c2.max /\ 8 * Len(c2.temps) <= c2.cur /\ Len(c2.temps) = b
  <2>1. Len(c2.temps) = b  BY <1>7, <1>11
  <2>2. c2.cur = r /\ c2.max = c.max  BY <1>11
  <2>3. QED  BY <2>1, <2>2, <1>1, <1>6, <1>9
<1>13. ASSUME NEW k \in 1..Len(c2.temps)
       PROVE  c2.temps[k] = c2.cur - 8 * (Len(c2.temps) - k)
  <2>1. k \in 1..b /\ k \in 1..n  BY <1>3, <1>4, <1>12
  <2>2. c.temps[k] = c.cur - 8 * (n - k)  BY <2>1, <1>2 DEF CtxLayout, n
  <2>3. c2.temps[k] = c.temps[k]  BY <2>1, <1>7, <1>11
  <2>4. c2.cur = r  BY <1>11
  <2>5. k \in Nat  BY <2>1, <1>4
  <2>6. c2.cur - 8 * (b - k) = c.cur - 8 * (n - k)
    BY <2>4, <2>5, <1>9
  <2>7. QED  BY <2>2, <2>3, <2>6, <1>12
<1>14. \A p \in 1..Len(c2.pending) :
          p \in 1..m /\ p < m /\ c2.pending[p] = c.pending[p]
  BY <1>3, <1>8, <1>11
<1>15. /\ \A p \in 1..Len(c2.pending) : c2.pending[p].base <= Len(c2.temps)
       /\ \A p, q \in 1..Len(c2.pending) :
             p < q => c2.pending[p].base <= c2.pending[q].base
  <2>1. m \in 1..m  BY <1>3
  <2>2. QED  BY <2>1, <1>2, <1>4, <1>12, <1>14 DEF CtxLayout, m
<1>16. c2.pending # <<>> => c2.pending[1].base = 0
  <2>1. c2.pending # <<>> => 1 \in 1..Len(c2.pending)  BY <1>8, <1>11
  <2>2. c.pending[1].base = 0  BY <1>2 DEF CtxLayout
  <2>3. QED  BY <2>1, <2>2, <1>14
<1>17. c2.pending = <<>> => c2.temps = <<>>
  <2> SUFFICES ASSUME c2.pending = <<>>  PROVE  c2.temps = <<>>
    OBVIOUS
  <2>1. m = 1  BY <1>3, <1>8, <1>11
  <2>2. b = 0  BY <2>1, <1>2, <1>4 DEF CtxLayout, m
  <2>3. QED  BY <2>2, <1>7, <1>11
<1>18. CtxLayout(c2)
  BY <1>2, <1>10, <1>11, <1>12, <1>13, <1>15, <1>16, <1>17 DEF CtxLayout
<1>19. ASSUME CtxOrdered(c)  PROVE  CtxOrdered(c2)
  <2>1. \A i \in 1..Len(c.slots) : c.slots[i].hi <= c.cur - 8 * n
    BY <1>19 DEF CtxOrdered, n
  <2>2. c2.cur - 8 * Len(c2.temps) = c.cur - 8 * n
    <3>1. c2.cur = r  BY <1>11
    <3>2. QED  BY <3>1, <1>9, <1>12
  <2>3. QED  BY <2>1, <2>2, <1>11, <1>19 DEF CtxOrdered
<1>20. QED  BY <1>10, <1>18, <1>19 DEF CtxGood, c2, b, m

\* The allocation of a declaration, at a statement.
LEMMA DeclaredGood ==
    ASSUME IInv, AtStatement, NEW x \in Names, NEW t \in VarTypes \cup ValueTypes,
           NEW sz \in Nat, NEW a \in 0..8, NEW qs, quirks \subseteq qs,
           IsWord(t) => a = sz /\ sz \in {1, 2, 4, 8},
           a = 0 => "undeclared" \in qs
    PROVE  Reserve(Top, x, t, sz, a) \in Context /\ CtxGood(Reserve(Top, x, t, sz, a), qs)
<1>1. Top \in Context /\ CtxGood(Top, quirks) /\ CtxLayout(Top) /\ Top.pending = <<>>
  BY TopTypes DEF AtStatement
<1>2. Reserve(Top, x, t, sz, a) \in Context  BY <1>1, ReserveShape
<1>3. CtxLayout(Reserve(Top, x, t, sz, a))  BY <1>1, ReserveLayout
<1>4. a # 0 /\ CtxOrdered(Top) => CtxOrdered(Reserve(Top, x, t, sz, a))
  BY <1>1, ReserveLayout
<1>5. "undeclared" \notin qs => a # 0 /\ CtxOrdered(Top)  BY <1>1 DEF CtxGood
<1>6. QED  BY <1>2, <1>3, <1>4, <1>5 DEF CtxGood

\* The size and the alignment the visitor passes to the allocation.
LEMMA TypeLayout ==
    ASSUME RegistryOK(structs), NEW t \in VarTypes \cup ValueTypes
    PROVE  /\ TypeSize(t, structs) \in Nat /\ TypeAlign(t, structs) \in 0..8
           /\ TypeAlign(t, structs) # 0
           /\ IsWord(t) => /\ TypeAlign(t, structs) = TypeSize(t, structs)
                           /\ TypeSize(t, structs) \in {1, 2, 4, 8}
<1>1. t \in AllTypes  BY TypesAssumption DEF AllTypes
<1>2. TypeSize(t, structs) \in Nat  BY <1>1, TypeSizeNat
<1>3. TypeAlign(t, structs) \in 1..8  BY <1>1, TypeAlignRange
<1>4. IsWord(t) => /\ TypeAlign(t, structs) = TypeSize(t, structs)
                   /\ TypeSize(t, structs) \in {1, 2, 4, 8}
  BY <1>1, WordSize
<1>5. QED  BY <1>2, <1>3, <1>4

LEMMA LookedUp ==
    ASSUME RegistryOK(structs), NEW t, t.base \in StructNames
    PROVE  /\ LayoutOf(t).size \in Nat /\ LayoutOf(t).align \in 0..8
           /\ LookUp(t) => RegistryOK(structs')
<1>1. LayoutOf(t).size \in Nat /\ LayoutOf(t).align \in 0..8
  BY RegistryFields DEF LayoutOf, NoLayout
<1>2. t.base \in DOMAIN structs => LayoutOf(t) \in Layouts[t.base] \cup {NoLayout}
  BY DEF LayoutOf, RegistryOK
<1>3. t.base \notin DOMAIN structs => LayoutOf(t) = NoLayout
  BY DEF LayoutOf
<1>4. ASSUME LookUp(t)  PROVE  RegistryOK(structs')
  <2>1. DOMAIN structs' = DOMAIN structs \cup {t.base}  BY <1>4 DEF LookUp
  <2>2. ASSUME NEW s \in DOMAIN structs'
        PROVE  structs'[s] \in Layouts[s] \cup {NoLayout}
    <3>1. structs'[s] = IF s = t.base THEN LayoutOf(t) ELSE structs[s]
      BY <1>4, <2>1 DEF LookUp
    <3>2. QED  BY <3>1, <1>2, <1>3, <2>1 DEF RegistryOK
  <2>3. QED  BY <2>1, <2>2 DEF RegistryOK
<1>5. QED  BY <1>1, <1>4

LEMMA StructBase ==
    ASSUME NEW t \in VarTypes \cup ValueTypes, IsStructValue(t)
    PROVE  t.base \in StructNames /\ ~IsWord(t)
<1>1. t \in AllTypes  BY TypesAssumption DEF AllTypes
<1>2. QED  BY <1>1 DEF AllTypes, TypeRecord, IsStructValue, IsWord

\* What a variable's slot says about its type.
LEMMA VariableSlot ==
    ASSUME IInv, InFunction, NEW x \in Names, Top.vars[x] # 0
    PROVE  /\ Top.slots[Top.vars[x]] \in Slot
           /\ Top.slots[Top.vars[x]].type \in VarTypes \cup ValueTypes
<1>1. Top \in Context /\ CtxLayout(Top)  BY TopTypes
<1>2. Top.vars \in [Names -> Nat]  BY <1>1 DEF Context
<1>3. Top.vars[x] \in 1..Len(Top.slots)  BY <1>1, <1>2, SlotTypes DEF CtxLayout
<1>4. Top.slots[Top.vars[x]] \in Slot  BY <1>1, <1>3, SlotTypes
<1>5. QED  BY <1>4 DEF Slot

\* SetTop' with the invariant's other conjuncts given.
LEMMA TopReplaced ==
    ASSUME IInv, InFunction, NEW c \in Context, SetTop(c), CtxGood(c, quirks'),
           RegistryOK(structs'), stray' \in BOOLEAN,
           quirks \subseteq quirks', quirks' \subseteq Quirks
    PROVE  IInv'
BY SetTopGood DEF IInv

LEMMA QuirkTypes ==
    /\ \A t : ValueQuirks(t) \subseteq Quirks
    /\ \A n : TailQuirk(n) \subseteq Quirks
    /\ \A c, x : Shadow(c, x) \subseteq Quirks
BY DEF ValueQuirks, TailQuirk, Shadow, Quirks

LEMMA EmitType == \A S : Emit(S) => stray' \in BOOLEAN
BY DEF Emit

----------------------------------------------------------------------------
(* The invariant is inductive *)

LEMMA InitIInv == Init => IInv
<1> SUFFICES ASSUME Init  PROVE  IInv
  OBVIOUS
<1>1. structs = [s \in {} |-> NoLayout] /\ ctxStack = <<>> /\ stray = FALSE /\ quirks = {}
  BY DEF Init
<1>2. RegistryOK(structs)  BY <1>1 DEF RegistryOK
<1>3. ctxStack \in Seq(Context) /\ \A d \in 1..Len(ctxStack) : CtxGood(ctxStack[d], quirks)
  BY <1>1
<1>4. QED  BY <1>1, <1>2, <1>3 DEF IInv

LEMMA StepIInv == IInv /\ [Next]_vars => IInv'
<1> SUFFICES ASSUME IInv, [Next]_vars  PROVE  IInv'
  OBVIOUS
<1> USE DEF Quirks
<1>0. RegistryOK(structs) /\ stray \in BOOLEAN /\ quirks \subseteq Quirks
  BY DEF IInv
<1>1. ASSUME NEW s \in StructNames, DeclareStruct(s)  PROVE  IInv'
  <2>1. PICK i \in Layouts[s] :
           structs' = [r \in DOMAIN structs \cup {s} |-> IF r = s THEN i ELSE structs[r]]
    BY <1>1 DEF DeclareStruct
  <2>2. RegistryOK(structs')  BY <1>0, <2>1 DEF RegistryOK
  <2>3. quirks \subseteq quirks' /\ quirks' \subseteq Quirks /\ UNCHANGED <<ctxStack, stray>>
    BY <1>0, <1>1 DEF DeclareStruct
  <2>4. QED  BY <2>2, <2>3 DEF IInv, CtxGood
<1>2. CASE BeginFunction
  <2>1. ctxStack' = Append(ctxStack, EmptyContext) /\ UNCHANGED <<structs, stray, quirks>>
    BY <1>2 DEF BeginFunction
  <2>2. EmptyContext \in Context /\ ctxStack \in Seq(Context)
    BY EmptyGood DEF IInv
  <2>3. ctxStack' \in Seq(Context) /\ Len(ctxStack') = Len(ctxStack) + 1
    BY <2>1, <2>2
  <2>4. ASSUME NEW d \in 1..Len(ctxStack')  PROVE  CtxGood(ctxStack'[d], quirks)
    <3>1. CASE d = Len(ctxStack) + 1
      <4>1. ctxStack'[d] = EmptyContext  BY <3>1, <2>1, <2>2
      <4>2. QED  BY <4>1, EmptyGood
    <3>2. CASE d \in 1..Len(ctxStack)
      <4>1. ctxStack'[d] = ctxStack[d]  BY <3>2, <2>1, <2>2
      <4>2. QED  BY <4>1, <3>2 DEF IInv
    <3>3. QED  BY <3>1, <3>2, <2>2, <2>3
  <2>5. QED  BY <1>0, <2>1, <2>3, <2>4 DEF IInv
<1>3. ASSUME NEW x \in Names, NEW t \in ValueTypes, AddParam(x, t)  PROVE  IInv'
  <2> DEFINE c  == Reserve(Top, x, t, TypeSize(t, structs), TypeAlign(t, structs))
             c2 == [c EXCEPT !.params =
                      Append(Top.params, [name |-> x, slot |-> Len(c.slots)])]
  <2>1. AtStatement /\ InFunction /\ SetTop(c2)
        /\ quirks' = quirks \cup ValueQuirks(t) \cup Shadow(Top, x)
        /\ UNCHANGED <<structs, stray>>
    BY <1>3 DEF AddParam, AtStatement
  <2>2. quirks \subseteq quirks' /\ quirks' \subseteq Quirks
    BY <1>0, <2>1, QuirkTypes
  <2>3. Top \in Context  BY <2>1, TopTypes
  <2>4. c \in Context /\ CtxGood(c, quirks')
    BY <1>0, <2>1, <2>2, TypeLayout, DeclaredGood
  <2>5. c.params = Top.params /\ Len(c.slots) = Len(Top.slots) + 1
        /\ Len(Top.slots) \in Nat
    BY <1>0, <2>3, TypeLayout, ReserveShape
  <2>6. c.vars[x] = Len(Top.slots) + 1
    <3>1. c.vars = [Top.vars EXCEPT ![x] = Len(Top.slots) + 1]
      BY <2>3 DEF Reserve, Context
    <3>2. Top.vars \in [Names -> Nat]  BY <2>3 DEF Context
    <3> HIDE DEF c
    <3>3. QED  BY <3>1, <3>2
  <2>7. SetTop([c EXCEPT !.params =
                   Append(c.params, [name |-> x, slot |-> Len(c.slots)])])
    BY <2>1, <2>5
  <2> HIDE DEF c, c2
  <2>8. CtxLayout(c) /\ c.vars[x] # 0 /\ Len(c.slots) # 0
    BY <2>4, <2>5, <2>6 DEF CtxGood
  <2>9. LET p == [c EXCEPT !.params =
                     Append(c.params, [name |-> x, slot |-> Len(c.slots)])]
        IN  p \in Context /\ CtxGood(p, quirks')
    BY <2>4, <2>8, ParamAdded DEF CtxGood
  <2>10. QED  BY <1>0, <2>1, <2>2, <2>7, <2>9, TopReplaced
<1>4. ASSUME NEW x \in Names, NEW t \in ValueTypes, DeclareConst(x, t)  PROVE  IInv'
  <2> DEFINE c == Reserve(Top, x, t, TypeSize(t, structs), TypeAlign(t, structs))
  <2>1. AtStatement /\ InFunction /\ SetTop(c) /\ stray' \in BOOLEAN
        /\ quirks' = quirks \cup ValueQuirks(t) \cup Shadow(Top, x)
        /\ UNCHANGED structs
    BY <1>4, EmitType DEF DeclareConst, AtStatement
  <2>2. quirks \subseteq quirks' /\ quirks' \subseteq Quirks
    BY <1>0, <2>1, QuirkTypes
  <2>3. c \in Context /\ CtxGood(c, quirks')
    BY <1>0, <2>1, <2>2, TypeLayout, DeclaredGood
  <2> HIDE DEF c
  <2>4. QED  BY <1>0, <2>1, <2>2, <2>3, TopReplaced
<1>5. ASSUME NEW x \in Names, NEW t \in VarTypes, DeclareStructVar(x, t)  PROVE  IInv'
  <2> DEFINE c == Reserve(Top, x, t, LayoutOf(t).size, LayoutOf(t).align)
  <2>1. AtStatement /\ InFunction /\ IsStructValue(t) /\ SetTop(c) /\ LookUp(t)
        /\ stray' \in BOOLEAN
    BY <1>5, EmitType DEF DeclareStructVar, AtStatement
  <2>2. quirks' = quirks \cup Shadow(Top, x)
           \cup (IF LayoutOf(t).align = 0 THEN {"undeclared"} ELSE {})
           \cup (IF LayoutOf(t).size % 8 # 0 THEN {"tail"} ELSE {})
           \cup (IF t.arr > 0 THEN {"structArray"} ELSE {})
    BY <1>5 DEF DeclareStructVar
  <2>3. /\ quirks \subseteq quirks' /\ quirks' \subseteq Quirks
        /\ LayoutOf(t).align = 0 => "undeclared" \in quirks'
    BY <1>0, <2>2, QuirkTypes
  <2>4. t.base \in StructNames /\ ~IsWord(t)  BY <2>1, StructBase
  <2>5. LayoutOf(t).size \in Nat /\ LayoutOf(t).align \in 0..8 /\ RegistryOK(structs')
    BY <1>0, <2>1, <2>4, LookedUp
  <2>6. c \in Context /\ CtxGood(c, quirks')
    BY <2>1, <2>3, <2>4, <2>5, DeclaredGood
  <2> HIDE DEF c
  <2>7. QED  BY <2>1, <2>3, <2>5, <2>6, TopReplaced
<1>6. ASSUME NEW x \in Names, NEW t \in VarTypes, NEW i \in BOOLEAN, DeclareVar(x, t, i)
      PROVE  IInv'
  <2> DEFINE c == Reserve(Top, x, t, TypeSize(t, structs), TypeAlign(t, structs))
  <2>1. AtStatement /\ InFunction /\ SetTop(c) /\ stray' \in BOOLEAN
        /\ UNCHANGED structs
    BY <1>6, EmitType DEF DeclareVar, AtStatement
  <2>2. quirks' = quirks \cup Shadow(Top, x)
           \cup (IF t.ptr > 0 /\ t.arr > 0 THEN {"ptrArray"} ELSE {})
    BY <1>6 DEF DeclareVar
  <2>3. quirks \subseteq quirks' /\ quirks' \subseteq Quirks
    BY <1>0, <2>2, QuirkTypes
  <2>4. c \in Context /\ CtxGood(c, quirks')
    BY <1>0, <2>1, <2>3, TypeLayout, DeclaredGood
  <2> HIDE DEF c
  <2>5. QED  BY <1>0, <2>1, <2>3, <2>4, TopReplaced
<1>7. CASE EndFunction
  <2>1. InFunction /\ ctxStack' = SubSeq(ctxStack, 1, Len(ctxStack) - 1)
        /\ stray' \in BOOLEAN /\ UNCHANGED <<structs, quirks>>
    BY <1>7, EmitType DEF EndFunction, AtStatement
  <2>2. ctxStack \in Seq(Context)  BY DEF IInv
  <2>3. /\ ctxStack' \in Seq(Context)
        /\ \A d \in 1..Len(ctxStack') : d \in 1..Len(ctxStack) /\ ctxStack'[d] = ctxStack[d]
    BY <2>1, <2>2 DEF InFunction
  <2>4. QED  BY <1>0, <2>1, <2>3 DEF IInv
<1>8. ASSUME NEW x \in Names, AssignVar(x)  PROVE  IInv'
  <2>1. stray' \in BOOLEAN /\ UNCHANGED <<structs, ctxStack>>
        /\ quirks' = quirks \cup ValueQuirks(Top.slots[Top.vars[x]].type)
    BY <1>8, EmitType DEF AssignVar
  <2>2. quirks \subseteq quirks' /\ quirks' \subseteq Quirks
    BY <1>0, <2>1, QuirkTypes
  <2>3. QED  BY <1>0, <2>1, <2>2 DEF IInv, CtxGood
<1>9. ASSUME NEW x \in Names, AssignMember(x)  PROVE  IInv'
  <2> DEFINE s == Top.slots[Top.vars[x]]
  <2>1. InFunction /\ Top.vars[x] # 0 /\ IsStructValue(s.type) /\ LookUp(s.type)
        /\ SetTop([Top EXCEPT !.max = Larger(Top.max, Top.cur + 8)])
    BY <1>9 DEF AssignMember
  <2>2. stray' \in BOOLEAN /\ \E n : quirks' = quirks \cup TailQuirk(n)
    BY <1>9, EmitType DEF AssignMember
  <2>3. quirks \subseteq quirks' /\ quirks' \subseteq Quirks
    BY <1>0, <2>2, QuirkTypes
  <2>4. s.type \in VarTypes \cup ValueTypes  BY <2>1, VariableSlot
  <2>5. RegistryOK(structs')  BY <1>0, <2>1, <2>4, StructBase, LookedUp
  <2>6. Top \in Context /\ CtxGood(Top, quirks')  BY <2>1, <2>3, TopTypes DEF CtxGood
  <2>7. QED  BY <2>1, <2>2, <2>3, <2>5, <2>6, MaxRaised, TopReplaced
<1>10. ASSUME NEW x \in Names, AssignElement(x)  PROVE  IInv'
  <2>1. InFunction /\ UNCHANGED structs
        /\ SetTop([Top EXCEPT !.max = Larger(Top.max, Top.cur + 16)])
    BY <1>10 DEF AssignElement
  <2>2. stray' \in BOOLEAN /\ \E e : quirks' = quirks \cup ValueQuirks(e)
    BY <1>10, EmitType DEF AssignElement
  <2>3. quirks \subseteq quirks' /\ quirks' \subseteq Quirks
    BY <1>0, <2>2, QuirkTypes
  <2>4. Top \in Context /\ CtxGood(Top, quirks')  BY <2>1, <2>3, TopTypes DEF CtxGood
  <2>5. QED  BY <1>0, <2>1, <2>2, <2>3, <2>4, MaxRaised, TopReplaced
<1>11. ASSUME NEW q \in Quotas, OpenExpression(q)  PROVE  IInv'
  <2>1. InFunction /\ UNCHANGED <<structs, stray, quirks>>
        /\ SetTop([Top EXCEPT !.pending =
                      Append(Top.pending, [base |-> Len(Top.temps), quota |-> q])])
    BY <1>11 DEF OpenExpression
  <2>2. Top \in Context /\ CtxGood(Top, quirks)  BY <2>1, TopTypes
  <2>3. QED  BY <1>0, <2>1, <2>2, OpenedGood, TopReplaced
<1>12. CASE PushTmp
  <2>1. InFunction /\ Top.pending # <<>> /\ UNCHANGED <<structs, quirks>>
        /\ SetTop([Top EXCEPT !.cur = Top.cur + 8, !.max = Larger(Top.max, Top.cur + 8),
                              !.temps = Append(Top.temps, Top.cur + 8)])
    BY <1>12 DEF PushTmp
  <2>2. stray' \in BOOLEAN  BY <1>12, EmitType DEF PushTmp
  <2>3. Top \in Context /\ CtxGood(Top, quirks)  BY <2>1, TopTypes
  <2>4. QED  BY <1>0, <2>1, <2>2, <2>3, PushedGood, TopReplaced
<1>13. CASE CloseExpression
  <2>1. InFunction /\ Top.pending # <<>> /\ UNCHANGED <<structs, stray, quirks>>
        /\ SetTop([Top EXCEPT
              !.cur = Top.cur - 8 * Held(Top),
              !.temps = SubSeq(Top.temps, 1, LastPending(Top).base),
              !.pending = SubSeq(Top.pending, 1, Len(Top.pending) - 1)])
    BY <1>13 DEF CloseExpression
  <2>2. Top \in Context /\ CtxGood(Top, quirks)  BY <2>1, TopTypes
  <2>3. QED  BY <1>0, <2>1, <2>2, ClosedGood, TopReplaced
<1>14. CASE UNCHANGED vars
  BY <1>14 DEF vars, IInv
<1>15. QED
  BY <1>1, <1>2, <1>3, <1>4, <1>5, <1>6, <1>7, <1>8, <1>9, <1>10, <1>11, <1>12,
     <1>13, <1>14 DEF Next

\* IInv holds throughout every visit of every program.
THEOREM Invariance == Spec => []IInv
BY InitIInv, StepIInv, PTL DEF Spec

----------------------------------------------------------------------------
(* The properties of Frame follow *)

\* TypeOK: the visitor's state is well typed, and a name always points to a
\* slot of its own function.
THEOREM TypeCorrect == Spec => []TypeOK
<1>1. IInv => TypeOK
  <2> SUFFICES ASSUME IInv  PROVE  TypeOK
    OBVIOUS
  <2>1. \A d \in 1..Len(ctxStack) :
          /\ \A x \in Names : ctxStack[d].vars[x] <= Len(ctxStack[d].slots)
          /\ \A i \in 1..Len(ctxStack[d].params) :
               /\ ctxStack[d].params[i].slot \in 1..Len(ctxStack[d].slots)
               /\ ctxStack[d].vars[ctxStack[d].params[i].name] # 0
    BY DEF IInv, CtxGood, CtxLayout
  <2>2. QED  BY <2>1 DEF IInv, RegistryOK, TypeOK
<1>2. QED  BY <1>1, Invariance, PTL

\* TempsLIFO: subtracting 8 gives back the temporary the node remembers.
THEOREM TemporariesLIFO == Spec => []TempsLIFO
<1>1. IInv => TempsLIFO
  BY DEF IInv, CtxGood, CtxLayout, TempsLIFO
<1>2. QED  BY <1>1, Invariance, PTL

\* SlotsDisjoint: no byte of a frame is given out twice, whatever sizes and
\* alignments the program's types have.
THEOREM StorageDisjoint == Spec => []SlotsDisjoint
<1>1. IInv => SlotsDisjoint
  <2> SUFFICES ASSUME IInv, "undeclared" \notin quirks, NEW d \in 1..Len(ctxStack)
               PROVE  LET c == ctxStack[d]
                      IN  /\ \A i, j \in 1..Len(c.slots) :
                               i < j => c.slots[i].hi <= c.slots[j].lo
                          /\ \A i \in 1..Len(c.slots), k \in 1..Len(c.temps) :
                               c.slots[i].hi <= c.temps[k] - 8
                          /\ \A k, l \in 1..Len(c.temps) :
                               k < l => c.temps[k] <= c.temps[l] - 8
    BY DEF SlotsDisjoint
  <2> DEFINE c == ctxStack[d]
  <2>1. CtxLayout(c) /\ CtxOrdered(c) /\ c \in Context
    BY DEF IInv, CtxGood, CtxLayout
  <2> HIDE DEF c
  <2>2. \A i, j \in 1..Len(c.slots) : i < j => c.slots[i].hi <= c.slots[j].lo
    BY <2>1 DEF CtxOrdered
  <2>3. c.cur \in Nat /\ Len(c.temps) \in Nat  BY <2>1 DEF Context
  <2>4. ASSUME NEW i \in 1..Len(c.slots), NEW k \in 1..Len(c.temps)
        PROVE  c.slots[i].hi <= c.temps[k] - 8
    <3>1. c.slots[i].hi \in Nat /\ c.slots[i].hi <= c.cur - 8 * Len(c.temps)
      BY <2>1, SlotTypes DEF CtxOrdered
    <3>2. c.temps[k] = c.cur - 8 * (Len(c.temps) - k)  BY <2>1 DEF CtxLayout
    <3> DEFINE n == Len(c.temps)
    <3>3. n \in Nat /\ k \in 1..n  BY <2>3
    <3> HIDE DEF n
    <3>4. c.cur - 8 * n <= (c.cur - 8 * (n - k)) - 8  BY <2>3, <3>3
    <3>5. (c.cur - 8 * (n - k)) - 8 \in Int /\ c.cur - 8 * n \in Int  BY <2>3, <3>3
    <3>6. c.slots[i].hi <= (c.cur - 8 * (n - k)) - 8  BY <3>1, <3>4, <3>5 DEF n
    <3>7. QED  BY <3>2, <3>6 DEF n
  <2>5. \A k \in 1..Len(c.temps) : c.temps[k] = c.cur - 8 * (Len(c.temps) - k)
    BY <2>1 DEF CtxLayout
  <2>6. \A k, l \in 1..Len(c.temps) : k < l => c.temps[k] <= c.temps[l] - 8
    BY <2>3, <2>5
  <2>7. QED  BY <2>2, <2>4, <2>6 DEF c
<1>2. QED  BY <1>1, Invariance, PTL

\* FrameCoversBody: the prologue reserves every byte handed out in the body.
THEOREM FrameCovers == Spec => []FrameCoversBody
<1>1. IInv => FrameCoversBody
  <2> SUFFICES ASSUME IInv, NEW d \in 1..Len(ctxStack)
               PROVE  LET c == ctxStack[d]
                      IN  /\ \A i \in 1..Len(c.slots) :
                               32 + c.slots[i].hi <= FrameSize(c)
                          /\ \A k \in 1..Len(c.temps) : 32 + c.temps[k] <= FrameSize(c)
    BY DEF FrameCoversBody
  <2> DEFINE c == ctxStack[d]
  <2>1. CtxLayout(c) /\ c \in Context
    BY DEF IInv, CtxGood, CtxLayout
  <2> HIDE DEF c
  <2>2. c.cur \in Nat /\ c.max \in Nat /\ Len(c.temps) \in Nat /\ c.cur <= c.max
    BY <2>1 DEF Context, CtxLayout
  <2>3. Align16(c.max) \in Nat /\ c.max <= Align16(c.max)  BY <2>2, Align16Bounds
  <2>4. \A i \in 1..Len(c.slots) : c.slots[i].hi \in Nat /\ c.slots[i].hi <= c.max
    BY <2>1, SlotTypes DEF CtxLayout
  <2>5. \A k \in 1..Len(c.temps) : c.temps[k] = c.cur - 8 * (Len(c.temps) - k)
    BY <2>1 DEF CtxLayout
  <2>6. \A k \in 1..Len(c.temps) : c.temps[k] <= c.cur  BY <2>2, <2>5
  <2>7. \A k \in 1..Len(c.temps) : c.temps[k] \in Int  BY <2>2, <2>5
  <2>8. \A i \in 1..Len(c.slots) : 32 + c.slots[i].hi <= FrameSize(c)
    BY <2>2, <2>3, <2>4 DEF FrameSize
  <2>9. \A k \in 1..Len(c.temps) : 32 + c.temps[k] <= FrameSize(c)
    BY <2>2, <2>3, <2>6, <2>7 DEF FrameSize
  <2>10. QED  BY <2>8, <2>9 DEF c
<1>2. QED  BY <1>1, Invariance, PTL

\* WordsAligned: a scalar or a pointer lies at a multiple of its size.
THEOREM Aligned == Spec => []WordsAligned
<1>1. IInv => WordsAligned
  BY DEF IInv, CtxGood, CtxLayout, WordsAligned
<1>2. QED  BY <1>1, Invariance, PTL

\* CallsWellFormed: the stack is aligned at every call, with any number of
\* arguments, and caller and callee agree on where they are.
THEOREM CallsAgree == Spec => []CallsWellFormed
<1>1. IInv => CallsWellFormed
  <2> SUFFICES ASSUME IInv, NEW d \in 1..Len(ctxStack), NEW n \in 0..MaxArgs
               PROVE  /\ (FrameSize(ctxStack[d]) + CallFrame(n)) % 16 = 0
                      /\ \A i \in 4..n - 1 :
                           /\ 32 <= OutgoingArg(i) /\ OutgoingArg(i) + 8 <= CallFrame(n)
                           /\ IncomingArg(i) - 16 = OutgoingArg(i)
    BY DEF CallsWellFormed
  <2>1. n \in Nat  BY BoundsAssumption
  <2>2. CallFrame(n) \in Nat /\ CallFrame(n) % 16 = 0  BY <2>1 DEF CallFrame
  <2>3. ctxStack[d].max \in Nat
    <3>1. ctxStack[d] \in Context  BY DEF IInv, CtxGood, CtxLayout
    <3>2. QED  BY <3>1 DEF Context
  <2>4. FrameSize(ctxStack[d]) \in Nat /\ FrameSize(ctxStack[d]) % 16 = 0
    <3> DEFINE h == Align16(ctxStack[d].max)
    <3>1. h \in Nat /\ h % 16 = 0  BY <2>3, Align16Bounds
    <3>2. FrameSize(ctxStack[d]) = 32 + h  BY DEF FrameSize
    <3> HIDE DEF h
    <3>3. QED  BY <3>1, <3>2
  <2>5. (FrameSize(ctxStack[d]) + CallFrame(n)) % 16 = 0  BY <2>2, <2>4
  <2>6. ASSUME NEW i \in 4..n - 1
        PROVE  /\ 32 <= OutgoingArg(i) /\ OutgoingArg(i) + 8 <= CallFrame(n)
               /\ IncomingArg(i) - 16 = OutgoingArg(i)
    BY <2>1 DEF OutgoingArg, IncomingArg, CallFrame
  <2>7. QED  BY <2>5, <2>6
<1>2. QED  BY <1>1, Invariance, PTL

----------------------------------------------------------------------------
(* Stores.  A program without quirks writes only to the storage it means:  *)
(* the invariant ties each slot to the type it was declared with, for as   *)
(* long as the function is open, whatever structs are declared meanwhile.  *)

\* An array whose elements are pointers.
PointerArray(t) == t.ptr > 0 /\ t.arr > 0

\* Slot s still has room for its type, all elements of an array included, and a
\* struct's layout is known.
FitsIn(s, r) ==
    /\ TypeSize(s.type, r) <= s.hi - s.lo
    /\ ~PointerArray(s.type)
    /\ IsStructValue(s.type) => s.type.base \in DOMAIN r /\ r[s.type.base] # NoLayout

\* A parameter's name points to its own slot, which its store does not leave.
ParamsKept(c) ==
    \A i \in 1..Len(c.params) :
        LET own == c.slots[c.params[i].slot]
        IN  /\ c.vars[c.params[i].name] = c.params[i].slot
            /\ StoreWidth(own.hi - own.lo) <= own.hi - own.lo

CtxFits(c, r) == (\A i \in 1..Len(c.slots) : FitsIn(c.slots[i], r)) /\ ParamsKept(c)

FInv == quirks = {} => ~stray /\ \A d \in 1..Len(ctxStack) : CtxFits(ctxStack[d], structs)

----------------------------------------------------------------------------
(* Stores *)

LEMMA StoreInside ==
    ASSUME NEW s, s.lo \in Nat, s.hi \in Nat, NEW k \in Nat, NEW w \in Nat,
           k + w <= s.hi - s.lo
    PROVE  InSlot(Store(s, s, k, w))
BY DEF InSlot, Store

LEMMA EmitInside ==
    ASSUME NEW S, Emit(S), ~stray, \A st \in S : InSlot(st)
    PROVE  ~stray'
BY DEF Emit

LEMMA WidthBounds == \A n : StoreWidth(n) \in {1, 2, 4, 8}
BY DEF StoreWidth

LEMMA NoTail ==
    ASSUME NEW n \in Nat, TailQuirk(n) = {}
    PROVE  StoreWidth(n) <= n /\ n > 0
BY DEF TailQuirk, StoreWidth

LEMMA NoValueQuirk ==
    ASSUME NEW t, TypeSize(t, structs) \in Nat, ValueQuirks(t) = {}
    PROVE  /\ StoreWidth(TypeSize(t, structs)) <= TypeSize(t, structs)
           /\ TypeSize(t, structs) > 0
           /\ ~PointerArray(t)
<1>1. TailQuirk(TypeSize(t, structs)) = {}  BY DEF ValueQuirks
<1>2. QED  BY <1>1, NoTail DEF ValueQuirks, PointerArray

\* An element of an array, at its place in the array.
LEMMA ElementInside ==
    ASSUME NEW n \in Nat, NEW a \in Nat, NEW k \in 0..a - 1
    PROVE  k * n \in Nat /\ k * n + n <= n * a
<1>1. k * n \in Nat /\ n * a \in Nat  BY ProductNat
<1> DEFINE m == a - 1 - k
<1>2. m \in Nat /\ a = k + 1 + m  OBVIOUS
<1> HIDE DEF m
<1>3. n * m \in Nat  BY <1>2, ProductNat
<1>4. n * a = k * n + n + n * m  BY <1>2
<1>5. QED  BY <1>1, <1>3, <1>4

----------------------------------------------------------------------------
(* Slots and the registry *)

\* No layout that is known is replaced.
Extends(r, r2) == \A b \in DOMAIN r : r[b] # NoLayout => b \in DOMAIN r2 /\ r2[b] = r[b]

LEMMA FitsLater ==
    ASSUME NEW s, s.type \in AllTypes, NEW r, NEW r2, Extends(r, r2), FitsIn(s, r)
    PROVE  FitsIn(s, r2)
<1>1. CASE IsStructValue(s.type)
  <2>1. s.type.base \in DOMAIN r2 /\ r2[s.type.base] = r[s.type.base] /\ s.type.base \in DOMAIN r
        /\ r[s.type.base] # NoLayout
    BY <1>1 DEF FitsIn, Extends
  <2>2. TypeSize(s.type, r2) = TypeSize(s.type, r)  BY <2>1 DEF TypeSize
  <2>3. QED  BY <2>1, <2>2 DEF FitsIn
<1>2. CASE ~IsStructValue(s.type)
  <2>1. TypeSize(s.type, r2) = TypeSize(s.type, r)
    <3>1. CASE s.type.ptr > 0  BY <3>1 DEF TypeSize, SizeWith
    <3>2. CASE s.type.base \in Scalars  BY <3>2 DEF TypeSize
    <3>3. QED  BY <1>2, <3>1, <3>2 DEF IsStructValue, AllTypes, TypeRecord
  <2>2. QED  BY <1>2, <2>1 DEF FitsIn
<1>3. QED  BY <1>1, <1>2

LEMMA ContextLater ==
    ASSUME NEW c \in Context, NEW r, NEW r2, Extends(r, r2), CtxFits(c, r)
    PROVE  CtxFits(c, r2)
<1>1. \A i \in 1..Len(c.slots) : FitsIn(c.slots[i], r2)
  <2> TAKE i \in 1..Len(c.slots)
  <2>1. c.slots[i].type \in AllTypes  BY SlotTypes
  <2>2. FitsIn(c.slots[i], r)  BY DEF CtxFits
  <2>3. QED  BY <2>1, <2>2, FitsLater
<1>2. QED  BY <1>1 DEF CtxFits

\* A value that has a size and is a struct is one of a known struct.
LEMMA SizedIsKnown ==
    ASSUME RegistryOK(structs), NEW t \in AllTypes, TypeSize(t, structs) > 0, IsStructValue(t)
    PROVE  t.base \in DOMAIN structs /\ structs[t.base] # NoLayout
<1>1. t.ptr = 0 /\ t.base \notin Scalars /\ t.arr \in Nat
  BY DEF IsStructValue, AllTypes, TypeRecord
<1>2. ASSUME NEW n, n = 0  PROVE ~(SizeWith(t, n) > 0)
  BY <1>1, <1>2 DEF SizeWith
<1>3. t.base \in DOMAIN structs
  <2>1. SUFFICES ASSUME t.base \notin DOMAIN structs  PROVE FALSE  OBVIOUS
  <2>2. TypeSize(t, structs) = SizeWith(t, 0)  BY <1>1, <2>1 DEF TypeSize
  <2>3. QED  BY <2>2, <1>2
<1>4. structs[t.base] # NoLayout
  <2>1. SUFFICES ASSUME structs[t.base] = NoLayout  PROVE FALSE  OBVIOUS
  <2>2. structs[t.base].size = 0  BY <2>1 DEF NoLayout
  <2>3. TypeSize(t, structs) = SizeWith(t, 0)  BY <1>1, <1>3, <2>2 DEF TypeSize
  <2>4. QED  BY <2>3, <1>2
<1>5. QED  BY <1>3, <1>4

\* What LookUp leaves as it was.
LEMMA LookUpExtends ==
    ASSUME NEW t, LookUp(t)
    PROVE  /\ Extends(structs, structs')
           /\ t.base \in DOMAIN structs' /\ structs'[t.base] = LayoutOf(t)
BY DEF LookUp, LayoutOf, Extends

----------------------------------------------------------------------------
(* Contexts *)

\* The innermost context is replaced, the others stay.
LEMMA TopFits ==
    ASSUME IInv, InFunction, FInv, NEW c \in Context, SetTop(c), CtxFits(c, structs'),
           Extends(structs, structs'), quirks = {}, ~stray'
    PROVE  FInv'
<1>1. ctxStack \in Seq(Context) /\ \A d \in 1..Len(ctxStack) : CtxFits(ctxStack[d], structs)
  BY DEF IInv, FInv
<1>2. Len(ctxStack') = Len(ctxStack) /\ ctxStack' = [ctxStack EXCEPT ![Len(ctxStack)] = c]
  BY <1>1 DEF SetTop, InFunction
<1>3. ASSUME NEW d \in 1..Len(ctxStack)  PROVE CtxFits(ctxStack'[d], structs')
  <2>1. CASE d = Len(ctxStack)
    <3>1. ctxStack'[d] = c  BY <1>1, <1>2, <2>1
    <3>2. QED  BY <3>1
  <2>2. CASE d # Len(ctxStack)
    <3>0. ctxStack[d] \in Context  BY <1>1, ElementOfSeq
    <3>1. ctxStack'[d] = ctxStack[d]
      <4>1. ctxStack \in Seq(Context)  BY <1>1
      <4>2. QED  BY <4>1, <2>2 DEF SetTop
    <3>2. CtxFits(ctxStack[d], structs)  BY <1>1
    <3>3. CtxFits(ctxStack[d], structs')  BY <3>0, <3>2, ContextLater
    <3>4. QED  BY <3>1, <3>3
  <2>3. QED  BY <2>1, <2>2
<1>4. QED  BY <1>2, <1>3 DEF FInv

LEMMA TopOf ==
    ASSUME IInv, InFunction, FInv, quirks = {}
    PROVE  /\ Top \in Context /\ CtxFits(Top, structs) /\ CtxLayout(Top)
           /\ ~stray /\ RegistryOK(structs)
<1>1. ctxStack \in Seq(Context) /\ Len(ctxStack) \in 1..Len(ctxStack)
  BY DEF IInv, InFunction
<1>2. QED  BY <1>1, TopTypes DEF FInv, IInv, Top

\* A context with its slots, names and parameters unchanged.
LEMMA SameFits ==
    ASSUME NEW c, NEW c2, NEW r, CtxFits(c, r),
           c2.slots = c.slots, c2.vars = c.vars, c2.params = c.params
    PROVE  CtxFits(c2, r)
BY DEF CtxFits, ParamsKept

\* One more slot, for a name that is not a parameter's.
LEMMA ReservedFits ==
    ASSUME NEW c \in Context, CtxLayout(c), NEW x \in Names, NEW t \in VarTypes \cup ValueTypes,
           NEW sz \in Nat, NEW a \in 0..8, NEW r,
           CtxFits(c, r), FitsIn(NewSlot(c, t, sz, a), r), Shadow(c, x) = {}
    PROVE  CtxFits(Reserve(c, x, t, sz, a), r)
<1> DEFINE s == NewSlot(c, t, sz, a)
           c2 == Reserve(c, x, t, sz, a)
<1>1. s \in Slot  BY NewSlotShape
<1>2. /\ c2.slots = Append(c.slots, s) /\ c2.params = c.params
      /\ c2.vars = [c.vars EXCEPT ![x] = Len(c.slots) + 1]
  BY DEF Reserve, Context
<1>3. /\ c.slots \in Seq(Slot) /\ c.vars \in [Names -> Nat] /\ c.params \in Seq(Param)
  BY DEF Context
<1> HIDE DEF s, c2
<1>4. /\ Len(c2.slots) = Len(c.slots) + 1 /\ Len(c.slots) \in Nat
      /\ c2.slots[Len(c.slots) + 1] = s
      /\ \A i \in 1..Len(c.slots) : c2.slots[i] = c.slots[i]
  BY <1>1, <1>2, <1>3
<1>5. ASSUME NEW i \in 1..Len(c2.slots)  PROVE FitsIn(c2.slots[i], r)
  <2>1. CASE i = Len(c.slots) + 1
    <3>1. FitsIn(s, r)  BY DEF s
    <3>2. QED  BY <2>1, <3>1, <1>4
  <2>2. CASE i \in 1..Len(c.slots)
    <3>1. FitsIn(c.slots[i], r)  BY <2>2 DEF CtxFits
    <3>2. QED  BY <2>2, <3>1, <1>4
  <2>3. QED  BY <2>1, <2>2, <1>4
<1>6. ASSUME NEW i \in 1..Len(c2.params)
      PROVE  LET own == c2.slots[c2.params[i].slot]
             IN  /\ c2.vars[c2.params[i].name] = c2.params[i].slot
                 /\ StoreWidth(own.hi - own.lo) <= own.hi - own.lo
  <2>1. i \in 1..Len(c.params) /\ c2.params[i] = c.params[i]  BY <1>2
  <2>2. c.params[i] \in Param  BY <1>3, <2>1
  <2>3. c.params[i].name \in Names /\ c.params[i].name # x
    BY <2>1, <2>2 DEF Shadow, ParamNames, Param
  <2>4. c2.vars[c.params[i].name] = c.vars[c.params[i].name]  BY <1>2, <1>3, <2>3
  <2>5. c.params[i].slot \in 1..Len(c.slots)  BY <2>1 DEF CtxLayout
  <2>6. c2.slots[c.params[i].slot] = c.slots[c.params[i].slot]  BY <2>5, <1>4
  <2>7. LET own == c.slots[c.params[i].slot]
        IN  /\ c.vars[c.params[i].name] = c.params[i].slot
            /\ StoreWidth(own.hi - own.lo) <= own.hi - own.lo
    BY <2>1 DEF CtxFits, ParamsKept
  <2>8. QED  BY <2>1, <2>4, <2>6, <2>7
<1>7. CtxFits(c2, r)  BY <1>5, <1>6 DEF CtxFits, ParamsKept
<1>8. QED  BY <1>7 DEF c2
----------------------------------------------------------------------------
(* The invariant is inductive *)

\* visit(StructDefNode) without "relayout" keeps every layout that is known.
LEMMA DeclareStructFits ==
    ASSUME IInv, FInv, NEW s \in StructNames, DeclareStruct(s)
    PROVE  FInv'
<1> SUFFICES ASSUME quirks' = {}  PROVE ~stray' /\ \A d \in 1..Len(ctxStack') : CtxFits(ctxStack'[d], structs')
  BY DEF FInv
<1>1. PICK i \in Layouts[s] :
        /\ structs' = [r \in DOMAIN structs \cup {s} |-> IF r = s THEN i ELSE structs[r]]
        /\ quirks' = quirks \cup
              (IF s \in DOMAIN structs /\ structs[s] # i /\ structs[s].align # 0
               THEN {"relayout"} ELSE {})
        /\ UNCHANGED <<ctxStack, stray>>
  BY DEF DeclareStruct
<1>2. quirks = {} /\ ~(s \in DOMAIN structs /\ structs[s] # i /\ structs[s].align # 0)
  BY <1>1
<1>3. ASSUME NEW b \in DOMAIN structs, structs[b] # NoLayout
      PROVE  b \in DOMAIN structs' /\ structs'[b] = structs[b]
  <2>1. structs[b].align # 0  BY <1>3, RegistryFields DEF IInv
  <2>2. QED  BY <1>1, <1>2, <2>1
<1>4. Extends(structs, structs')  BY <1>3 DEF Extends
<1>5. ASSUME NEW d \in 1..Len(ctxStack)  PROVE CtxFits(ctxStack[d], structs')
  <2>1. ctxStack[d] \in Context  BY ElementOfSeq DEF IInv
  <2>2. CtxFits(ctxStack[d], structs)  BY <1>2 DEF FInv
  <2>3. QED  BY <2>1, <2>2, <1>4, ContextLater
<1>6. QED  BY <1>1, <1>2, <1>5 DEF FInv

LEMMA BeginFunctionFits ==
    ASSUME IInv, FInv, BeginFunction
    PROVE  FInv'
<1>1. ctxStack' = Append(ctxStack, EmptyContext) /\ UNCHANGED <<structs, stray, quirks>>
  BY DEF BeginFunction
<1>2. ctxStack \in Seq(Context) /\ EmptyContext \in Context  BY EmptyGood DEF IInv
<1>3. Len(ctxStack') = Len(ctxStack) + 1 /\ Len(ctxStack) \in Nat  BY <1>1, <1>2
<1>4. CtxFits(EmptyContext, structs)  BY DEF CtxFits, ParamsKept, EmptyContext
<1>5. ASSUME quirks = {}, NEW d \in 1..Len(ctxStack')  PROVE CtxFits(ctxStack'[d], structs)
  <2>1. CASE d = Len(ctxStack) + 1
    <3>1. ctxStack'[d] = EmptyContext  BY <1>1, <1>2, <2>1
    <3>2. QED  BY <3>1, <1>4
  <2>2. CASE d \in 1..Len(ctxStack)
    <3>1. ctxStack'[d] = ctxStack[d]  BY <1>1, <1>2, <2>2
    <3>2. CtxFits(ctxStack[d], structs)  BY <1>5, <2>2 DEF FInv
    <3>3. QED  BY <3>1, <3>2
  <2>3. QED  BY <2>1, <2>2, <1>3
<1>6. QED  BY <1>1, <1>5 DEF FInv

\* What the declarations of parameters, constants and other variables share: the
\* slot has the size of its type, and a struct that has a size is known.
LEMMA DeclaredFits ==
    ASSUME IInv, FInv, InFunction, quirks = {}, NEW x \in Names, NEW t \in VarTypes \cup ValueTypes,
           Shadow(Top, x) = {}, ~PointerArray(t), IsStructValue(t) => TypeSize(t, structs) > 0
    PROVE  LET sz == TypeSize(t, structs)
               a  == TypeAlign(t, structs)
           IN  /\ CtxFits(Reserve(Top, x, t, sz, a), structs)
               /\ sz \in Nat /\ a \in 0..8
               /\ NewSlot(Top, t, sz, a).lo \in Nat /\ NewSlot(Top, t, sz, a).hi \in Nat
               /\ NewSlot(Top, t, sz, a).hi - NewSlot(Top, t, sz, a).lo = sz
<1> DEFINE sz == TypeSize(t, structs)
           a  == TypeAlign(t, structs)
           s  == NewSlot(Top, t, sz, a)
<1>1. Top \in Context /\ CtxFits(Top, structs) /\ CtxLayout(Top) /\ RegistryOK(structs)
  BY TopOf
<1>2. sz \in Nat /\ a \in 0..8  BY <1>1, TypeLayout
<1>3. t \in AllTypes  BY TypesAssumption DEF AllTypes
<1>4. IsStructValue(t) => t.base \in DOMAIN structs /\ structs[t.base] # NoLayout
  BY <1>1, <1>3, SizedIsKnown
<1> HIDE DEF sz, a
<1>5. s \in Slot /\ s.type = t /\ s.lo = AlignUp(Top.cur, a) /\ s.hi = AlignUp(Top.cur, a) + sz
  BY <1>1, <1>2, NewSlotShape
<1>6. s.lo \in Nat /\ s.hi \in Nat  BY <1>5 DEF Slot
<1>7. s.hi - s.lo = sz  BY <1>2, <1>5, <1>6
<1>8. FitsIn(s, structs)
  <2>1. TypeSize(s.type, structs) <= s.hi - s.lo  BY <1>2, <1>5, <1>7 DEF sz
  <2>2. QED  BY <2>1, <1>4, <1>5 DEF FitsIn
<1>9. CtxFits(Reserve(Top, x, t, sz, a), structs)
  BY <1>1, <1>2, <1>8, ReservedFits
<1>10. QED  BY <1>2, <1>6, <1>7, <1>9 DEF sz, a

\* A parameter is recorded, whose name points to the last slot.
LEMMA ParamFits ==
    ASSUME NEW c \in Context, NEW r, CtxFits(c, r), NEW x \in Names, NEW n \in 1..Len(c.slots),
           c.vars[x] = n,
           StoreWidth(c.slots[n].hi - c.slots[n].lo) <= c.slots[n].hi - c.slots[n].lo
    PROVE  LET c2 == [c EXCEPT !.params = Append(c.params, [name |-> x, slot |-> n])]
           IN  c2 \in Context /\ CtxFits(c2, r)
<1> DEFINE p  == [name |-> x, slot |-> n]
           c2 == [c EXCEPT !.params = Append(c.params, p)]
<1>1. Len(c.slots) \in Nat  BY SlotTypes
<1>2. p \in Param /\ p.name = x /\ p.slot = n  BY <1>1 DEF Param
<1> HIDE DEF p
<1>3. c.params \in Seq(Param)  BY DEF Context
<1>4. Append(c.params, p) \in Seq(Param)  BY <1>2, <1>3
<1>5. c2 \in Context  BY <1>4 DEF Context
<1>6. c2.vars = c.vars /\ c2.slots = c.slots /\ c2.params = Append(c.params, p)
  BY DEF Context
<1> HIDE DEF c2
<1>7. ASSUME NEW i \in 1..Len(c2.params)
      PROVE  LET own == c2.slots[c2.params[i].slot]
             IN  /\ c2.vars[c2.params[i].name] = c2.params[i].slot
                 /\ StoreWidth(own.hi - own.lo) <= own.hi - own.lo
  <2>1. CASE i \in 1..Len(c.params)
    <3>1. c2.params[i] = c.params[i]  BY <2>1, <1>6, <1>3, <1>2
    <3>2. ParamsKept(c)  BY DEF CtxFits
    <3>3. QED  BY <2>1, <3>1, <3>2, <1>6 DEF ParamsKept
  <2>2. CASE i = Len(c.params) + 1
    <3>1. c2.params[i] = p  BY <2>2, <1>6, <1>3, <1>2
    <3>2. QED  BY <3>1, <1>2, <1>6
  <2>3. QED  BY <2>1, <2>2, <1>2, <1>3, <1>6
<1>8. CtxFits(c2, r)  BY <1>6, <1>7 DEF CtxFits, ParamsKept
<1>9. QED  BY <1>5, <1>8 DEF c2, p

LEMMA AddParamFits ==
    ASSUME IInv, FInv, NEW x \in Names, NEW t \in ValueTypes, AddParam(x, t)
    PROVE  FInv'
<1> SUFFICES ASSUME quirks' = {}  PROVE FInv'
  BY DEF FInv
<1> DEFINE sz == TypeSize(t, structs)
           a  == TypeAlign(t, structs)
           c  == Reserve(Top, x, t, sz, a)
           s  == NewSlot(Top, t, sz, a)
<1>1. /\ InFunction /\ UNCHANGED <<structs, stray>>
      /\ quirks = {} /\ ValueQuirks(t) = {} /\ Shadow(Top, x) = {}
  BY DEF AddParam, AtStatement
<1>2. SetTop([c EXCEPT !.params = Append(Top.params, [name |-> x, slot |-> Len(c.slots)])])
  BY DEF AddParam
<1>3. Top \in Context /\ RegistryOK(structs) /\ ~stray  BY <1>1, TopOf
<1>4. sz \in Nat /\ a \in 0..8  BY <1>3, TypeLayout
<1>5. StoreWidth(sz) <= sz /\ sz > 0 /\ ~PointerArray(t)  BY <1>1, <1>4, NoValueQuirk
<1>6. CtxFits(c, structs) /\ s.hi - s.lo = sz  BY <1>1, <1>5, DeclaredFits
<1>7. c.vars = [Top.vars EXCEPT ![x] = Len(Top.slots) + 1] /\ Top.vars \in [Names -> Nat]
  BY <1>3 DEF Reserve, Context
<1> HIDE DEF sz, a, s
<1>8. t \in VarTypes \cup ValueTypes  OBVIOUS
<1>9. /\ c \in Context /\ Len(Top.slots) \in Nat /\ Len(c.slots) = Len(Top.slots) + 1
      /\ c.slots[Len(Top.slots) + 1] = s /\ c.params = Top.params
  BY <1>3, <1>4, <1>8, ReserveShape DEF s
<1> HIDE DEF c
<1> DEFINE n == Len(c.slots)
<1>10. n \in 1..Len(c.slots) /\ c.vars[x] = n /\ c.slots[n] = s
  BY <1>7, <1>9
<1>11. SetTop([c EXCEPT !.params = Append(c.params, [name |-> x, slot |-> n])])
  BY <1>2, <1>9
<1>12. StoreWidth(c.slots[n].hi - c.slots[n].lo) <= c.slots[n].hi - c.slots[n].lo
  BY <1>5, <1>6, <1>10
<1>13. Extends(structs, structs') /\ structs' = structs /\ ~stray'
  BY <1>1, <1>3 DEF Extends
<1> HIDE DEF n
<1> DEFINE c2 == [c EXCEPT !.params = Append(c.params, [name |-> x, slot |-> n])]
<1>14. c2 \in Context /\ CtxFits(c2, structs)
  BY <1>6, <1>9, <1>10, <1>12, ParamFits
<1> HIDE DEF c2
<1>15. SetTop(c2) /\ CtxFits(c2, structs')  BY <1>11, <1>13, <1>14 DEF c2
<1>16. QED  BY <1>1, <1>13, <1>14, <1>15, TopFits

LEMMA DeclareConstFits ==
    ASSUME IInv, FInv, NEW x \in Names, NEW t \in ValueTypes, DeclareConst(x, t)
    PROVE  FInv'
<1> SUFFICES ASSUME quirks' = {}  PROVE FInv'
  BY DEF FInv
<1> DEFINE sz == TypeSize(t, structs)
           a  == TypeAlign(t, structs)
           c  == Reserve(Top, x, t, sz, a)
           s  == NewSlot(Top, t, sz, a)
<1>1. /\ InFunction /\ SetTop(c) /\ UNCHANGED structs
      /\ Emit({Store(s, s, 0, StoreWidth(sz))})
      /\ quirks = {} /\ ValueQuirks(t) = {} /\ Shadow(Top, x) = {}
  BY DEF DeclareConst, AtStatement
<1>2. Top \in Context /\ RegistryOK(structs) /\ ~stray
  BY <1>1, TopOf
<1>3. sz \in Nat /\ a \in 0..8  BY <1>2, TypeLayout
<1>4. StoreWidth(sz) <= sz /\ sz > 0 /\ ~PointerArray(t)  BY <1>1, <1>3, NoValueQuirk
<1>5. CtxFits(c, structs) /\ s.lo \in Nat /\ s.hi \in Nat /\ s.hi - s.lo = sz
  BY <1>1, <1>4, DeclaredFits
<1> HIDE DEF sz, a
<1>6. c \in Context  BY <1>2, <1>3, ReserveShape
<1> HIDE DEF s, c
<1>7. InSlot(Store(s, s, 0, StoreWidth(sz)))
  BY <1>3, <1>4, <1>5, WidthBounds, StoreInside
<1>8. ~stray'  BY <1>1, <1>2, <1>7, EmitInside
<1>9. QED  BY <1>1, <1>5, <1>6, <1>8, TopFits DEF Extends

LEMMA DeclareVarFits ==
    ASSUME IInv, FInv, NEW x \in Names, NEW t \in VarTypes, NEW init \in BOOLEAN,
           DeclareVar(x, t, init)
    PROVE  FInv'
<1> SUFFICES ASSUME quirks' = {}  PROVE FInv'
  BY DEF FInv
<1> DEFINE sz == TypeSize(t, structs)
           a  == TypeAlign(t, structs)
           c  == Reserve(Top, x, t, sz, a)
           s  == NewSlot(Top, t, sz, a)
           S  == IF t.arr = 0 THEN {Store(s, s, 0, StoreWidth(sz))}
                 ELSE IF init THEN {} ELSE {Store(s, s, k, 1) : k \in 0..sz - 1}
<1>1. /\ InFunction /\ SetTop(c) /\ UNCHANGED structs /\ Emit(S) /\ ~IsStructValue(t)
      /\ quirks = {} /\ Shadow(Top, x) = {} /\ ~PointerArray(t)
  BY DEF DeclareVar, AtStatement, PointerArray
<1>2. Top \in Context /\ RegistryOK(structs) /\ ~stray
  BY <1>1, TopOf
<1>3. sz \in Nat /\ a \in 0..8 /\ (IsWord(t) => sz \in {1, 2, 4, 8})  BY <1>2, TypeLayout
<1>4. CtxFits(c, structs) /\ s.lo \in Nat /\ s.hi \in Nat /\ s.hi - s.lo = sz
  BY <1>1, DeclaredFits
<1> HIDE DEF sz, a
<1>5. c \in Context  BY <1>2, <1>3, ReserveShape
<1> HIDE DEF s, c
<1>6. ASSUME NEW st \in S  PROVE InSlot(st)
  <2>1. CASE t.arr = 0
    <3>1. StoreWidth(sz) = sz  BY <1>1, <1>3, <2>1 DEF IsWord, StoreWidth
    <3>2. st = Store(s, s, 0, sz)  BY <2>1, <3>1
    <3>3. 0 + sz <= s.hi - s.lo  BY <1>3, <1>4
    <3>4. InSlot(Store(s, s, 0, sz))  BY <1>3, <1>4, <3>3, StoreInside
    <3>5. QED  BY <3>2, <3>4
  <2>2. CASE t.arr # 0
    <3>0. ~init /\ S = {Store(s, s, k, 1) : k \in 0..sz - 1}  BY <2>2
    <3>1. PICK k \in 0..sz - 1 : st = Store(s, s, k, 1)  BY <3>0
    <3>2. k \in Nat /\ k + 1 <= s.hi - s.lo  BY <1>3, <1>4, <3>1
    <3>3. InSlot(Store(s, s, k, 1))  BY <1>4, <3>2, StoreInside
    <3>4. QED  BY <3>1, <3>3
  <2>3. QED  BY <2>1, <2>2
<1> HIDE DEF S
<1>7. ~stray'  BY <1>1, <1>2, <1>6, EmitInside
<1>8. QED  BY <1>1, <1>4, <1>5, <1>7, TopFits DEF Extends
LEMMA DeclareStructVarFits ==
    ASSUME IInv, FInv, NEW x \in Names, NEW t \in VarTypes, DeclareStructVar(x, t)
    PROVE  FInv'
<1> SUFFICES ASSUME quirks' = {}  PROVE FInv'
  BY DEF FInv
<1> DEFINE sz == LayoutOf(t).size
           a  == LayoutOf(t).align
           c  == Reserve(Top, x, t, sz, a)
           s  == NewSlot(Top, t, sz, a)
           S  == Zeroing(s, sz)
<1>1. /\ InFunction /\ SetTop(c) /\ LookUp(t) /\ Emit(S) /\ IsStructValue(t)
      /\ quirks = {} /\ Shadow(Top, x) = {} /\ a # 0 /\ sz % 8 = 0 /\ ~(t.arr > 0)
  BY DEF DeclareStructVar, AtStatement
<1>2. Top \in Context /\ CtxFits(Top, structs) /\ CtxLayout(Top) /\ RegistryOK(structs) /\ ~stray
  BY <1>1, TopOf
<1>3. t.base \in StructNames  BY <1>1, StructBase
<1>4. sz \in Nat /\ a \in 0..8 /\ RegistryOK(structs')  BY <1>1, <1>2, <1>3, LookedUp
<1>5. /\ Extends(structs, structs')
      /\ t.base \in DOMAIN structs' /\ structs'[t.base] = LayoutOf(t)
  BY <1>1, LookUpExtends
<1>6. structs'[t.base] # NoLayout /\ structs'[t.base].size = sz
  BY <1>1, <1>5 DEF NoLayout
<1>7. TypeSize(t, structs') = sz
  <2>1. t \in AllTypes  BY TypesAssumption DEF AllTypes
  <2>2. t.ptr = 0 /\ t.base \notin Scalars  BY <1>1 DEF IsStructValue
  <2>3. TypeSize(t, structs') = SizeWith(t, structs'[t.base].size)  BY <1>5, <2>2 DEF TypeSize
  <2>4. QED  BY <1>1, <1>6, <2>2, <2>3 DEF SizeWith
<1> HIDE DEF sz, a
<1>8. t \in VarTypes \cup ValueTypes  OBVIOUS
<1>9. s \in Slot /\ s.type = t /\ s.lo = AlignUp(Top.cur, a) /\ s.hi = AlignUp(Top.cur, a) + sz
  BY <1>2, <1>4, <1>8, NewSlotShape
<1>10. s.lo \in Nat /\ s.hi \in Nat  BY <1>9 DEF Slot
<1>11. s.hi - s.lo = sz  BY <1>4, <1>9, <1>10
<1>12. FitsIn(s, structs')
  <2>1. ~PointerArray(t)  BY <1>1 DEF PointerArray
  <2>2. QED  BY <2>1, <1>4, <1>5, <1>6, <1>7, <1>9, <1>11 DEF FitsIn
<1>13. CtxFits(Top, structs')  BY <1>2, <1>5, ContextLater
<1>14. CtxFits(c, structs')
  BY <1>1, <1>2, <1>4, <1>8, <1>12, <1>13, ReservedFits
<1>15. c \in Context  BY <1>2, <1>4, <1>8, ReserveShape
<1> HIDE DEF s, c
<1>16. ASSUME NEW st \in S  PROVE InSlot(st)
  <2>1. PICK k \in 0..((sz + 7) \div 8) - 1 : st = Store(s, s, 8 * k, 8)  BY DEF Zeroing
  <2>2. 8 * k \in Nat /\ 8 * k + 8 <= sz  BY <1>1, <1>4, <2>1
  <2>3. QED  BY <1>10, <1>11, <2>1, <2>2, StoreInside
<1> HIDE DEF S
<1>17. ~stray'  BY <1>1, <1>2, <1>16, EmitInside
<1>18. QED  BY <1>1, <1>5, <1>14, <1>15, <1>17, TopFits

\* The prologue stores each parameter where its name points: to its own slot.
LEMMA EndFunctionFits ==
    ASSUME IInv, FInv, EndFunction
    PROVE  FInv'
<1> SUFFICES ASSUME quirks' = {}  PROVE FInv'
  BY DEF FInv
<1> DEFINE c == Top
           S == {LET own == c.slots[c.params[i].slot]
                 IN  Store(own, c.slots[c.vars[c.params[i].name]], 0,
                           StoreWidth(own.hi - own.lo)) :
                    i \in 1..Len(c.params)}
<1>1. /\ InFunction /\ Emit(S) /\ quirks = {} /\ UNCHANGED structs
      /\ ctxStack' = SubSeq(ctxStack, 1, Len(ctxStack) - 1)
  BY DEF EndFunction, AtStatement
<1>2. c \in Context /\ CtxFits(c, structs) /\ CtxLayout(c) /\ ~stray
  BY <1>1, TopOf
<1> HIDE DEF c
<1>3. ASSUME NEW st \in S  PROVE InSlot(st)
  <2>1. PICK i \in 1..Len(c.params) :
           LET own == c.slots[c.params[i].slot]
           IN  st = Store(own, c.slots[c.vars[c.params[i].name]], 0, StoreWidth(own.hi - own.lo))
    OBVIOUS
  <2> DEFINE own == c.slots[c.params[i].slot]
  <2>2. c.vars[c.params[i].name] = c.params[i].slot /\ StoreWidth(own.hi - own.lo) <= own.hi - own.lo
    BY <1>2 DEF CtxFits, ParamsKept
  <2>3. c.params[i].slot \in 1..Len(c.slots)  BY <1>2 DEF CtxLayout
  <2>4. own.lo \in Nat /\ own.hi \in Nat  BY <1>2, <2>3, SlotTypes
  <2>5. st = Store(own, own, 0, StoreWidth(own.hi - own.lo))  BY <2>1, <2>2
  <2> HIDE DEF own
  <2>6. StoreWidth(own.hi - own.lo) \in Nat  BY WidthBounds
  <2> DEFINE w == StoreWidth(own.hi - own.lo)
  <2>7. w \in Nat /\ 0 + w <= own.hi - own.lo  BY <2>2, <2>4, <2>6
  <2> HIDE DEF w
  <2>8. InSlot(Store(own, own, 0, w))  BY <2>4, <2>7, StoreInside
  <2>9. QED  BY <2>5, <2>8 DEF w
<1> HIDE DEF S
<1>4. ~stray'  BY <1>1, <1>2, <1>3, EmitInside
<1>5. ctxStack \in Seq(Context)  BY DEF IInv
<1>6. \A d \in 1..Len(ctxStack') : d \in 1..Len(ctxStack) /\ ctxStack'[d] = ctxStack[d]
  BY <1>1, <1>5 DEF InFunction
<1>7. \A d \in 1..Len(ctxStack) : CtxFits(ctxStack[d], structs)  BY <1>1 DEF FInv
<1>8. QED  BY <1>1, <1>4, <1>6, <1>7 DEF FInv

\* The slot of a variable, as an assignment uses it.
LEMMA VariableFits ==
    ASSUME IInv, FInv, InFunction, quirks = {}, NEW x \in Names, Top.vars[x] # 0
    PROVE  LET s == Top.slots[Top.vars[x]]
           IN  /\ s.lo \in Nat /\ s.hi \in Nat /\ FitsIn(s, structs)
               /\ s.type \in VarTypes \cup ValueTypes /\ s.type \in AllTypes
<1>1. Top \in Context /\ CtxFits(Top, structs) /\ CtxLayout(Top)  BY TopOf
<1>2. Top.vars \in [Names -> Nat]  BY <1>1 DEF Context
<1>3. Top.vars[x] \in 1..Len(Top.slots)  BY <1>1, <1>2, SlotTypes DEF CtxLayout
<1>4. Top.slots[Top.vars[x]].type \in VarTypes \cup ValueTypes  BY VariableSlot
<1>5. QED  BY <1>1, <1>3, <1>4, SlotTypes DEF CtxFits

LEMMA AssignVarFits ==
    ASSUME IInv, FInv, NEW x \in Names, AssignVar(x)
    PROVE  FInv'
<1> SUFFICES ASSUME quirks' = {}  PROVE FInv'
  BY DEF FInv
<1> DEFINE s  == Top.slots[Top.vars[x]]
           sz == TypeSize(s.type, structs)
<1>1. /\ InFunction /\ Top.vars[x] # 0 /\ Emit({Store(s, s, 0, StoreWidth(sz))})
      /\ quirks = {} /\ ValueQuirks(s.type) = {} /\ UNCHANGED <<structs, ctxStack>>
  BY DEF AssignVar
<1>2. s.lo \in Nat /\ s.hi \in Nat /\ FitsIn(s, structs) /\ s.type \in AllTypes
  BY <1>1, VariableFits
<1>3. RegistryOK(structs) /\ ~stray  BY <1>1, TopOf
<1>4. sz \in Nat /\ sz <= s.hi - s.lo  BY <1>2, <1>3, TypeSizeNat DEF FitsIn
<1>5. StoreWidth(sz) <= sz  BY <1>1, <1>4, NoValueQuirk
<1> HIDE DEF s, sz
<1>6. StoreWidth(sz) \in Nat /\ 0 + StoreWidth(sz) <= s.hi - s.lo  BY <1>2, <1>4, <1>5, WidthBounds
<1>7. InSlot(Store(s, s, 0, StoreWidth(sz)))  BY <1>2, <1>6, StoreInside
<1>8. ~stray'  BY <1>1, <1>3, <1>7, EmitInside
<1>9. QED  BY <1>1, <1>8 DEF FInv

LEMMA AssignMemberFits ==
    ASSUME IInv, FInv, NEW x \in Names, AssignMember(x)
    PROVE  FInv'
<1> SUFFICES ASSUME quirks' = {}  PROVE FInv'
  BY DEF FInv
<1> DEFINE s  == Top.slots[Top.vars[x]]
           c2 == [Top EXCEPT !.max = Larger(Top.max, Top.cur + 8)]
<1>1. /\ InFunction /\ Top.vars[x] # 0 /\ IsStructValue(s.type) /\ LookUp(s.type)
      /\ SetTop(c2)
  BY DEF AssignMember
<1>2. PICK m \in LayoutOf(s.type).members \cup {[offset |-> 0, size |-> 0]} :
        /\ Emit({Store(s, s, m.offset, StoreWidth(m.size))})
        /\ quirks' = quirks \cup TailQuirk(m.size)
  BY DEF AssignMember
<1>3. quirks = {} /\ TailQuirk(m.size) = {}  BY <1>2
<1>4. /\ s.lo \in Nat /\ s.hi \in Nat /\ FitsIn(s, structs)
      /\ s.type \in VarTypes \cup ValueTypes /\ s.type \in AllTypes
  BY <1>1, <1>3, VariableFits
<1>5. Top \in Context /\ CtxFits(Top, structs) /\ RegistryOK(structs) /\ ~stray  BY <1>1, <1>3, TopOf
<1> HIDE DEF s
<1>6. s.type.base \in DOMAIN structs /\ structs[s.type.base] # NoLayout  BY <1>1, <1>4 DEF FitsIn
<1> DEFINE i == structs[s.type.base]
<1>7. LayoutOf(s.type) = i /\ i \in Layouts[s.type.base] /\ s.type.base \in StructNames
  BY <1>5, <1>6 DEF LayoutOf, RegistryOK
<1>8. LayoutOK(i)  BY <1>7, LayoutsAssumption
<1>9. i.size <= s.hi - s.lo
  <2>1. s.type.ptr = 0 /\ s.type.base \notin Scalars /\ s.type.arr \in Nat
    BY <1>1, <1>4 DEF IsStructValue, AllTypes, TypeRecord
  <2>2. TypeSize(s.type, structs) = SizeWith(s.type, i.size)  BY <1>6, <2>1 DEF TypeSize
  <2>3. i.size \in Nat  BY <1>8 DEF LayoutOK
  <2>4. TypeSize(s.type, structs) <= s.hi - s.lo  BY <1>4 DEF FitsIn
  <2> HIDE DEF i
  <2>5. CASE s.type.arr = 0
    <3>1. SizeWith(s.type, i.size) = i.size  BY <2>1, <2>5 DEF SizeWith
    <3>2. QED  BY <2>2, <2>4, <3>1
  <2>6. CASE s.type.arr > 0
    <3>1. SizeWith(s.type, i.size) = i.size * s.type.arr  BY <2>1, <2>6 DEF SizeWith
    <3>2. i.size * s.type.arr \in Nat /\ i.size <= i.size * s.type.arr
      BY <2>1, <2>3, <2>6, ProductNat
    <3>3. QED  BY <1>4, <2>2, <2>3, <2>4, <3>1, <3>2
  <2>7. QED  BY <2>1, <2>5, <2>6
<1>10. m.offset \in Nat /\ m.size \in Nat /\ m.size > 0 => m.offset + m.size <= i.size
  BY <1>2, <1>7, <1>8 DEF LayoutOK
<1>11. m.offset \in Nat /\ m.size \in Nat  BY <1>2, <1>7, <1>8 DEF LayoutOK
<1>12. StoreWidth(m.size) <= m.size /\ m.size > 0  BY <1>3, <1>11, NoTail
<1>13. i.size \in Nat  BY <1>8 DEF LayoutOK
<1> HIDE DEF i
<1>14. StoreWidth(m.size) \in Nat /\ m.offset + StoreWidth(m.size) <= s.hi - s.lo
  BY <1>4, <1>9, <1>10, <1>11, <1>12, <1>13, WidthBounds
<1>15. InSlot(Store(s, s, m.offset, StoreWidth(m.size)))  BY <1>4, <1>11, <1>14, StoreInside
<1>16. ~stray'  BY <1>2, <1>5, <1>15, EmitInside
<1>17. Extends(structs, structs')  BY <1>1, LookUpExtends
<1>18. c2 \in Context  BY <1>5, MaxRaised
<1>19. c2.slots = Top.slots /\ c2.vars = Top.vars /\ c2.params = Top.params  BY <1>5 DEF Context
<1> HIDE DEF c2
<1>20. CtxFits(Top, structs')  BY <1>5, <1>17, ContextLater
<1>21. CtxFits(c2, structs')  BY <1>19, <1>20, SameFits
<1>22. QED  BY <1>1, <1>3, <1>16, <1>17, <1>18, <1>21, TopFits
LEMMA AssignElementFits ==
    ASSUME IInv, FInv, NEW x \in Names, AssignElement(x)
    PROVE  FInv'
<1> SUFFICES ASSUME quirks' = {}  PROVE FInv'
  BY DEF FInv
<1> DEFINE s    == Top.slots[Top.vars[x]]
           elem == [s.type EXCEPT !.arr = 0]
           sz   == TypeSize(elem, structs)
           c2   == [Top EXCEPT !.max = Larger(Top.max, Top.cur + 16)]
<1>1. /\ InFunction /\ Top.vars[x] # 0 /\ SetTop(c2) /\ UNCHANGED structs
      /\ quirks = {} /\ ValueQuirks(elem) = {}
  BY DEF AssignElement
<1>2. PICK k \in 0..s.type.arr - 1 : Emit({Store(s, s, k * sz, StoreWidth(sz))})
  BY DEF AssignElement
<1>3. s.lo \in Nat /\ s.hi \in Nat /\ FitsIn(s, structs) /\ s.type \in AllTypes
  BY <1>1, VariableFits
<1>4. Top \in Context /\ CtxFits(Top, structs) /\ RegistryOK(structs) /\ ~stray  BY <1>1, TopOf
<1> HIDE DEF s
<1> DEFINE a == s.type.arr
<1>5. elem \in AllTypes /\ elem.base = s.type.base /\ elem.ptr = s.type.ptr /\ elem.arr = 0 /\ a \in Nat
  BY <1>3 DEF AllTypes, TypeRecord
<1> HIDE DEF elem, a
<1>6. sz \in Nat  BY <1>4, <1>5, TypeSizeNat
<1>7. StoreWidth(sz) <= sz  BY <1>1, <1>6, NoValueQuirk
<1>8. k * sz \in Nat /\ k * sz + sz <= s.hi - s.lo
  <2> DEFINE n == TypeSize(s.type, structs)
  <2>1. n <= s.hi - s.lo /\ ~PointerArray(s.type)  BY <1>3 DEF FitsIn
  <2>2. a > 0 /\ k \in 0..a - 1  BY <1>2, <1>5 DEF a
  <2>3. s.type.ptr = 0  BY <2>1, <2>2, <1>3 DEF PointerArray, a, AllTypes, TypeRecord
  <2>4. n = sz * a
    <3> DEFINE b == IF s.type.base \in Scalars THEN ScalarBytes[s.type.base]
                    ELSE IF s.type.base \in DOMAIN structs THEN structs[s.type.base].size ELSE 0
    <3>1. n = SizeWith(s.type, b) /\ sz = SizeWith(elem, b)  BY <1>5 DEF TypeSize
    <3> HIDE DEF b, n, sz
    <3>2. sz = b  BY <1>5, <2>3, <3>1 DEF SizeWith
    <3>3. n = b * a  BY <2>2, <2>3, <3>1 DEF SizeWith, a
    <3>4. QED  BY <3>2, <3>3
  <2> HIDE DEF n, sz
  <2>5. k * sz \in Nat /\ k * sz + sz <= sz * a  BY <1>5, <1>6, <2>2, ElementInside
  <2>6. sz * a \in Nat  BY <1>5, <1>6, ProductNat
  <2>7. QED  BY <1>3, <1>6, <2>1, <2>4, <2>5, <2>6
<1> HIDE DEF sz
<1>9. StoreWidth(sz) \in Nat  BY WidthBounds
<1>10. InSlot(Store(s, s, k * sz, StoreWidth(sz)))
  <2> DEFINE w == StoreWidth(sz)
             o == k * sz
  <2>1. w \in Nat /\ o \in Nat /\ w <= sz /\ o + sz <= s.hi - s.lo  BY <1>7, <1>8, <1>9
  <2> HIDE DEF w, o
  <2>2. o + w <= s.hi - s.lo  BY <1>3, <1>6, <2>1
  <2>3. InSlot(Store(s, s, o, w))  BY <1>3, <2>1, <2>2, StoreInside
  <2>4. QED  BY <2>3 DEF w, o
<1>11. ~stray'  BY <1>2, <1>4, <1>10, EmitInside
<1>12. c2 \in Context  BY <1>4, MaxRaised
<1>13. c2.slots = Top.slots /\ c2.vars = Top.vars /\ c2.params = Top.params  BY <1>4 DEF Context
<1> HIDE DEF c2
<1>14. CtxFits(c2, structs)  BY <1>4, <1>13, SameFits
<1>15. QED  BY <1>1, <1>11, <1>12, <1>14, TopFits DEF Extends

\* The temporaries: an expression node touches no slot.
LEMMA OpenExpressionFits ==
    ASSUME IInv, FInv, NEW q \in Quotas, OpenExpression(q)
    PROVE  FInv'
<1> SUFFICES ASSUME quirks' = {}  PROVE FInv'
  BY DEF FInv
<1> DEFINE c2 == [Top EXCEPT !.pending =
                     Append(Top.pending, [base |-> Len(Top.temps), quota |-> q])]
<1>1. InFunction /\ SetTop(c2) /\ quirks = {} /\ UNCHANGED <<structs, stray>>
  BY DEF OpenExpression
<1>2. Top \in Context /\ CtxFits(Top, structs) /\ ~stray /\ CtxGood(Top, quirks)  BY <1>1, TopOf, TopTypes
<1>3. c2 \in Context  BY <1>2, OpenedGood
<1>4. c2.slots = Top.slots /\ c2.vars = Top.vars /\ c2.params = Top.params  BY <1>2 DEF Context
<1> HIDE DEF c2
<1>5. CtxFits(c2, structs)  BY <1>2, <1>4, SameFits
<1>6. QED  BY <1>1, <1>2, <1>3, <1>5, TopFits DEF Extends

LEMMA PushTmpFits ==
    ASSUME IInv, FInv, PushTmp
    PROVE  FInv'
<1> SUFFICES ASSUME quirks' = {}  PROVE FInv'
  BY DEF FInv
<1> DEFINE c2  == [Top EXCEPT !.cur = Top.cur + 8, !.max = Larger(Top.max, Top.cur + 8),
                              !.temps = Append(Top.temps, Top.cur + 8)]
           own == [lo |-> Top.cur, hi |-> Top.cur + 8]
<1>1. /\ InFunction /\ Top.pending # <<>> /\ SetTop(c2) /\ Emit({Store(own, own, 0, 8)})
      /\ quirks = {} /\ UNCHANGED structs
  BY DEF PushTmp
<1>2. Top \in Context /\ CtxFits(Top, structs) /\ ~stray /\ CtxGood(Top, quirks)  BY <1>1, TopOf, TopTypes
<1>3. c2 \in Context  BY <1>1, <1>2, PushedGood
<1>4. c2.slots = Top.slots /\ c2.vars = Top.vars /\ c2.params = Top.params  BY <1>2 DEF Context
<1> HIDE DEF c2
<1>5. CtxFits(c2, structs)  BY <1>2, <1>4, SameFits
<1>6. own.lo \in Nat /\ own.hi \in Nat /\ 0 + 8 <= own.hi - own.lo  BY <1>2 DEF Context
<1> HIDE DEF own
<1>7. InSlot(Store(own, own, 0, 8))  BY <1>6, StoreInside
<1>8. ~stray'  BY <1>1, <1>2, <1>7, EmitInside
<1>9. QED  BY <1>1, <1>3, <1>5, <1>8, TopFits DEF Extends

LEMMA CloseExpressionFits ==
    ASSUME IInv, FInv, CloseExpression
    PROVE  FInv'
<1> SUFFICES ASSUME quirks' = {}  PROVE FInv'
  BY DEF FInv
<1> DEFINE c2 == [Top EXCEPT
                    !.cur = Top.cur - 8 * Held(Top),
                    !.temps = SubSeq(Top.temps, 1, LastPending(Top).base),
                    !.pending = SubSeq(Top.pending, 1, Len(Top.pending) - 1)]
<1>1. /\ InFunction /\ Top.pending # <<>> /\ SetTop(c2)
      /\ quirks = {} /\ UNCHANGED <<structs, stray>>
  BY DEF CloseExpression
<1>2. Top \in Context /\ CtxFits(Top, structs) /\ ~stray /\ CtxGood(Top, quirks)  BY <1>1, TopOf, TopTypes
<1>3. c2 \in Context  BY <1>1, <1>2, ClosedGood
<1>4. c2.slots = Top.slots /\ c2.vars = Top.vars /\ c2.params = Top.params  BY <1>2 DEF Context
<1> HIDE DEF c2
<1>5. CtxFits(c2, structs)  BY <1>2, <1>4, SameFits
<1>6. QED  BY <1>1, <1>2, <1>3, <1>5, TopFits DEF Extends

LEMMA StepFInv == IInv /\ FInv /\ [Next]_vars => FInv'
<1> SUFFICES ASSUME IInv, FInv, [Next]_vars  PROVE FInv'
  OBVIOUS
<1>1. CASE UNCHANGED vars  BY <1>1 DEF vars, FInv
<1>2. CASE Next
  BY <1>2, DeclareStructFits, BeginFunctionFits, AddParamFits, DeclareConstFits,
     DeclareStructVarFits, DeclareVarFits, EndFunctionFits, AssignVarFits,
     AssignMemberFits, AssignElementFits, OpenExpressionFits, PushTmpFits,
     CloseExpressionFits, Zenon DEF Next
<1>3. QED  BY <1>1, <1>2

----------------------------------------------------------------------------
\* StoresInSlot: in every program without one of the named quirks, each store the
\* visitor emits for a declaration, an assignment, a parameter or a temporary
\* writes only bytes of the slot it is meant for.
THEOREM StoresStayInside == Spec => []StoresInSlot
<1>1. Init => FInv
  BY DEF Init, FInv
<1>2. IInv /\ FInv => StoresInSlot
  BY DEF FInv, StoresInSlot
<1>3. QED
  BY <1>1, <1>2, InitIInv, StepIInv, StepFInv, PTL DEF Spec

=============================================================================
