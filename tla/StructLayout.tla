---------------------------- MODULE StructLayout ----------------------------
(***************************************************************************)
(* The layout of one struct definition: the parser places the members one  *)
(* after another (Parser::parseStatement), and the code generator, which   *)
(* visits the definition later, computes the struct's size and alignment   *)
(* from the members' places and fills the tables that member accesses are  *)
(* compiled with (visit(StructDefNode)).                                   *)
(*                                                                         *)
(* A member that is itself a struct by value is rejected, so no size here  *)
(* depends on other structs: NoStructs is the registry both sides see.     *)
(***************************************************************************)
EXTENDS WeedTypes, Sequences

CONSTANTS
    MemberNames,   \* names of members
    PointeeNames,  \* names of struct types, for pointer members
    MemberTypes,   \* types of members
    MaxMembers     \* bound: members in the definition

ASSUME MemberTypesAssumption ==
    MemberTypes \subseteq TypeRecord(PointeeNames) /\ PointeeNames \cap Scalars = {}
ASSUME MaxMembersAssumption == MaxMembers \in Nat

VARIABLES
    phase,     \* "parsing", "visiting", "defined" or "rejected"
    members,   \* the StructDefNode's members, with their offsets
    cursor,    \* currentOffset of the parser
    index,     \* the member the generator visits next
    size,      \* the end of the furthest member visited
    maxAlign,  \* the largest alignment visited
    fields     \* memberOffsets and memberSizes, by member name

structVars == <<phase, members, cursor, index, size, maxAlign, fields>>

NoStructs == [s \in {} |-> 0]

SizeOf(t)  == TypeSize(t, NoStructs)
AlignOf(t) == TypeAlign(t, NoStructs)

\* parseStatement aligns currentOffset for each member before it records it.
Place(x, t) == [name |-> x, type |-> t, offset |-> AlignUp(cursor, AlignOf(t))]

\* Mutation of AddMember: the next member starts where this one does.
AddMemberInPlace(x, t) ==
    /\ phase = "parsing"
    /\ Len(members) < MaxMembers
    /\ IF IsStructValue(t)
       THEN phase' = "rejected" /\ UNCHANGED <<members, cursor>>
       ELSE /\ members' = Append(members, Place(x, t))
            /\ cursor' = Place(x, t).offset
            /\ UNCHANGED phase
    /\ UNCHANGED <<index, size, maxAlign, fields>>

\* One turn of the parser's loop over "type name ;".
AddMember(x, t) ==
    /\ phase = "parsing"
    /\ Len(members) < MaxMembers
    /\ IF IsStructValue(t)
       THEN phase' = "rejected" /\ UNCHANGED <<members, cursor>>
       ELSE /\ members' = Append(members, Place(x, t))
            /\ cursor' = Place(x, t).offset + SizeOf(t)
            /\ UNCHANGED phase
    /\ UNCHANGED <<index, size, maxAlign, fields>>

\* "}" has been read.
CloseDefinition ==
    /\ phase = "parsing"
    /\ phase' = "visiting"
    /\ UNCHANGED <<members, cursor, index, size, maxAlign, fields>>

\* Mutation of VisitMember: the struct is as large as its last member alone.
VisitMemberLast ==
    /\ phase = "visiting"
    /\ index <= Len(members)
    /\ LET m == members[index]
       IN  /\ fields' = [x \in DOMAIN fields \cup {m.name} |->
                           IF x = m.name
                           THEN [offset |-> m.offset, size |-> SizeOf(m.type), type |-> m.type]
                           ELSE fields[x]]
           /\ maxAlign' = Larger(maxAlign, AlignOf(m.type))
           /\ size' = SizeOf(m.type)
    /\ index' = index + 1
    /\ UNCHANGED <<phase, members, cursor>>

\* One turn of the loop of visit(StructDefNode); a member with the name of an
\* earlier one replaces it in the tables.
VisitMember ==
    /\ phase = "visiting"
    /\ index <= Len(members)
    /\ LET m == members[index]
       IN  /\ fields' = [x \in DOMAIN fields \cup {m.name} |->
                           IF x = m.name
                           THEN [offset |-> m.offset, size |-> SizeOf(m.type), type |-> m.type]
                           ELSE fields[x]]
           /\ maxAlign' = Larger(maxAlign, AlignOf(m.type))
           /\ size' = Larger(size, m.offset + SizeOf(m.type))
    /\ index' = index + 1
    /\ UNCHANGED <<phase, members, cursor>>

\* Mutation of Register: the size is not rounded up.
RegisterUnpadded ==
    /\ phase = "visiting"
    /\ index > Len(members)
    /\ phase' = "defined"
    /\ UNCHANGED <<size, members, cursor, index, maxAlign, fields>>

\* The end of visit(StructDefNode).
Register ==
    /\ phase = "visiting"
    /\ index > Len(members)
    /\ size' = AlignUp(size, maxAlign)
    /\ phase' = "defined"
    /\ UNCHANGED <<members, cursor, index, maxAlign, fields>>

StructInit ==
    /\ phase = "parsing" /\ members = <<>> /\ cursor = 0
    /\ index = 1 /\ size = 0 /\ maxAlign = 1
    /\ fields = [x \in {} |-> 0]

StructNext ==
    \/ \E x \in MemberNames, t \in MemberTypes : AddMember(x, t)
    \/ CloseDefinition
    \/ VisitMember
    \/ Register

StructSpec == StructInit /\ [][StructNext]_structVars

----------------------------------------------------------------------------
(* Properties *)

\* What module Frame assumes of the layouts it is given.
Layout == [size |-> size, align |-> maxAlign,
           members |-> {[offset |-> fields[x].offset, size |-> fields[x].size] :
                           x \in DOMAIN fields}]

\* The loops' variables are in their ranges, and a registered struct has the
\* form module Frame relies on: an alignment from 1 to 8, and no member beyond
\* the struct's end, so that a store to a member stays in the variable.
StructTypeOK ==
    /\ phase \in {"parsing", "visiting", "defined", "rejected"}
    /\ \A i \in 1..Len(members) :
         members[i].name \in MemberNames /\ members[i].type \in MemberTypes
    /\ cursor \in Nat /\ index \in 1..Len(members) + 1
    /\ size \in Nat /\ maxAlign \in 1..8
    /\ \A m \in Layout.members :
         m.offset \in Nat /\ m.size \in Nat /\ m.offset + m.size <= Layout.size

\* Two members of a struct never share a byte, whatever the sizes of arrays do
\* to their alignments: a store through one never changes another.
MembersDisjoint ==
    \A x, y \in DOMAIN fields :
        x # y => \/ fields[x].offset + fields[x].size <= fields[y].offset
                 \/ fields[y].offset + fields[y].size <= fields[x].offset

\* The least multiple of a that is at least n.
RoundUp(n, a) == CHOOSE k \in n..n + a - 1 : k % a = 0

Ending(m) == m.offset + SizeOf(m.type)

\* Where C puts member i, which is a scalar or a pointer: at the least multiple of
\* its size behind the member before it.
COffset(i) ==
    IF i = 1 THEN 0 ELSE RoundUp(Ending(members[i - 1]), SizeOf(members[i].type))

CAlign == CHOOSE a \in {1, 2, 4, 8} :
             /\ a = 1 \/ \E i \in 1..Len(members) : SizeOf(members[i].type) = a
             /\ \A i \in 1..Len(members) : SizeOf(members[i].type) <= a

\* A struct of scalars and pointers has the layout a C compiler gives it, which
\* is what a foreign function that gets a pointer to it expects: every offset,
\* the alignment and the size, trailing padding included.
MatchesC ==
    (phase = "defined" /\ \A i \in 1..Len(members) : IsWord(members[i].type)) =>
        /\ \A i \in 1..Len(members) : members[i].offset = COffset(i)
        /\ maxAlign = CAlign
        /\ members # <<>> => size = RoundUp(Ending(members[Len(members)]), CAlign)
=============================================================================
