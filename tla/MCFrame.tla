------------------------------ MODULE MCFrame ------------------------------
(***************************************************************************)
(* Small instances of Frame for TLC.                                       *)
(***************************************************************************)
EXTENDS Frame, TLC

NameSymmetry == Permutations(Names)

Word(b)     == [base |-> b, ptr |-> 0, arr |-> 0]
Pointer(b)  == [base |-> b, ptr |-> 1, arr |-> 0]
Array(b, n) == [base |-> b, ptr |-> 0, arr |-> n]

Member(o, n) == [offset |-> o, size |-> n]

\* struct Pair { i32 a; i32 b; }, and a longer one with the same name.
PairLayouts ==
    {[size |-> 8, align |-> 4, members |-> {Member(0, 4), Member(4, 4)}],
     [size |-> 16, align |-> 8, members |-> {Member(0, 8), Member(8, 8)}]}

\* struct Rgb { u8 r; u8 g; u8 b; }
RgbLayouts ==
    {[size |-> 3, align |-> 1, members |-> {Member(0, 1), Member(1, 1), Member(2, 1)}]}

MCLayouts    == [s \in {"Pair"} |-> PairLayouts]
MCVarTypes   == {Word("u8"), Array("u8", 3), Word("Pair"), Array("Pair", 2)}
MCValueTypes == {Word("i64")}

\* A bound: a program is followed to its second quirk.
FewQuirks    == Cardinality(quirks) <= 1

RgbOnly      == [s \in {"Rgb"} |-> RgbLayouts]
RgbVarTypes  == {Word("Rgb")}
RgbValueTypes == {Word("u8")}
=============================================================================
