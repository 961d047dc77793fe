--------------------------- MODULE MCStructLayout ---------------------------
(***************************************************************************)
(* A small instance of StructLayout for TLC: every size of scalar, a       *)
(* pointer, arrays with sizes that are and are not powers of two, and a    *)
(* struct by value, which is rejected.                                     *)
(***************************************************************************)
EXTENDS StructLayout

Word(b)     == [base |-> b, ptr |-> 0, arr |-> 0]
Array(b, n) == [base |-> b, ptr |-> 0, arr |-> n]

MCMemberTypes ==
    {Word("u8"), Word("i16"), Word("i32"), Word("i64"), Word("Node"),
     [base |-> "Node", ptr |-> 1, arr |-> 0],
     Array("u8", 3), Array("u8", 5), Array("u8", 7), Array("i16", 3), Array("i32", 2)}
=============================================================================
