------------------------------- MODULE Frame -------------------------------
(***************************************************************************)
(* How NASMVisitor (Codegen.cpp) lays out the stack frame of a function    *)
(* while it walks the function's body: the slots of parameters, variables  *)
(* and constants, the temporaries an expression spills, and the stores the *)
(* emitted code makes into them.                                           *)
(*                                                                         *)
(* Distances are measured downwards from rbp - 32.  A slot with offset hi  *)
(* and size n is the bytes at distances lo+1 .. hi, lo = hi - n, and its   *)
(* address, that of its lowest byte, is rbp - (32 + hi).                   *)
(*                                                                         *)
(* The visitor walks statements and expressions in source order; a step of *)
(* this module is one visit (or, for a node that spills temporaries, the   *)
(* moments it calls pushTmp and popTmp), and the order of steps is any     *)
(* order a program's text could cause.  A program the visitor rejects by   *)
(* throwing has no emitted code and is not followed any further.           *)
(*                                                                         *)
(* "quirks" is a history variable.  It collects the language features, out *)
(* of those for which the visitor emits wrong code, that the program has   *)
(* used so far:                                                            *)
(*   "undeclared"  a by-value use of a struct type that is not declared    *)
(*   "tail"        a value whose last store is wider than the value        *)
(*   "shadow"      a declaration that reuses the name of a parameter       *)
(*   "relayout"    a struct declared a second time with another layout     *)
(*   "ptrArray"    an array whose elements are pointers                    *)
(*   "structArray" an array variable whose elements are structs            *)
(***************************************************************************)
EXTENDS WeedTypes, Sequences, FiniteSets

CONSTANTS
    Names,        \* names of variables, constants and parameters
    StructNames,  \* names of struct types
    Layouts,      \* Layouts[s]: the [size, align, members] a program may
                  \* declare for s (module StructLayout computes them)
    VarTypes,     \* types of variable declarations
    ValueTypes,   \* types of parameters and constants
    Quotas,       \* bound: how many temporaries an expression node may take
    MaxArgs,      \* bound: arguments of a call
    MaxSlots,     \* bound: slots of all the functions open at once
    MaxDepth,     \* bound: function bodies being visited at once
    MaxNesting    \* bound: those, and the expressions open in the innermost

\* An entry of globalStructs that operator[] made up: all its fields are zero.
NoLayout == [size |-> 0, align |-> 0, members |-> {}]

LayoutOK(i) ==
    /\ i.size \in Nat /\ i.align \in 1..8
    /\ \A m \in i.members :
         m.offset \in Nat /\ m.size \in Nat /\ m.offset + m.size <= i.size

ASSUME TypesAssumption ==
    VarTypes \cup ValueTypes \subseteq TypeRecord(StructNames)
ASSUME StructsAssumption == StructNames \cap Scalars = {}
ASSUME LayoutsAssumption ==
    \A s \in StructNames : \A i \in Layouts[s] : LayoutOK(i)
ASSUME BoundsAssumption ==
    Quotas \subseteq Nat /\ MaxArgs \in Nat /\ MaxSlots \in Nat /\ MaxDepth \in Nat /\ MaxNesting \in Nat

VARIABLES
    structs,   \* globalStructs: declared struct -> layout; never cleared
    ctxStack,  \* the contexts of the functions being visited, innermost last
    stray,     \* history: a store has been emitted that writes outside the
               \* slot it is meant for
    quirks     \* history: see above

vars == <<structs, ctxStack, stray, quirks>>

----------------------------------------------------------------------------
(* A context: cur and max are currentStackOffset and maxStackOffset; vars  *)
(* is stackOffsets and varTypes, a name being mapped to the index of its   *)
(* slot (0: not declared); slots are the regions reserved so far; temps    *)
(* are the offsets pushTmp has returned and not yet freed; pending are the *)
(* expressions being evaluated, each with the temps below it (base) and    *)
(* the temps it takes (quota); params are pinfos.                          *)

EmptyContext ==
    [cur |-> 0, max |-> 0, vars |-> [x \in Names |-> 0], slots |-> <<>>,
     temps |-> <<>>, pending |-> <<>>, params |-> <<>>]

Top == ctxStack[Len(ctxStack)]
SetTop(c) == ctxStack' = [ctxStack EXCEPT ![Len(ctxStack)] = c]

InFunction  == Len(ctxStack) > 0
AtStatement == InFunction /\ Top.pending = <<>>

\* Only for the bound MaxSlots.
OpenSlots == Cardinality({p \in (1..Len(ctxStack)) \X (1..MaxSlots) :
                             p[2] <= Len(ctxStack[p[1]].slots)})

NewSlot(c, t, sz, a) ==
    LET base == AlignUp(c.cur, a)
    IN  [lo |-> base, hi |-> base + sz, type |-> t]

\* Mutation of Reserve: currentStackOffset is aligned but not advanced.
ReserveUnadvanced(c, x, t, sz, a) ==
    LET s == NewSlot(c, t, sz, a)
    IN  [c EXCEPT !.cur = s.lo, !.max = Larger(c.max, s.hi),
                  !.vars = [c.vars EXCEPT ![x] = Len(c.slots) + 1],
                  !.slots = Append(c.slots, s)]

\* Mutation of Reserve: maxStackOffset is not raised.
ReserveUncounted(c, x, t, sz, a) ==
    LET s == NewSlot(c, t, sz, a)
    IN  [c EXCEPT !.cur = s.hi, !.vars = [c.vars EXCEPT ![x] = Len(c.slots) + 1],
                  !.slots = Append(c.slots, s)]

\* The allocation sequence that VarDecl, ConstDecl and FuncDef share.
Reserve(c, x, t, sz, a) ==
    LET s == NewSlot(c, t, sz, a)
    IN  [c EXCEPT !.cur = s.hi,
                  !.max = Larger(c.max, s.hi),
                  !.vars = [c.vars EXCEPT ![x] = Len(c.slots) + 1],
                  !.slots = Append(c.slots, s)]

\* Mutation of Store: the displacement has the wrong sign.
StoreBelow(own, s, k, w) == [own |-> own, lo |-> s.hi + k - w, hi |-> s.hi + k]

\* A store of w bytes at k bytes from the address of slot s, meant for "own".
Store(own, s, k, w) == [own |-> own, lo |-> s.hi - k - w, hi |-> s.hi - k]

InSlot(st) == st.own.lo <= st.lo /\ st.hi <= st.own.hi

\* The step emits these stores, and no others.
Emit(S) == stray' = (stray \/ \E st \in S : ~InSlot(st))

ParamNames(c) == {c.params[i].name : i \in 1..Len(c.params)}

Shadow(c, x) == IF x \in ParamNames(c) THEN {"shadow"} ELSE {}

\* What a value of type t, stored whole, adds to quirks.
TailQuirk(n) == IF StoreWidth(n) > n THEN {"tail"} ELSE {}

ValueQuirks(t) ==
    TailQuirk(TypeSize(t, structs))
    \cup (IF t.ptr > 0 /\ t.arr > 0 THEN {"ptrArray"} ELSE {})

\* globalStructs[t.structName]: an unknown struct reads as all zeroes, and
\* the lookup leaves such an entry behind.
LayoutOf(t) == IF t.base \in DOMAIN structs THEN structs[t.base] ELSE NoLayout
LookUp(t)   == structs' = [r \in DOMAIN structs \cup {t.base} |->
                              IF r = t.base THEN LayoutOf(t) ELSE structs[r]]

----------------------------------------------------------------------------
\* visit(StructDefNode): globalStructs[name] = info, whatever was there.
DeclareStruct(s) ==
    \E i \in Layouts[s] :
        /\ Len(ctxStack) > 0 => AtStatement
        /\ structs' = [r \in DOMAIN structs \cup {s} |->
                          IF r = s THEN i ELSE structs[r]]
        /\ quirks' = quirks \cup
              (IF s \in DOMAIN structs /\ structs[s] # i /\ structs[s].align # 0
               THEN {"relayout"} ELSE {})
        /\ UNCHANGED <<ctxStack, stray>>

\* beginFunction, for wl__toplevel and for each visit(FuncDefNode): a function
\* defined inside a function's body is visited with the outer one still open.
BeginFunction ==
    /\ Len(ctxStack) > 0 => AtStatement
    /\ Len(ctxStack) < MaxDepth
    /\ ctxStack' = Append(ctxStack, EmptyContext)
    /\ UNCHANGED <<structs, stray, quirks>>

\* One turn of the parameter loop of visit(FuncDefNode), before the body.
AddParam(x, t) ==
    /\ AtStatement
    /\ Len(Top.slots) = Len(Top.params)
    /\ OpenSlots < MaxSlots
    /\ LET c == Reserve(Top, x, t, TypeSize(t, structs), TypeAlign(t, structs))
       IN  SetTop([c EXCEPT !.params =
                      Append(Top.params, [name |-> x, slot |-> Len(c.slots)])])
    /\ quirks' = quirks \cup ValueQuirks(t) \cup Shadow(Top, x)
    /\ UNCHANGED <<structs, stray>>

\* The stores that zero the n bytes of a struct in slot s, by quadwords.
Zeroing(s, n) == {Store(s, s, 8 * k, 8) : k \in 0..((n + 7) \div 8) - 1}

\* visit(VarDeclNode) for a struct: globalStructs[...] inserts an all-zero
\* entry when the struct is unknown; the storage is zeroed.
DeclareStructVar(x, t) ==
    LET info == LayoutOf(t)
        slot == NewSlot(Top, t, info.size, info.align)
    IN  /\ AtStatement
        /\ IsStructValue(t)
        /\ OpenSlots < MaxSlots
        /\ SetTop(Reserve(Top, x, t, info.size, info.align))
        /\ LookUp(t)
        /\ Emit(Zeroing(slot, info.size))
        /\ quirks' = quirks \cup Shadow(Top, x)
              \cup (IF info.align = 0 THEN {"undeclared"} ELSE {})
              \cup (IF info.size % 8 # 0 THEN {"tail"} ELSE {})
              \cup (IF t.arr > 0 THEN {"structArray"} ELSE {})

\* visit(VarDeclNode) for everything else.  The initialiser is evaluated
\* after the slot is reserved, so its temporaries lie below the slot, as do
\* those of any later statement; an array is zeroed bytewise when it has no
\* initialiser and not written at all when it has one.
DeclareVar(x, t, hasInit) ==
    LET sz   == TypeSize(t, structs)
        slot == NewSlot(Top, t, sz, TypeAlign(t, structs))
    IN  /\ AtStatement
        /\ ~IsStructValue(t)
        /\ OpenSlots < MaxSlots
        /\ SetTop(Reserve(Top, x, t, sz, TypeAlign(t, structs)))
        /\ Emit(IF t.arr = 0 THEN {Store(slot, slot, 0, StoreWidth(sz))}
                ELSE IF hasInit THEN {}
                ELSE {Store(slot, slot, k, 1) : k \in 0..sz - 1})
        /\ quirks' = quirks \cup Shadow(Top, x)
              \cup (IF t.ptr > 0 /\ t.arr > 0 THEN {"ptrArray"} ELSE {})
        /\ UNCHANGED structs

\* visit(ConstDeclNode): a constant has a slot like a variable's, and its
\* value is stored whole whatever its type.
DeclareConst(x, t) ==
    LET sz   == TypeSize(t, structs)
        slot == NewSlot(Top, t, sz, TypeAlign(t, structs))
    IN  /\ AtStatement
        /\ OpenSlots < MaxSlots
        /\ SetTop(Reserve(Top, x, t, sz, TypeAlign(t, structs)))
        /\ Emit({Store(slot, slot, 0, StoreWidth(sz))})
        /\ quirks' = quirks \cup ValueQuirks(t) \cup Shadow(Top, x)
        /\ UNCHANGED structs

\* The end of visit(FuncDefNode): the prologue, emitted last, stores every
\* parameter where its NAME now points, with the width of its own type.
EndFunction ==
    /\ AtStatement
    /\ LET c == Top
       IN  Emit({LET own == c.slots[c.params[i].slot]
                 IN  Store(own, c.slots[c.vars[c.params[i].name]], 0,
                           StoreWidth(own.hi - own.lo)) :
                    i \in 1..Len(c.params)})
    /\ ctxStack' = SubSeq(ctxStack, 1, Len(ctxStack) - 1)
    /\ UNCHANGED <<structs, quirks>>

----------------------------------------------------------------------------
\* visit(AssignNode) to a variable, inside any expression; an assignment to an
\* undeclared name or to an array is rejected.
AssignVar(x) ==
    /\ InFunction
    /\ Top.vars[x] # 0
    /\ LET s == Top.slots[Top.vars[x]]
       IN  /\ s.type.arr = 0
           /\ Emit({Store(s, s, 0, StoreWidth(TypeSize(s.type, structs)))})
           /\ quirks' = quirks \cup ValueQuirks(s.type)
    /\ UNCHANGED <<structs, ctxStack>>

\* visit(AssignNode) to a member of a struct variable: the value goes through
\* a temporary that is popped at once.  A member the struct does not have
\* reads as offset 0 and size 0.
AssignMember(x) ==
    /\ InFunction
    /\ Top.vars[x] # 0
    /\ LET s == Top.slots[Top.vars[x]]
       IN  /\ IsStructValue(s.type)
           /\ LookUp(s.type)
           /\ \E m \in LayoutOf(s.type).members \cup {[offset |-> 0, size |-> 0]} :
                /\ Emit({Store(s, s, m.offset, StoreWidth(m.size))})
                /\ quirks' = quirks \cup TailQuirk(m.size)
    /\ SetTop([Top EXCEPT !.max = Larger(Top.max, Top.cur + 8)])

\* visit(AssignNode) to an element of an array variable, within its bounds:
\* the element's size is that of the array's type with the array part dropped.
AssignElement(x) ==
    /\ InFunction
    /\ Top.vars[x] # 0
    /\ LET s    == Top.slots[Top.vars[x]]
           elem == [s.type EXCEPT !.arr = 0]
           sz   == TypeSize(elem, structs)
       IN  /\ \E k \in 0..s.type.arr - 1 :
                Emit({Store(s, s, k * sz, StoreWidth(sz))})
           /\ quirks' = quirks \cup ValueQuirks(elem)
    /\ SetTop([Top EXCEPT !.max = Larger(Top.max, Top.cur + 16)])
    /\ UNCHANGED structs

\* The temporaries of the expression nodes: visit(BinaryOpNode),
\* visit(IndexNode) and the stores through a pointer take one, the store to an
\* indexed element two, visit(CallNode) one for each argument.

OpenExpression(q) ==
    /\ InFunction
    /\ Len(ctxStack) + Len(Top.pending) < MaxNesting
    /\ SetTop([Top EXCEPT !.pending =
                  Append(Top.pending, [base |-> Len(Top.temps), quota |-> q])])
    /\ UNCHANGED <<structs, stray, quirks>>

LastPending(c) == c.pending[Len(c.pending)]
Held(c) == Len(c.temps) - LastPending(c).base

\* pushTmp: an operand has been evaluated.
PushTmp ==
    /\ InFunction
    /\ Top.pending # <<>>
    /\ Held(Top) < LastPending(Top).quota
    /\ LET off == Top.cur + 8
           own == [lo |-> Top.cur, hi |-> off]
       IN  /\ SetTop([Top EXCEPT !.cur = off, !.max = Larger(Top.max, off),
                                 !.temps = Append(Top.temps, off)])
           /\ Emit({Store(own, own, 0, 8)})
    /\ UNCHANGED <<structs, quirks>>

\* Mutation of CloseExpression: one freeTmp for all the temporaries of a node.
CloseFreesOne ==
    /\ InFunction
    /\ Top.pending # <<>>
    /\ Held(Top) = LastPending(Top).quota
    /\ SetTop([Top EXCEPT
          !.cur = Top.cur - 8,
          !.temps = SubSeq(Top.temps, 1, LastPending(Top).base),
          !.pending = SubSeq(Top.pending, 1, Len(Top.pending) - 1)])
    /\ UNCHANGED <<structs, stray, quirks>>

\* Mutation of CloseExpression: each temporary is freed by popTmp and again by
\* the node.
CloseFreesTwice ==
    /\ InFunction
    /\ Top.pending # <<>>
    /\ Held(Top) = LastPending(Top).quota
    /\ SetTop([Top EXCEPT
          !.cur = Top.cur - 16 * Held(Top),
          !.temps = SubSeq(Top.temps, 1, LastPending(Top).base),
          !.pending = SubSeq(Top.pending, 1, Len(Top.pending) - 1)])
    /\ UNCHANGED <<structs, stray, quirks>>

\* popTmp and freeTmp: the node reads its temporaries back from the offsets
\* it remembers, and gives back 8 bytes for each.
CloseExpression ==
    /\ InFunction
    /\ Top.pending # <<>>
    /\ Held(Top) = LastPending(Top).quota
    /\ SetTop([Top EXCEPT
          !.cur = Top.cur - 8 * Held(Top),
          !.temps = SubSeq(Top.temps, 1, LastPending(Top).base),
          !.pending = SubSeq(Top.pending, 1, Len(Top.pending) - 1)])
    /\ UNCHANGED <<structs, stray, quirks>>

----------------------------------------------------------------------------
(* visit(CallNode) with n arguments moves rsp, which the prologue has put at
   rbp - FrameSize, down by CallFrame(n); argument i >= 4 (counted from 0) is
   stored at rsp + OutgoingArg(i), and the callee, whose rbp is 16 below the
   caller's rsp, reads it at its own rbp + IncomingArg(i). *)

FrameSize(c) == 32 + Align16(c.max)

\* Mutation of CallFrame: an odd number of stack arguments is not padded.
CallFrameUnpadded(n) == 32 + 8 * (IF n > 4 THEN n - 4 ELSE 0)

CallFrame(n) ==
    LET raw == 32 + 8 * (IF n > 4 THEN n - 4 ELSE 0)
    IN  IF raw % 16 # 0 THEN raw + 8 ELSE raw

OutgoingArg(i) == 32 + (i - 4) * 8
IncomingArg(i) == 16 + i * 8

----------------------------------------------------------------------------
Init ==
    /\ structs = [s \in {} |-> NoLayout]
    /\ ctxStack = <<>>
    /\ stray = FALSE
    /\ quirks = {}

Next ==
    \/ \E s \in StructNames : DeclareStruct(s)
    \/ BeginFunction
    \/ \E x \in Names, t \in ValueTypes : AddParam(x, t) \/ DeclareConst(x, t)
    \/ \E x \in Names, t \in VarTypes : DeclareStructVar(x, t)
    \/ \E x \in Names, t \in VarTypes, i \in BOOLEAN : DeclareVar(x, t, i)
    \/ EndFunction
    \/ \E x \in Names : AssignVar(x) \/ AssignMember(x) \/ AssignElement(x)
    \/ \E q \in Quotas : OpenExpression(q)
    \/ PushTmp
    \/ CloseExpression

Spec == Init /\ [][Next]_vars

----------------------------------------------------------------------------
(* Properties *)

Quirks == {"undeclared", "tail", "shadow", "relayout", "ptrArray", "structArray"}

Slot == [lo : Nat, hi : Nat, type : VarTypes \cup ValueTypes]

Param   == [name : Names, slot : Nat]
Pending == [base : Nat, quota : Quotas]

Context ==
    [cur : Nat, max : Nat, vars : [Names -> Nat], slots : Seq(Slot),
     temps : Seq(Nat), pending : Seq(Pending),
     params : Seq(Param)]

\* Every variable of the visitor stays in its type; a name points to a slot of
\* its own function.
TypeOK ==
    /\ DOMAIN structs \subseteq StructNames
    /\ \A s \in DOMAIN structs : structs[s] \in Layouts[s] \cup {NoLayout}
    /\ ctxStack \in Seq(Context)
    /\ \A d \in 1..Len(ctxStack) :
         /\ \A x \in Names : ctxStack[d].vars[x] <= Len(ctxStack[d].slots)
         /\ \A i \in 1..Len(ctxStack[d].params) :
              /\ ctxStack[d].params[i].slot \in 1..Len(ctxStack[d].slots)
              /\ ctxStack[d].vars[ctxStack[d].params[i].name] # 0
    /\ stray \in BOOLEAN
    /\ quirks \subseteq Quirks

\* Storage the generated code relies on is never given out twice: in every
\* open function, the slots of all declarations (names that were redeclared or
\* whose block has ended included, since pointers to them may live on) and the
\* temporaries of the expressions being evaluated are pairwise disjoint.  The
\* exception is a program that has declared a variable of an unknown struct
\* type: alignUp(x, 0) = 0 restarts the frame at its top.
SlotsDisjoint ==
    "undeclared" \notin quirks =>
    \A d \in 1..Len(ctxStack) :
      LET c == ctxStack[d]
      IN  /\ \A i, j \in 1..Len(c.slots) : i < j => c.slots[i].hi <= c.slots[j].lo
          /\ \A i \in 1..Len(c.slots), k \in 1..Len(c.temps) :
               c.slots[i].hi <= c.temps[k] - 8
          /\ \A k, l \in 1..Len(c.temps) : k < l => c.temps[k] <= c.temps[l] - 8

\* The prologue, whose size is known only when the body has been visited,
\* reserves every byte the body was given: no slot and no temporary lies below
\* the frame, where a callee would overwrite it.
FrameCoversBody ==
    \A d \in 1..Len(ctxStack) :
      LET c == ctxStack[d]
      IN  /\ \A i \in 1..Len(c.slots) : 32 + c.slots[i].hi <= FrameSize(c)
          /\ \A k \in 1..Len(c.temps) : 32 + c.temps[k] <= FrameSize(c)

\* freeTmp only subtracts 8 from currentStackOffset; that this gives back the
\* temporary the node remembers, and not one another node still holds, rests
\* on every node popping exactly what it pushed, last in first out.
TempsLIFO ==
    \A d \in 1..Len(ctxStack) :
      LET c == ctxStack[d]
      IN  \A k \in 1..Len(c.temps) : c.temps[k] = c.cur - 8 * (Len(c.temps) - k)

\* In a program without quirks every emitted store writes only bytes of the
\* slot it is meant for: the zeroing of structs and arrays, initialisers,
\* assignments to variables, members and elements, the prologue's parameter
\* stores, spilled temporaries.
StoresInSlot == quirks = {} => ~stray

\* rbp is a multiple of 16, so a scalar or pointer whose offset is a multiple of
\* its size is naturally aligned: alignUp is applied before the size is added.
WordsAligned ==
    \A d \in 1..Len(ctxStack) : \A i \in 1..Len(ctxStack[d].slots) :
      LET s == ctxStack[d].slots[i]
      IN  IsWord(s.type) => s.hi % (s.hi - s.lo) = 0

\* The Win64 convention at every call: rsp is a multiple of 16 when the call
\* instruction runs, the stack arguments lie inside the area the caller took,
\* above the callee's 32 bytes of home space, and the callee looks for each of
\* them where the caller put it.
CallsWellFormed ==
    \A d \in 1..Len(ctxStack) : \A n \in 0..MaxArgs :
          /\ (FrameSize(ctxStack[d]) + CallFrame(n)) % 16 = 0
          /\ \A i \in 4..n - 1 :
               /\ 32 <= OutgoingArg(i) /\ OutgoingArg(i) + 8 <= CallFrame(n)
               /\ IncomingArg(i) - 16 = OutgoingArg(i)

\* The declaration of a by-value struct, which comes with stores that zero it,
\* leaves the parameters, constants and scalar variables that the function has
\* as they are.
StructsLeaveOthers ==
    quirks \subseteq {"tail"} =>
    \A d \in 1..Len(ctxStack) : \A x, y \in Names :
      LET c     == ctxStack[d]
          other == c.slots[c.vars[x]]
          s     == c.slots[c.vars[y]]
      IN  (c.vars[x] # 0 /\ c.vars[y] # 0 /\ IsStructValue(s.type)
           /\ ~IsStructValue(other.type)) =>
            \A st \in Zeroing(s, s.hi - s.lo) : st.hi <= other.lo \/ other.hi <= st.lo
=============================================================================
