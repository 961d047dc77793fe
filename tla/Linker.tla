------------------------------- MODULE Linker -------------------------------
(***************************************************************************)
(* LinkerInstance, the internal linker: one COFF object, as NASM writes    *)
(* it, becomes a PE executable (PELinker.cpp). The stages of execute() are *)
(* actions, the loops over sections and relocations an action per turn.    *)
(*                                                                         *)
(* Bytes are abstracted to what references depend on: the place and size   *)
(* of each section, the 4-byte fields that relocations patch, the cells of *)
(* the import address table and the displacements of the thunks. Addresses *)
(* are natural numbers: images are far below 2^31 bytes.                   *)
(***************************************************************************)
EXTENDS Integers, SequencesExt

CONSTANTS
    Objects,       \* object files: sections with their relocations, and symbols
    ImportTables,  \* functions from imported symbols to DLLs
    SectionNames,  \* names of sections
    Entry,         \* the entry symbol
    NameSize,      \* the length of a symbol's or a DLL's name
    Rank           \* the order that std::map and std::sort put names in

Relocation == [at: Nat, symbol: Nat, type: STRING, addend: Int]

ASSUME SectionNamesAssumption == {".idata", ".thnk"} \subseteq SectionNames

\* Objects are what NASM writes: a symbol's section exists, and no two relocations
\* of a section patch the same place.
ASSUME ObjectsAssumption ==
    \A o \in Objects :
        /\ o.sections \in Seq([name: SectionNames, size: Nat, relocs: Seq(Relocation)])
        /\ o.syms \in Seq([name: STRING, section: Int, value: Nat])
        /\ \A k \in DOMAIN o.syms : o.syms[k].section <= Len(o.sections)
        /\ \A i \in DOMAIN o.sections : \A k, l \in DOMAIN o.sections[i].relocs :
              o.sections[i].relocs[k].at = o.sections[i].relocs[l].at => k = l

VARIABLES
    pc,         \* the stage of execute()
    object,     \* what readObject and parseCoff find
    imports,    \* symbol -> DLL
    outSecs,    \* the sections of the image
    dlls,       \* dllLayoutsCache: the places of the import table's parts
    tableEnd,   \* the size of the import table written so far
    section,    \* the section that a loop is at
    reloc,      \* the relocation of that section
    curRva, curRaw,
    symRva,     \* addresses of the object's symbols, by name
    iatRva,     \* addresses of import address table cells, by symbol
    thunkRva,   \* addresses of thunks, by symbol
    jump,       \* the displacement in each thunk
    field,      \* the 4-byte field at <<section, offset>>
    exe,        \* the entry address in the file written, or 0
    error       \* why execute() returned false

input == <<object, imports>>
layout == <<outSecs, dlls, tableEnd, curRva, curRaw>>
links == <<symRva, iatRva, thunkRva, jump>>
vars == <<pc, input, layout, section, reloc, links, field, exe, error>>

SectionAlignment == 4096
FileAlignment    == 512
ThunkSize        == 16   \* jmp [rip + disp32], 6 bytes, padded with nops
DescriptorSize   == 20
HeaderSize       == 392  \* DOS header and stub, signature, file and optional header
SectionHeaderSize == 40

RoundUp(x, a) == ((x + a - 1) \div a) * a

\* The names of S up to x.
UpToName(S, x) == {y \in S : Rank[y] <= Rank[x]}
Sorted(S) == [i \in 1 .. Cardinality(S) |-> CHOOSE x \in S : Cardinality(UpToName(S, x)) = i]

EmptyMap == [x \in {} |-> 0]

-----------------------------------------------------------------------------
(* The import table. *)

FunctionsOf(im, d) == Sorted({f \in DOMAIN im : im[f] = d})

DllNames(im) == Sorted({im[f] : f \in DOMAIN im})

\* One descriptor for each DLL and a null one, then the DLLs' parts.
DescriptorsEnd(im) == (Len(DllNames(im)) + 1) * DescriptorSize

\* The driver's import table: finitely many names, of known lengths, and an order in which
\* no two symbols are equal and no two DLLs.
ASSUME ImportTablesAssumption ==
    \A im \in ImportTables :
        /\ IsFiniteSet(DOMAIN im)
        /\ \A f \in DOMAIN im :
              /\ NameSize[f] \in Nat /\ NameSize[im[f]] \in Nat
              /\ Rank[f] \in Nat /\ Rank[im[f]] \in Nat
        /\ \A f, g \in DOMAIN im :
              /\ Rank[f] = Rank[g] => f = g
              /\ Rank[im[f]] = Rank[im[g]] => im[f] = im[g]

-----------------------------------------------------------------------------
Init ==
    /\ pc = "read"
    /\ object \in Objects
    /\ imports \in ImportTables
    /\ outSecs = <<>> /\ dlls = <<>> /\ tableEnd = 0
    /\ section = 1 /\ reloc = 1
    /\ curRva = 0 /\ curRaw = 0
    /\ symRva = EmptyMap /\ iatRva = EmptyMap /\ thunkRva = EmptyMap
    /\ jump = EmptyMap /\ field = EmptyMap
    /\ exe = 0
    /\ error = "none"

Fail(why) ==
    /\ pc' = "done"
    /\ error' = why
    /\ UNCHANGED <<input, layout, section, reloc, links, field, exe>>

\* readObject and parseCoff. The file may be missing, too small, or of another machine.
ReadObject ==
    /\ pc = "read"
    /\ \/ Fail("object")
       \/ /\ pc' = "prepare"
          /\ UNCHANGED <<input, layout, section, reloc, links, field, exe, error>>

OutSec(name, size, relocs) ==
    [name |-> name, size |-> size, relocs |-> relocs, rva |-> 0, raw |-> 0, rawSize |-> 0]

\* The places that relocations patch hold their addends, as NASM wrote them.
Fields ==
    UNION {{<<i, object.sections[i].relocs[k].at>> : k \in DOMAIN object.sections[i].relocs} :
              i \in DOMAIN object.sections}
AddendAt(p) ==
    (CHOOSE r \in ToSet(object.sections[p[1]].relocs) : r.at = p[2]).addend

\* Section number i of the object is output section i.
PrepareOutputSections ==
    /\ pc = "prepare"
    /\ outSecs' = [i \in DOMAIN object.sections |->
                      OutSec(object.sections[i].name, object.sections[i].size,
                             object.sections[i].relocs)]
    /\ field' = [p \in Fields |-> AddendAt(p)]
    /\ pc' = "idata"
    /\ UNCHANGED <<input, dlls, tableEnd, curRva, curRaw, section, reloc, links, exe, error>>

-----------------------------------------------------------------------------
(* buildImportTable *)

BeginImportTable ==
    /\ pc = "idata"
    /\ tableEnd' = DescriptorsEnd(imports)
    /\ pc' = "dlls"
    /\ UNCHANGED <<input, outSecs, dlls, curRva, curRaw, section, reloc, links, field, exe, error>>

\* Mutation of DllLayout: no null cell ends the lookup table.
DllLayoutUnterminated(d) ==
    LET funcs == FunctionsOf(imports, d)
        ilt   == RoundUp(tableEnd, 8)
        iat   == RoundUp(ilt + 8 * Len(funcs), 8)
    IN  [dll |-> d, funcs |-> funcs, ilt |-> ilt, iat |-> iat,
         name |-> iat + 8 * (Len(funcs) + 1), hints |-> <<>>]

\* The lookup table, the address table (both ended by a null cell) and the DLL's name.
DllLayout(d) ==
    LET funcs == FunctionsOf(imports, d)
        ilt   == RoundUp(tableEnd, 8)
        iat   == RoundUp(ilt + 8 * (Len(funcs) + 1), 8)
    IN  [dll |-> d, funcs |-> funcs, ilt |-> ilt, iat |-> iat,
         name |-> iat + 8 * (Len(funcs) + 1), hints |-> <<>>]

\* Where a DLL's name ends, and the name of its function i.
NameEnd(d)    == d.name + NameSize[d.dll] + 1
HintEnd(d, i) == d.hints[i] + 2 + NameSize[d.funcs[i]] + 1

\* The DLL that the loop is at has all its function names.
NamesWritten == dlls # <<>> => Len(Last(dlls).hints) = Len(Last(dlls).funcs)

AddDll ==
    /\ pc = "dlls"
    /\ NamesWritten
    /\ Len(dlls) < Len(DllNames(imports))
    /\ LET d == DllLayout(DllNames(imports)[Len(dlls) + 1])
       IN  /\ dlls' = Append(dlls, d)
           /\ tableEnd' = NameEnd(d)
    /\ UNCHANGED <<pc, input, outSecs, curRva, curRaw, section, reloc, links, field, exe, error>>

\* A function's name with its 2-byte hint, at an even offset.
AddName ==
    /\ pc = "dlls"
    /\ ~NamesWritten
    /\ LET d == [Last(dlls) EXCEPT !.hints = Append(@, RoundUp(tableEnd, 2))]
       IN  /\ dlls' = [dlls EXCEPT ![Len(dlls)] = d]
           /\ tableEnd' = HintEnd(d, Len(d.hints))
    /\ UNCHANGED <<pc, input, outSecs, curRva, curRaw, section, reloc, links, field, exe, error>>

EndImportTable ==
    /\ pc = "dlls"
    /\ NamesWritten
    /\ Len(dlls) = Len(DllNames(imports))
    /\ outSecs' = Append(outSecs, OutSec(".idata", tableEnd, <<>>))
    /\ pc' = "thunks"
    /\ UNCHANGED <<input, dlls, tableEnd, curRva, curRaw, section, reloc, links, field, exe, error>>

ImportFuncs == Sorted(DOMAIN imports)

BuildThunks ==
    /\ pc = "thunks"
    /\ outSecs' = Append(outSecs, OutSec(".thnk", ThunkSize * Len(ImportFuncs), <<>>))
    /\ pc' = "headers"
    /\ UNCHANGED <<input, dlls, tableEnd, curRva, curRaw, section, reloc, links, field, exe, error>>

-----------------------------------------------------------------------------
(* layoutSections *)

\* Mutation of HeadersSize: the linker's own two sections are not counted.
HeadersSizeOfObject ==
    RoundUp(HeaderSize + Len(object.sections) * SectionHeaderSize, FileAlignment)

HeadersSize == RoundUp(HeaderSize + Len(outSecs) * SectionHeaderSize, FileAlignment)

BeginLayout ==
    /\ pc = "headers"
    /\ curRva' = RoundUp(HeadersSize, SectionAlignment)
    /\ curRaw' = HeadersSize
    /\ section' = 1
    /\ pc' = "layout"
    /\ UNCHANGED <<input, outSecs, dlls, tableEnd, reloc, links, field, exe, error>>

\* The section s, at the addresses given.
Placed(s, rva, raw) ==
    [name |-> s.name, size |-> s.size, relocs |-> s.relocs,
     rva |-> rva, raw |-> raw, rawSize |-> RoundUp(s.size, FileAlignment)]

LayoutSection ==
    /\ pc = "layout"
    /\ section <= Len(outSecs)
    /\ outSecs' = [outSecs EXCEPT ![section] = Placed(@, curRva, curRaw)]
    /\ curRva' = RoundUp(curRva + outSecs[section].size, SectionAlignment)
    /\ curRaw' = curRaw + RoundUp(outSecs[section].size, FileAlignment)
    /\ section' = section + 1
    /\ UNCHANGED <<pc, input, dlls, tableEnd, reloc, links, field, exe, error>>

-----------------------------------------------------------------------------
(* resolveSymbols *)

\* Mutation of SectionNamed: the first section of that name.
SectionNamedFirst(name) ==
    CHOOSE i \in DOMAIN outSecs :
        /\ outSecs[i].name = name
        /\ \A j \in 1 .. i - 1 : outSecs[j].name # name

\* The loop keeps the last section of that name.
SectionNamed(name) ==
    CHOOSE i \in DOMAIN outSecs :
        /\ outSecs[i].name = name
        /\ \A j \in i + 1 .. Len(outSecs) : outSecs[j].name # name

\* Symbols that have a section. Of several with one name the last is kept.
DefinedNames == {s.name : s \in {t \in ToSet(object.syms) : t.section > 0}}
Defines(k, name) == object.syms[k].name = name /\ object.syms[k].section > 0
LastSymbol(name) ==
    object.syms[CHOOSE k \in DOMAIN object.syms :
                   /\ Defines(k, name)
                   /\ \A j \in k + 1 .. Len(object.syms) : ~Defines(j, name)]

ThunkOffset(f) == ThunkSize * ((CHOOSE k \in DOMAIN ImportFuncs : ImportFuncs[k] = f) - 1)

CellOffset(f) ==
    LET d == CHOOSE d \in ToSet(dlls) : d.dll = imports[f]
        i == CHOOSE i \in DOMAIN d.funcs : d.funcs[i] = f
    IN  d.iat + 8 * (i - 1)

ResolveSymbols ==
    /\ pc = "layout"
    /\ section > Len(outSecs)
    /\ symRva' = [n \in DefinedNames |->
                     outSecs[LastSymbol(n).section].rva + LastSymbol(n).value]
    /\ LET idata == outSecs[SectionNamed(".idata")].rva
           thunk == outSecs[SectionNamed(".thnk")].rva
       IN  /\ iatRva'   = [f \in DOMAIN imports |-> idata + CellOffset(f)]
           /\ thunkRva' = [f \in DOMAIN imports |-> thunk + ThunkOffset(f)]
    /\ jump' = [f \in DOMAIN imports |-> iatRva'[f] - (thunkRva'[f] + 6)]
    /\ section' = 1
    /\ reloc' = 1
    /\ pc' = "relocate"
    /\ UNCHANGED <<input, layout, field, exe, error>>

-----------------------------------------------------------------------------
(* applyRelocations *)

\* Mutation of Target: a name that is nowhere resolves to the start of the image.
TargetLenient(n) ==
    IF n \in DOMAIN imports THEN thunkRva[n]
    ELSE IF n \in DOMAIN symRva THEN symRva[n] ELSE HeadersSize

\* Imports come first; a name that is nowhere yields 0.
Target(n) ==
    IF n \in DOMAIN imports THEN thunkRva[n]
    ELSE IF n \in DOMAIN symRva THEN symRva[n] ELSE 0

\* Mutation of Displacement: counted from the field and not from its end.
DisplacementFromField(target, addend, r) == target + addend - (outSecs[section].rva + r.at)

Displacement(target, addend, r) == target + addend - (outSecs[section].rva + r.at + 4)

\* Only REL32 is applied; other types leave the field as it is.
Relocate ==
    /\ pc = "relocate"
    /\ section <= Len(outSecs)
    /\ reloc <= Len(outSecs[section].relocs)
    /\ LET r      == outSecs[section].relocs[reloc]
           target == Target(object.syms[r.symbol].name)
           place  == <<section, r.at>>
       IN  IF target = 0 THEN Fail("unresolved")
           ELSE /\ field' = IF r.type = "REL32"
                            THEN [field EXCEPT ![place] = Displacement(target, @, r)]
                            ELSE field
                /\ reloc' = reloc + 1
                /\ UNCHANGED <<pc, input, layout, section, links, exe, error>>

\* Mutation of NextSection: the inner loop goes on where it was.
NextSectionNoReset ==
    /\ pc = "relocate"
    /\ section <= Len(outSecs)
    /\ reloc > Len(outSecs[section].relocs)
    /\ section' = section + 1
    /\ UNCHANGED <<pc, input, layout, reloc, links, field, exe, error>>

NextSection ==
    /\ pc = "relocate"
    /\ section <= Len(outSecs)
    /\ reloc > Len(outSecs[section].relocs)
    /\ section' = section + 1
    /\ reloc' = 1
    /\ UNCHANGED <<pc, input, layout, links, field, exe, error>>

\* emitPe looks up the entry symbol, among the defined symbols only, and writes the file.
EmitPe ==
    /\ pc = "relocate"
    /\ section > Len(outSecs)
    /\ \/ /\ Entry \notin DOMAIN symRva
          /\ Fail("entry")
       \/ /\ Entry \in DOMAIN symRva
          /\ \/ Fail("write")
             \/ /\ exe' = symRva[Entry]
                /\ pc' = "done"
                /\ UNCHANGED <<input, layout, section, reloc, links, field, error>>

Next ==
    \/ ReadObject
    \/ PrepareOutputSections
    \/ BeginImportTable
    \/ AddDll
    \/ AddName
    \/ EndImportTable
    \/ BuildThunks
    \/ BeginLayout
    \/ LayoutSection
    \/ ResolveSymbols
    \/ Relocate
    \/ NextSection
    \/ EmitPe

Spec == Init /\ [][Next]_vars

-----------------------------------------------------------------------------
(* Properties *)

LaidOut == pc = "relocate" \/ (pc = "done" /\ error # "object")
Linked  == pc = "done" /\ error = "none"

ImageSection ==
    [name: SectionNames, size: Nat, relocs: Seq(Relocation), rva: Nat, raw: Nat, rawSize: Nat]

\* The loops stay inside the sections and relocations they run over, and what
\* they have filled in is of the kind that the later stages read.
TypeOK ==
    /\ pc \in {"read", "prepare", "idata", "dlls", "thunks", "headers", "layout",
              "relocate", "done"}
    /\ object \in Objects /\ imports \in ImportTables
    /\ outSecs \in Seq(ImageSection)
    /\ section \in 1 .. Len(outSecs) + 1
    /\ section <= Len(outSecs) => reloc \in 1 .. Len(outSecs[section].relocs) + 1
    /\ tableEnd \in Nat /\ curRva \in Nat /\ curRaw \in Nat
    /\ pc # "done" => exe = 0
    /\ LaidOut => DOMAIN jump = DOMAIN imports
    /\ error \in {"none", "object", "unresolved", "entry", "write"}

RawEnd(s) == s.raw + s.rawSize
RvaEnd(s) == s.rva + s.size

HeadersEnd == HeaderSize + Len(outSecs) * SectionHeaderSize

\* The section s lies behind the headers and below the next free addresses.
Fits(s) ==
    /\ s.rva >= HeadersEnd /\ s.rva % SectionAlignment = 0 /\ RvaEnd(s) <= curRva
    /\ s.raw >= HeadersEnd /\ s.raw % FileAlignment = 0 /\ RawEnd(s) <= curRaw
    /\ s.rawSize >= s.size

\* So do the first n sections, and none of them overlaps another.
PlacedWell(n) ==
    /\ \A i \in 1 .. n : Fits(outSecs[i])
    /\ \A i, j \in 1 .. n : i < j =>
          /\ RvaEnd(outSecs[i]) <= outSecs[j].rva
          /\ RawEnd(outSecs[i]) <= outSecs[j].raw

\* The image that layoutSections plans is one that can be loaded: the section
\* headers end before the first section's bytes, in the file and in memory
\* sections follow each other without overlap, each aligned, and all of them lie
\* within SizeOfImage and the file's size.
ImageWellFormed == LaidOut => PlacedWell(Len(outSecs))

\* The cells of the address tables.
Cells ==
    UNION {{[dll |-> d.dll, func |-> d.funcs[i], offset |-> d.iat + 8 * (i - 1)] :
               i \in DOMAIN d.funcs} : d \in ToSet(dlls)}

\* What the parts of the import table occupy in .idata: null descriptor, null
\* cells and terminating zeros included.
TableParts(d) ==
    {<<d.ilt, d.ilt + 8 * (Len(d.funcs) + 1)>>,
     <<d.iat, d.iat + 8 * (Len(d.funcs) + 1)>>,
     <<d.name, NameEnd(d)>>}
    \cup {<<d.hints[i], HintEnd(d, i)>> : i \in 1 .. Len(d.hints)}
ImportTableParts ==
    {<<0, DescriptorsEnd(imports)>>} \cup UNION {TableParts(d) : d \in ToSet(dlls)}

\* The system's loader walks descriptors and cells up to a null one and writes
\* addresses into the cells: no part of the table overlaps another, all are inside
\* .idata, and each imported function has exactly one cell, under its own DLL.
ImportTableWellFormed ==
    LaidOut =>
        /\ \A p, q \in ImportTableParts : p = q \/ p[2] <= q[1] \/ q[2] <= p[1]
        /\ \A p \in ImportTableParts : p[2] <= outSecs[Len(outSecs) - 1].size
        /\ \A f \in DOMAIN imports :
              \E c \in Cells : {x \in Cells : x.func = f} = {c} /\ c.dll = imports[f]

\* The functions that the system's loader stores at address a of the image.
BoundAt(a) ==
    {c.func : c \in {x \in Cells : a = outSecs[Len(outSecs) - 1].rva + x.offset}}

\* The object defines n, and its section was put where n is at address a.
DefinedAt(n, a) ==
    \E s \in ToSet(object.syms) :
        s.name = n /\ s.section > 0 /\ a = outSecs[s.section].rva + s.value

\* Every applied reference leads where the source meant it to: to the byte of a
\* section that defines the symbol, wherever that section was put, or through a
\* thunk of .thnk to the cell where the system stores the imported function. The
\* program starts at the entry symbol. Of a name that is both imported and defined
\* the import is meant, because applyRelocations looks there first.
ReferencesReach ==
    Linked =>
        /\ \A i \in DOMAIN object.sections : \A r \in ToSet(object.sections[i].relocs) :
              LET n == object.syms[r.symbol].name
                  a == outSecs[i].rva + r.at + 4 + field[<<i, r.at>>] - r.addend
              IN  r.type = "REL32" =>
                    IF n \in DOMAIN imports
                    THEN /\ a = outSecs[Len(outSecs)].rva + ThunkOffset(n)
                         /\ BoundAt(a + 6 + jump[n]) = {n}
                    ELSE DefinedAt(n, a)
        /\ DefinedAt(Entry, exe)

Resolvable(r) == object.syms[r.symbol].name \in DOMAIN imports \cup DefinedNames
AllRelocs == UNION {ToSet(object.sections[i].relocs) : i \in DOMAIN object.sections}

\* A file is written only if every relocation, of whatever type, names something
\* and the entry is defined; and the linker says so only if that is not the case.
\* Address 0, which marks an unknown symbol, is the address of no known one.
FailsExactly ==
    /\ exe # 0 => Linked
    /\ Linked => (\A r \in AllRelocs : Resolvable(r)) /\ Entry \in DefinedNames
    /\ error = "unresolved" => \E r \in AllRelocs : ~Resolvable(r)
    /\ error = "entry" => Entry \notin DefinedNames
=============================================================================
