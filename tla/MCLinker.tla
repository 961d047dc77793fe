------------------------------ MODULE MCLinker ------------------------------
(***************************************************************************)
(* A small instance of Linker for TLC. The object has a code section and   *)
(* perhaps a second one, empty, ending at or just beyond a page, and       *)
(* perhaps named like the linker's own. Symbols are defined in either, or  *)
(* undefined, or twice.                                                    *)
(***************************************************************************)
EXTENDS Linker

MCRank     == [main |-> 1, exit |-> 2, f |-> 3, g |-> 4] @@ [kernel |-> 5, user |-> 6]
MCNameSize == [main |-> 4, exit |-> 11, f |-> 1, g |-> 2] @@ [kernel |-> 12, user |-> 10]

Rel(at, symbol, type, addend) ==
    [at |-> at, symbol |-> symbol, type |-> type, addend |-> addend]
Sec(name, size, relocs) == [name |-> name, size |-> size, relocs |-> relocs]

CodeRelocs ==
    {<<Rel(0, 2, "REL32", a), Rel(8, s, t, 0)>> :
        a \in {0, 4}, s \in {2, 3}, t \in {"REL32", "ADDR64"}}
Code  == {Sec(".text", 16, rs) : rs \in CodeRelocs}
Other == {Sec(n, z, <<>>) : n \in {".rdata", ".idata"}, z \in {0, 512, 4097}}
         \cup {Sec(".rdata", 4096, <<Rel(40, 1, "REL32", 0), Rel(48, 3, "REL32", 0)>>)}
Sections == {<<c>> : c \in Code} \cup {<<c, o>> : c \in Code, o \in Other}

Sym(name, sec, value) == [name |-> name, section |-> sec, value |-> value]
Symbols ==
    {<<Sym("main", m, 0), Sym("f", i, 4), Sym(n, j, 8)>> :
        m \in 0 .. 1, i \in 0 .. 2, n \in {"f", "g"}, j \in 0 .. 2}

MCObjects ==
    {o \in [sections: Sections, syms: Symbols] :
        \A k \in DOMAIN o.syms : o.syms[k].section <= Len(o.sections)}

\* The driver always adds ExitProcess.
MCImportTables ==
    {[exit |-> "kernel"], [exit |-> "kernel", f |-> "kernel"],
     [exit |-> "kernel", f |-> "user"], [exit |-> "user", g |-> "kernel"],
     [exit |-> "kernel", f |-> "user", g |-> "kernel"]}
=============================================================================
