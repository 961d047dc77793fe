------------------------------ MODULE MCLoader ------------------------------
(***************************************************************************)
(* Small instances of Loader for TLC.                                      *)
(***************************************************************************)
EXTENDS Loader

\* Two spellings of one file, "lib" and "./lib", besides the root and another.
MCPaths  == {"root", "app", "lib", "./lib"}
MCFiles  == {"root", "app", "lib"}
MCFileOf == [p \in MCPaths |-> IF p = "./lib" THEN "lib" ELSE p]

\* At most two imports in a file, the same one twice included.
MCPrograms == [MCFiles -> UNION {[1..n -> MCPaths] : n \in 0..2}]
MCBadSets  == {{}, {"app"}, {"lib"}, {"root"}}
=============================================================================
