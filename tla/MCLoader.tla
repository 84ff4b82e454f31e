------------------------------ MODULE MCLoader ------------------------------
(***************************************************************************)
(* Small disks: a program, and libraries a, b and c that may need each     *)
(* other, in a circle as well; b may need the program itself.  Both a and  *)
(* b export x, so that the order of the needed libraries matters.  Library *)
(* c is there, or is missing, unreadable, no ELF file, or an ELF file the  *)
(* loader refuses.                                                         *)
(***************************************************************************)
EXTENDS Loader, TLC

CONSTANTS app, a, b, c, x, y, long

MCFile == {app, a, b, c}
MCSymbol == {x, y, long}

LibraryC == {[kind |-> k, exports |-> <<y>>, relocations |-> <<>>] :
                k \in {"missing", "unreadable", "raw", "library"}}
            \cup {[kind |-> "library", exports |-> <<y, long>>, relocations |-> <<>>],
                  [kind |-> "library", exports |-> <<y>>, relocations |-> <<Unsupported>>]}

Contents(needsApp, needsA, needsB, fileC) ==
    [kind |-> app :> "program" @@ a :> "library" @@ b :> "library" @@ c :> fileC.kind,
     needed |-> app :> needsApp @@ a :> needsA @@ b :> needsB @@ c :> <<>>,
     exports |-> app :> <<>> @@ a :> <<x>> @@ b :> <<y, x>> @@ c :> fileC.exports,
     relocations |-> app :> <<x, Relative, y>> @@ a :> <<Relative, y>> @@ b :> <<>>
                     @@ c :> fileC.relocations]

MCDisk == {Contents(needsApp, needsA, needsB, fileC) :
               needsApp \in {<<a>>, <<a, b>>, <<c, a>>},
               needsA \in {<<>>, <<b>>, <<c>>},
               needsB \in {<<a>>, <<c>>, <<app>>},
               fileC \in LibraryC}
=============================================================================
