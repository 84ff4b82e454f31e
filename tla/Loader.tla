------------------------------- MODULE Loader -------------------------------
(***************************************************************************)
(* The ELF loader of loader/formats/elf/elfloader.c, the list of shared    *)
(* libraries of loader/library.c, and how task/process.c loads a program   *)
(* with them.                                                              *)
(*                                                                         *)
(* A load is one handler of the kernel, but it calls itself: elf_load of a *)
(* file loads the libraries the file needs, which need libraries in turn.  *)
(* The stack of these calls is a variable and the stages of elf_load are   *)
(* the actions, so that what one load leaves half done when it calls or    *)
(* fails can be seen by the next.                                          *)
(*                                                                         *)
(* An address is named by the library on the list that it leads into.      *)
(***************************************************************************)
EXTENDS Integers, Sequences

CONSTANTS File,            \* the names of the files
          Symbol,          \* the names of the symbols
          Overlong,        \* the symbols whose names reach SYMBOL_NAME_MAX
          Relative,        \* a relocation R_386_RELATIVE
          Unsupported,     \* a relocation of any other type
          Disk,            \* the contents the disk may have
          MaxFiles         \* COS32_MAX_FILE_DESCRIPTORS

Kind == {"missing", "unreadable", "raw", "program", "library"}
Relocation == Symbol \cup {Relative, Unsupported}

ASSUME LoaderAssumption ==
    /\ Overlong \subseteq Symbol
    /\ Relative # Unsupported
    /\ {Relative, Unsupported} \cap Symbol = {}
    /\ MaxFiles \in Nat
    /\ Disk \subseteq [kind : [File -> Kind],
                       needed : [File -> Seq(File)],
                       exports : [File -> Seq(Symbol)],
                       relocations : [File -> Seq(Relocation)]]

VARIABLES disk,         \* the files, which never change
          libraries,    \* library_head, as a sequence
          stack,        \* the calls of elf_load in progress
          descriptors,  \* how many file descriptors were ever given out
          programs,     \* the programs loaded
          shortage      \* history: a file was not opened for want of a descriptor

lvars == <<disk, libraries, stack, descriptors, programs, shortage>>

(* The address 0, and the value of a relative relocation. *)
NoLibrary == 0
Own == -1

Top == stack[Len(stack)]
Caller == stack[Len(stack) - 1]
Enter(f) == [file |-> f, stage |-> "open", tag |-> 1, entry |-> 0,
             result |-> "none", slots |-> <<>>]
At(stage) == stack # <<>> /\ Top.stage = stage
Stay(frame) == stack' = [stack EXCEPT ![Len(stack)] = frame]

(* library_get: the first of that name on the list, or none.              *)
library_get(name) ==
    LET named == {i \in DOMAIN libraries : libraries[i].name = name}
    IN  IF named = {} THEN NoLibrary
        ELSE CHOOSE i \in named : \A j \in named : i <= j

(***************************************************************************)
(* elf_load returns: its caller goes on to the next tag, or fails with the *)
(* same error.  The first call was made by process_load_elf, which looks   *)
(* at the result.                                                          *)
(***************************************************************************)
Return(result) ==
    stack' =
        IF Len(stack) = 1
        THEN <<[Top EXCEPT !.stage = result]>>
        ELSE [i \in 1 .. Len(stack) - 1 |->
                IF i < Len(stack) - 1 THEN stack[i]
                ELSE IF result \in {"loaded", "nothing"}
                     THEN [Caller EXCEPT !.tag = @ + 1]
                     ELSE [Caller EXCEPT !.stage = "out", !.result = result]]

(* fopen: a descriptor is given out once and never again. *)
CanOpen(f) == disk.kind[f] # "missing" /\ descriptors < MaxFiles

-----------------------------------------------------------------------------
LoaderInit ==
    /\ disk \in Disk
    /\ libraries = <<>>
    /\ stack = <<>>
    /\ descriptors = 0
    /\ programs = {}
    /\ shortage = FALSE

(* process_load_elf of f calls elf_load. *)
process_load_elf(f) ==
    /\ stack = <<>>
    /\ stack' = <<Enter(f)>>
    /\ UNCHANGED <<disk, libraries, descriptors, programs, shortage>>

(* A file that cannot be opened is no error: fopen returns 0, and so does  *)
(* elf_load.                                                               *)
elf_load_open ==
    /\ At("open")
    /\ IF CanOpen(Top.file)
       THEN /\ descriptors' = descriptors + 1
            /\ IF disk.kind[Top.file] = "unreadable"
               THEN Return("failed")
               ELSE Stay([Top EXCEPT !.stage = "header"])
            /\ UNCHANGED shortage
       ELSE /\ Return("nothing")
            /\ shortage' = (shortage \/ disk.kind[Top.file] # "missing")
            /\ UNCHANGED descriptors
    /\ UNCHANGED <<disk, libraries, programs>>

(* Seeded bug: the library is not on the list until its load is over.      *)
HeaderRegistersNothing ==
    /\ At("header")
    /\ IF disk.kind[Top.file] = "raw" THEN Return("EINFORMAT")
       ELSE Stay([Top EXCEPT !.stage = "pheaders"])
    /\ UNCHANGED <<disk, libraries, descriptors, programs, shortage>>

(* elf_validate_loaded and elf_process_header: a shared library is put on  *)
(* the list at once, before anything of it is loaded.                      *)
elf_process_header ==
    /\ At("header")
    /\ CASE disk.kind[Top.file] = "raw" ->
              Return("EINFORMAT") /\ UNCHANGED libraries
         [] disk.kind[Top.file] = "library" ->
              /\ libraries' = Append(libraries,
                     [name |-> Top.file, symbols |-> {}, sections |-> FALSE,
                      memory |-> TRUE, run |-> Len(stack) = 1])
              /\ Stay([Top EXCEPT !.stage = "pheaders", !.entry = Len(libraries) + 1])
         [] OTHER ->
              Stay([Top EXCEPT !.stage = "pheaders"]) /\ UNCHANGED libraries
    /\ UNCHANGED <<disk, descriptors, programs, shortage>>

(* Seeded bug: the walk over the tags does not go on past a library that   *)
(* is on the list.                                                         *)
NeededStaysAtTag ==
    /\ At("pheaders")
    /\ IF Top.tag > Len(disk.needed[Top.file])
       THEN Stay([Top EXCEPT !.stage = "sections"])
       ELSE IF library_get(disk.needed[Top.file][Top.tag]) # NoLibrary
            THEN UNCHANGED stack
            ELSE stack' = Append(stack, Enter(disk.needed[Top.file][Top.tag]))
    /\ UNCHANGED <<disk, libraries, descriptors, programs, shortage>>

(* elf_process_pheaders: the tags DT_NEEDED, one by one. A library that is *)
(* on the list is not loaded again, whatever became of its load.           *)
elf_process_dynamic_tag_needed ==
    /\ At("pheaders")
    /\ IF Top.tag > Len(disk.needed[Top.file])
       THEN Stay([Top EXCEPT !.stage = "sections"])
       ELSE IF library_get(disk.needed[Top.file][Top.tag]) # NoLibrary
            THEN Stay([Top EXCEPT !.tag = @ + 1])
            ELSE stack' = Append(stack, Enter(disk.needed[Top.file][Top.tag]))
    /\ UNCHANGED <<disk, libraries, descriptors, programs, shortage>>

(* elf_process_sections; those of a program are not looked at. *)
elf_process_sections ==
    /\ At("sections")
    /\ Stay([Top EXCEPT !.stage = "symbols"])
    /\ IF Top.entry = NoLibrary THEN UNCHANGED libraries
       ELSE libraries' = [libraries EXCEPT ![Top.entry].sections = TRUE]
    /\ UNCHANGED <<disk, descriptors, programs, shortage>>

(* Seeded bug: the last symbol of the table is left out.                   *)
ExportedButLast(f) ==
    LET names == disk.exports[f] IN {names[i] : i \in 1 .. Len(names) - 1}

(* The symbols elf_process_symbols exports: all before the first whose     *)
(* name is too long.                                                       *)
Exported(f) ==
    LET names == disk.exports[f]
    IN  {names[i] : i \in {j \in DOMAIN names : \A k \in 1 .. j : names[k] \notin Overlong}}

elf_process_symbols ==
    /\ At("symbols")
    /\ IF Top.entry = NoLibrary
       THEN UNCHANGED libraries /\ Stay([Top EXCEPT !.stage = "relocations"])
       ELSE /\ libraries' = [libraries EXCEPT ![Top.entry].symbols = Exported(Top.file)]
            /\ IF \E i \in DOMAIN disk.exports[Top.file] :
                      disk.exports[Top.file][i] \in Overlong
               THEN Return("failed")
               ELSE Stay([Top EXCEPT !.stage = "relocations"])
    /\ UNCHANGED <<disk, descriptors, programs, shortage>>

(* Seeded bug: any library on the list may define the symbol.              *)
AnyLibraryDefines(f, s) ==
    LET stops == {i \in DOMAIN libraries : s \in libraries[i].symbols}
    IN  IF stops = {} THEN NoLibrary ELSE CHOOSE i \in stops : \A j \in stops : i <= j

(* elf_get_loaded_symbol_address: the first needed library that has the    *)
(* symbol.  The walk ends at a library that is not on the list.            *)
elf_get_loaded_symbol_address(f, s) ==
    LET needed == disk.needed[f]
        stops == {i \in DOMAIN needed :
                    \/ library_get(needed[i]) = NoLibrary
                    \/ s \in libraries[library_get(needed[i])].symbols}
    IN  IF stops = {} THEN NoLibrary
        ELSE library_get(needed[CHOOSE i \in stops : \A j \in stops : i <= j])

(* What elf_resolve_relocation writes into a program.  The relocations of  *)
(* a library are not followed: the entries of its jump table are written   *)
(* to low memory, since elf_get_relocation_address leaves out the base of  *)
(* the library.                                                            *)
elf_resolve_relocation(f, r) ==
    IF r = Relative THEN Own ELSE elf_get_loaded_symbol_address(f, r)

elf_resolve_relocations ==
    /\ At("relocations")
    /\ LET table == disk.relocations[Top.file]
       IN  IF \E i \in DOMAIN table : table[i] = Unsupported
           THEN Return("failed")
           ELSE IF disk.kind[Top.file] = "program" /\ Len(stack) = 1
           THEN Stay([Top EXCEPT !.stage = "loaded",
                        !.slots = [i \in DOMAIN table |->
                                      elf_resolve_relocation(Top.file, table[i])]])
           ELSE Return("loaded")
    /\ UNCHANGED <<disk, libraries, descriptors, programs, shortage>>

(* A library could not be loaded: neither can the file that needs it, and  *)
(* the error is the one of the library.                                    *)
elf_load_out ==
    /\ At("out")
    /\ Return(Top.result)
    /\ UNCHANGED <<disk, libraries, descriptors, programs, shortage>>

-----------------------------------------------------------------------------
(* library_map_all: the libraries whose sections the new task can reach. *)
library_map_all == {i \in DOMAIN libraries : libraries[i].sections}

(* The program that is loaded, as the process gets it.  It is intact if no *)
(* file was ever missed and no library was first loaded by running it.     *)
Loaded(slots) ==
    [file |-> Top.file, slots |-> slots, mapped |-> library_map_all,
     intact |-> ~shortage /\ \A i \in DOMAIN libraries :
                                   libraries[i].run => i # library_get(libraries[i].name)]

(* process_load_elf takes the file, and process_map_memory maps it. *)
process_map_memory ==
    /\ At("loaded")
    /\ disk.kind[Top.file] = "program"
    /\ programs' = programs \cup {Loaded(Top.slots)}
    /\ stack' = <<>>
    /\ UNCHANGED <<disk, libraries, descriptors, shortage>>

(* A library is no program: elf_close frees its memory, but the library    *)
(* stays on the list.                                                      *)
process_load_elf_refused ==
    /\ At("loaded")
    /\ disk.kind[Top.file] = "library"
    /\ libraries' = [libraries EXCEPT ![Top.entry].memory = FALSE]
    /\ stack' = <<>>
    /\ UNCHANGED <<disk, descriptors, programs, shortage>>

(* process_load_binary_data: what is not an ELF file is loaded as it is,   *)
(* and so is a program that needs a library which is not an ELF file: the  *)
(* error is the same.                                                      *)
process_load_binary_data ==
    /\ At("EINFORMAT")
    /\ IF CanOpen(Top.file)
       THEN /\ descriptors' = descriptors + 1
            /\ programs' = programs \cup {Loaded(<<>>)}
            /\ UNCHANGED shortage
       ELSE shortage' = TRUE /\ UNCHANGED <<descriptors, programs>>
    /\ stack' = <<>>
    /\ UNCHANGED <<disk, libraries>>

(* process_load gives up.  Of a file that was not opened it reads a header *)
(* at address NULL, which is not that of a program.                        *)
process_load_failed ==
    /\ At("failed") \/ At("nothing")
    /\ stack' = <<>>
    /\ UNCHANGED <<disk, libraries, descriptors, programs, shortage>>

(* What goes on once a load has begun. *)
Continue == \/ elf_load_open
            \/ elf_process_header
            \/ elf_process_dynamic_tag_needed
            \/ elf_process_sections
            \/ elf_process_symbols
            \/ elf_resolve_relocations
            \/ elf_load_out
            \/ process_map_memory
            \/ process_load_elf_refused
            \/ process_load_binary_data
            \/ process_load_failed

LoaderNext == Continue \/ \E f \in File : process_load_elf(f)

(* The kernel runs a load to its end, with interrupts off. *)
LoaderSpec == LoaderInit /\ [][LoaderNext]_lvars /\ WF_lvars(Continue)
-----------------------------------------------------------------------------
Needs(f) == {disk.needed[f][i] : i \in DOMAIN disk.needed[f]}

(***************************************************************************)
(* elf_load never loads a file it is already loading, however the needed   *)
(* libraries refer to each other, as long as none needs a program, which   *)
(* is on no list; and a library is on the list twice only if it was run as *)
(* a program: the test of library_get before the load (elfloader.c:281),   *)
(* and the registration before the needed libraries are looked at          *)
(* (elfloader.c:651), are enough.                                          *)
(***************************************************************************)
NoProgramNeeded == \A f \in File : \A g \in Needs(f) : disk.kind[g] # "program"

LoadedOnce ==
    /\ NoProgramNeeded =>
         \A i, j \in DOMAIN stack : stack[i].file = stack[j].file => i = j
    /\ \A i, j \in DOMAIN libraries :
         i < j /\ libraries[i].name = libraries[j].name => libraries[j].run

(***************************************************************************)
(* A slot of a program's jump table that is not left at 0 leads into a     *)
(* library the program needs, which has the symbol, which the process can  *)
(* reach, and which is the first of those it needs to have it: elf_get_    *)
(* loaded_symbol_address against library_map_all, several files later.     *)
(***************************************************************************)
SlotsLeadToLibraries ==
    \A p \in programs : \A i \in DOMAIN p.slots :
        LET s == disk.relocations[p.file][i]
        IN  s \in Symbol /\ p.slots[i] # NoLibrary =>
                /\ p.slots[i] \in p.mapped
                /\ libraries[p.slots[i]].name \in Needs(p.file)
                /\ s \in Exported(libraries[p.slots[i]].name)

(***************************************************************************)
(* A program whose libraries are as they should be, and theirs in turn, is *)
(* linked: each symbol is that of the first library it needs which exports *)
(* it, and the memory of that library is still there.  It holds whatever   *)
(* was loaded before, in any order, with any failure, as long as no file   *)
(* was ever missed and no library was first run as a program.              *)
(***************************************************************************)
Sound(f) == /\ disk.kind[f] = "library"
            /\ \A i \in DOMAIN disk.exports[f] : disk.exports[f][i] \notin Overlong
            /\ \A i \in DOMAIN disk.relocations[f] : disk.relocations[f][i] # Unsupported

SoundlyNeeds(f) ==
    \E S \in SUBSET File :
        Needs(f) \subseteq S /\ \A g \in S : Sound(g) /\ Needs(g) \subseteq S

Definers(f, s) ==
    {i \in DOMAIN disk.needed[f] :
        \E k \in DOMAIN disk.exports[disk.needed[f][i]] : disk.exports[disk.needed[f][i]][k] = s}

LinksTo(f, s, entry) ==
    \E i \in Definers(f, s) :
        /\ \A j \in Definers(f, s) : i <= j
        /\ libraries[entry].name = disk.needed[f][i]

SoundProgramLinked ==
    \A p \in programs :
        p.intact /\ disk.kind[p.file] = "program" /\ SoundlyNeeds(p.file) =>
            /\ Len(p.slots) = Len(disk.relocations[p.file])
            /\ \A i \in DOMAIN p.slots :
                 LET s == disk.relocations[p.file][i]
                 IN  s \in Symbol /\ Definers(p.file, s) # {} =>
                         /\ p.slots[i] # NoLibrary
                         /\ libraries[p.slots[i]].memory
                         /\ LinksTo(p.file, s, p.slots[i])

(***************************************************************************)
(* A load that began ends, with libraries that need each other as well     *)
(* (elfloader.c:298, the walk over the tags, and the recursion at :291).   *)
(***************************************************************************)
LoadEnds == (stack # <<>>) ~> (stack = <<>>)
=============================================================================
