---------------------------- MODULE MCUserMemory ----------------------------
(***************************************************************************)
(* Pages of four bytes.  One program is a binary of a page and a half, one *)
(* an ELF file whose text and data meet inside a page of the file, and are *)
(* a page apart in memory; it needs a library of a page and a bit.         *)
(***************************************************************************)
EXTENDS UserMemory, TLC

Blocks == Permutations(Process)

MCFile == {[type |-> "binary", size |-> 6, headers |-> <<>>, needed |-> FALSE],
           [type |-> "elf", size |-> 7, needed |-> TRUE,
            headers |-> <<[vaddr |-> 4 * 4, offset |-> 0, filesz |-> 3, write |-> FALSE],
                          [vaddr |-> 5 * 4 + 3, offset |-> 3, filesz |-> 4, write |-> TRUE]>>]}
=============================================================================
