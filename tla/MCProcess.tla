----------------------------- MODULE MCProcess ------------------------------
(* Small instances of Process.  All blocks are alike. *)
EXTENDS Process, TLC

Blocks == Permutations(Block)
=============================================================================
