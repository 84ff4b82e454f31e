---------------------------- MODULE MCRectangles ----------------------------
(* Small instances of Rectangles.  All blocks of a kind are alike. *)
EXTENDS Rectangles, TLC

Blocks == Permutations(Process) \cup Permutations(Rect)
=============================================================================
