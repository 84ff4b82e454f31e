------------------------------- MODULE MCHeap -------------------------------
(* The heap under TLC, and its block search against the loop of the code.  *)
EXTENDS Heap

(***************************************************************************)
(* The for loop of heap_get_start_block, one iteration after the other:    *)
(* bc and bs are its variables, done its break.  Its value is the start    *)
(* block, or -1 for -ENOMEM.                                               *)
(***************************************************************************)
ScanLoop(n) ==
    LET scan[i \in 0 .. Total] ==
          IF i = 0 THEN [bc |-> 0, bs |-> -1, done |-> FALSE]
          ELSE LET p  == scan[i - 1]
                   bs == IF p.bs = -1 THEN i - 1 ELSE p.bs
               IN  IF p.done THEN p
                   ELSE IF table[i - 1].taken THEN [p EXCEPT !.bc = 0, !.bs = -1]
                   ELSE [bc |-> p.bc + 1, bs |-> bs, done |-> p.bc + 1 = n]
    IN  scan[Total].bs

(* In every table the kernel reaches, and for every request, the loop of   *)
(* heap_get_start_block returns block s exactly if StartBlockFound(s, n),  *)
(* and -ENOMEM exactly if StartBlockENOMEM(n): first fit, and otherwise a  *)
(* trailing run that is too short.                                         *)
ScanIsFirstFit ==
    \A n \in {TotalBlocks(size) : size \in Sizes} :
        /\ \A s \in Block : StartBlockFound(s, n) <=> ScanLoop(n) = s
        /\ StartBlockENOMEM(n) <=> ScanLoop(n) = -1
=============================================================================
