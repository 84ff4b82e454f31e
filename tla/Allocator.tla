----------------------------- MODULE Allocator ------------------------------
(***************************************************************************)
(* What a page allocator promises, and all its users may rely on: memory   *)
(* is handed out in runs of whole blocks that overlap nothing handed out   *)
(* before and not yet returned.  Which run, and whether a request that     *)
(* could be met is met, is left open.  Two things void the promise: the    *)
(* machine stopping, and the allocator's own records being overwritten     *)
(* from outside, after which anything may be handed out.                   *)
(***************************************************************************)
EXTENDS Integers

CONSTANT Total        \* the number of blocks

VARIABLES live,       \* the runs handed out, as [start, len]
          overwritten,
          stopped

avars == <<live, overwritten, stopped>>

Run == [start : 0 .. Total - 1, len : 1 .. Total]
Cells(r) == r.start .. (r.start + r.len - 1)

AInit == live = {} /\ overwritten = FALSE /\ stopped = FALSE

Allocate ==
    /\ ~stopped
    /\ \E r \in Run :
          /\ overwritten \/ ( /\ r.start + r.len <= Total
                              /\ \A h \in live : Cells(r) \cap Cells(h) = {} )
          /\ live' = live \cup {r}
    /\ UNCHANGED <<overwritten, stopped>>

Release ==
    /\ ~stopped
    /\ \E r \in live : live' = live \ {r}
    /\ UNCHANGED overwritten
    /\ UNCHANGED stopped \/ (overwritten /\ stopped' = TRUE)

Overwrite == ~stopped /\ overwritten' = TRUE /\ UNCHANGED <<live, stopped>>

Stop == ~stopped /\ stopped' = TRUE /\ UNCHANGED <<live, overwritten>>

ANext == Allocate \/ Release \/ Overwrite \/ Stop

ASpec == AInit /\ [][ANext]_avars
=============================================================================
