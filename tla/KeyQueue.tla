------------------------------ MODULE KeyQueue ------------------------------
(***************************************************************************)
(* What the keyboard buffer of a process promises: its keys come out in    *)
(* the order they were typed, each of them once, until more are typed than *)
(* the buffer holds.  From then on nothing is promised.                    *)
(***************************************************************************)
EXTENDS Naturals, Sequences

CONSTANTS Key,     \* the characters a key can stand for
          NoKey,   \* the character 0
          Size     \* how many keys the buffer holds

VARIABLES keys,    \* typed and not read yet
          got,     \* what the last read returned
          lost     \* more keys were typed than the buffer holds

QInit == keys = <<>> /\ got = NoKey /\ lost = FALSE

Put(k) == /\ ~lost
          /\ Len(keys) < Size
          /\ keys' = Append(keys, k)
          /\ UNCHANGED <<got, lost>>

Get == /\ ~lost
       /\ keys # <<>>
       /\ got' = Head(keys)
       /\ keys' = Tail(keys)
       /\ UNCHANGED lost

GetNothing == /\ ~lost
              /\ keys = <<>>
              /\ got' = NoKey
              /\ UNCHANGED <<keys, lost>>

Lose == /\ ~lost
        /\ Len(keys) = Size
        /\ lost' = TRUE
        /\ keys' = <<>>
        /\ UNCHANGED got

Anything == lost /\ UNCHANGED <<keys, lost>>

QNext == (\E k \in Key : Put(k)) \/ Get \/ GetNothing \/ Lose \/ Anything

QSpec == QInit /\ [][QNext]_<<keys, got, lost>>
=============================================================================
