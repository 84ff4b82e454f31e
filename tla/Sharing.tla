------------------------------ MODULE Sharing -------------------------------
(***************************************************************************)
(* What sharing with a count promises: an object is there from the moment  *)
(* its first user makes it until its last user leaves, no longer and no    *)
(* shorter, and nobody joins an object that is gone.                       *)
(***************************************************************************)
CONSTANTS Object, User

VARIABLES there,   \* the objects there are
          users    \* the users of each object

Init == there = {} /\ users = [o \in Object |-> {}]

(* Those who are gone leave everything they use; the object that loses its *)
(* last user is gone as well.  Then u makes objects, and joins others.     *)
Change(gone, u) ==
    LET stay == [o \in Object |-> users[o] \ gone]
    IN  /\ users' \in [Object -> SUBSET User]
        /\ \A o \in Object :
              IF o \in there /\ stay[o] # {}
              THEN users'[o] \in {stay[o], stay[o] \cup {u}}
              ELSE users'[o] \in {{}, {u}}
        /\ there' = {o \in Object : users'[o] # {}}

Next == \E u \in User : Change({}, u) \/ \E v \in User : Change({v}, u)

Spec == Init /\ [][Next]_<<there, users>>
=============================================================================
