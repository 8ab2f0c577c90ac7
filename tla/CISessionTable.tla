---------------------------- MODULE CISessionTable ----------------------------
(***************************************************************************)
(* What the session layer promises its resources: a handle belongs to one  *)
(* resource from the moment a session is opened until that very session is *)
(* closed; handle 0 is nobody's; the loss of the module closes them all.   *)
(***************************************************************************)
CONSTANTS Handles, Resources, NULL

VARIABLE table      \* the resource each handle belongs to, NULL for none

Init == table = [h \in Handles |-> NULL]

Open(h, r) ==
    /\ h # 0
    /\ table[h] = NULL
    /\ table' = [table EXCEPT ![h] = r]

Close(h) ==
    /\ table[h] # NULL
    /\ table' = [table EXCEPT ![h] = NULL]

CloseAll == table' = [h \in Handles |-> NULL]

Next ==
    \/ \E h \in Handles, r \in Resources : Open(h, r)
    \/ \E h \in Handles : Close(h)
    \/ CloseAll

Spec == Init /\ [][Next]_table
=============================================================================
