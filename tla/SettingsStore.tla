---------------------------- MODULE SettingsStore -----------------------------
(***************************************************************************)
(* What the program promises about the two directories it remembers: a run *)
(* begins with what the file holds, the file only ever takes the value the *)
(* run has for a field, and a run that ends in order has saved them all.   *)
(* A run may end otherwise at any moment, also with some fields saved.     *)
(***************************************************************************)
CONSTANTS Fields, Values, Empty, Default, Nobody

VARIABLES saved,    \* the file
          current,  \* the settings of the run, Nobody when nothing runs
          ended     \* how the last run ended

vars == <<saved, current, ended>>

Init ==
    /\ saved \in [Fields -> Values]
    /\ current = Nobody
    /\ ended = "unsaved"

Open ==
    /\ current = Nobody
    /\ current' = [f \in Fields |-> IF saved[f] = Empty THEN Default ELSE saved[f]]
    /\ UNCHANGED <<saved, ended>>

Choose(f, v) ==
    /\ current # Nobody
    /\ current' = [current EXCEPT ![f] = v]
    /\ UNCHANGED <<saved, ended>>

Commit(f) ==
    /\ current # Nobody
    /\ saved' = [saved EXCEPT ![f] = current[f]]
    /\ UNCHANGED <<current, ended>>

Close ==
    /\ current # Nobody
    /\ saved = current
    /\ current' = Nobody /\ ended' = "saved"
    /\ UNCHANGED saved

Abort ==
    /\ current # Nobody
    /\ current' = Nobody /\ ended' = "unsaved"
    /\ UNCHANGED saved

Next ==
    \/ Open \/ Close \/ Abort
    \/ \E f \in Fields : Commit(f) \/ \E v \in Values : Choose(f, v)

Spec == Init /\ [][Next]_vars
==============================================================================
