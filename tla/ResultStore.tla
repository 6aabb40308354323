----------------------------- MODULE ResultStore -----------------------------
(***************************************************************************)
(* What the application promises about the results it has saved: a handler *)
(* that read them properly can only add to them.  They are lost only       *)
(* through a handler that did not get them, because the file could not be  *)
(* opened or does not hold them any more; the file stops to hold them when *)
(* a save that was begun is not completed, or when the file a failed save  *)
(* left open is closed over it.  Every handler may end without saving.     *)
(***************************************************************************)
EXTENDS PersistentMap

VARIABLES store,      \* the results of the last completed save
          intact,     \* the file holds them
          session,    \* the PersistentMap that may save next
          unclosed    \* some failed save has not closed the file yet

vars == <<store, intact, session, unclosed>>

Init == store = EmptyMap /\ intact = TRUE /\ session = "none" /\ unclosed = FALSE

\* A handler has constructed its PersistentMap.
Open ==
    /\ session = "none"
    /\ session' \in {"suspect"} \cup IF intact THEN {"sound"} ELSE {}
    /\ UNCHANGED <<store, intact, unclosed>>

\* The save begins: the file is truncated.
Begin ==
    /\ session # "none"
    /\ intact' = FALSE
    /\ UNCHANGED <<store, session, unclosed>>

\* A complete save from a map that started as the saved results.
Commit ==
    /\ session = "sound" /\ ~intact
    /\ store' \in ResultMaps /\ Extends(store', store)
    /\ intact' = TRUE /\ session' = "none"
    /\ UNCHANGED unclosed

\* A complete save from a map that did not: it replaces whatever was saved.
Overwrite ==
    /\ session = "suspect" /\ ~intact
    /\ store' \in ResultMaps
    /\ intact' = TRUE /\ session' = "none"
    /\ UNCHANGED unclosed

\* The save was skipped or cut short, or there is nothing to save any more.
Abandon ==
    /\ session # "none"
    /\ session' = "none"
    /\ UNCHANGED <<store, intact, unclosed>>

\* The save failed, and the file it wrote stays open.
Fail ==
    /\ session # "none" /\ ~intact
    /\ session' = "none" /\ unclosed' = TRUE
    /\ UNCHANGED <<store, intact>>

\* A file a failed save left open is closed, over what is in it by now.
Close ==
    /\ unclosed /\ session = "none"
    /\ intact' \in {FALSE, intact}
    /\ unclosed' \in BOOLEAN
    /\ UNCHANGED <<store, session>>

\* The process goes away.
Die ==
    /\ session' = "none" /\ unclosed' = FALSE
    /\ UNCHANGED <<store, intact>>

Next == Open \/ Begin \/ Commit \/ Overwrite \/ Abandon \/ Fail \/ Close \/ Die

Spec == Init /\ [][Next]_vars
==============================================================================
