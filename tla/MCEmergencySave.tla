--------------------------- MODULE MCEmergencySave ---------------------------
(***************************************************************************)
(* Small instances of EmergencySave: every file has a name of its own.     *)
(***************************************************************************)
EXTENDS EmergencySave

CONSTANTS f1, f2, a, b

MCNameOf == [f \in Files |-> IF f = f2 THEN b ELSE a]
==============================================================================
