---------------------------- MODULE Identification ----------------------------
(***************************************************************************)
(* What the session expects of the identification of one file, and         *)
(* ScanSession assumes of it in its Identify... actions: a file that        *)
(* cannot be read is dropped; one that is not measured is recorded without *)
(* a look at the cancel flag; a measurement may be interrupted by the flag *)
(* and is then always dropped; so is a whole one if the flag is set by the *)
(* time it ends.                                                           *)
(***************************************************************************)

VARIABLES phase,        \* of the worker on this file
          cancelled,    \* the flag, which only the user sets
          record        \* how the result came about

vars == <<phase, cancelled, record>>

Init == phase = "identify" /\ cancelled \in BOOLEAN /\ record = "none"

Unreadable ==
    /\ phase = "identify" /\ phase' = "dropped"
    /\ UNCHANGED <<cancelled, record>>

Unmeasured ==
    /\ phase = "identify" /\ phase' = "recorded"
    /\ record' = "unmeasured"
    /\ UNCHANGED cancelled

Extracts ==
    /\ phase = "identify" /\ phase' = "extract"
    /\ UNCHANGED <<cancelled, record>>

Throws ==
    /\ phase \in {"identify", "extract"} /\ phase' = "recorded"
    /\ record' = "unmeasured"
    /\ UNCHANGED cancelled

ReceiveCancelled ==
    /\ phase = "extract" /\ cancelled /\ phase' = "check"
    /\ record' = "interrupted"
    /\ UNCHANGED cancelled

ExtractEnds ==
    /\ phase = "extract" /\ phase' = "check"
    /\ record' = "measured"
    /\ UNCHANGED cancelled

Returns ==
    /\ phase = "check"
    /\ IF cancelled THEN phase' = "dropped" /\ record' = "none"
       ELSE phase' = "recorded" /\ UNCHANGED record
    /\ UNCHANGED cancelled

Cancel ==
    /\ ~cancelled /\ cancelled'
    /\ UNCHANGED <<phase, record>>

Next ==
    \/ Unreadable \/ Unmeasured \/ Extracts \/ Throws
    \/ ReceiveCancelled \/ ExtractEnds \/ Returns \/ Cancel

Spec == Init /\ [][Next]_vars
==============================================================================
