------------------------------ MODULE Traversal -------------------------------
(***************************************************************************)
(* What the session expects of a traversal, and ScanSession assumes of it  *)
(* (NextFile, DirectoryError, TraversalEnds): of the paths ahead, each is  *)
(* delivered at most once, in any order; some may be lost on the way; the  *)
(* traversal ends when none is ahead or when it is told to halt, and then  *)
(* reports so, unless it dies.                                             *)
(***************************************************************************)
EXTENDS Sequences

CONSTANT Paths

VARIABLES ahead,        \* still to be delivered or lost
          delivered,    \* in order
          phase         \* "running", "halted", "reported" or "dead"

vars == <<ahead, delivered, phase>>

Init == ahead \subseteq Paths /\ delivered = << >> /\ phase = "running"

Deliver(p, goOn) ==
    /\ phase = "running" /\ p \in ahead
    /\ ahead' = ahead \ {p}
    /\ delivered' = Append(delivered, p)
    /\ phase' = IF goOn THEN phase ELSE "halted"

Lose(lost) ==
    /\ phase = "running" /\ lost \subseteq ahead
    /\ ahead' = ahead \ lost
    /\ UNCHANGED <<delivered, phase>>

Report ==
    /\ \/ phase = "halted"
       \/ phase = "running" /\ ahead = {}
    /\ phase' = "reported"
    /\ UNCHANGED <<ahead, delivered>>

Die == phase = "running" /\ phase' = "dead" /\ UNCHANGED <<ahead, delivered>>

Next ==
    \/ \E p \in Paths, goOn \in BOOLEAN : Deliver(p, goOn)
    \/ \E lost \in SUBSET Paths : Lose(lost)
    \/ Report \/ Die

Spec == Init /\ [][Next]_vars
==============================================================================
