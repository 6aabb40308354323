--------------------------- MODULE MCDirTraversal ----------------------------
(***************************************************************************)
(* root holds f1 and the directories d1 and d2, d1 holds f2 and d3, d2     *)
(* holds f3 and d3 holds f4: siblings, nesting, files at three depths.     *)
(***************************************************************************)
EXTENDS DirTraversal

CONSTANTS root, d1, d2, d3, f1, f2, f3, f4

MCParent ==
    [p \in Paths \ {root} |->
        CASE p \in {d1, d2, f1} -> root
          [] p \in {d3, f2} -> d1
          [] p = f3 -> d2
          [] p = f4 -> d3]

\* The paths from the root down to p, p first.
MCLineage[p \in Paths] == IF p = root THEN <<p>> ELSE <<p>> \o MCLineage[MCParent[p]]

MCUnder == [p \in Paths |-> {q \in Paths : \E i \in DOMAIN MCLineage[q] : MCLineage[q][i] = p}]

MCDepth == [p \in Paths |-> Len(MCLineage[p]) - 1]
==============================================================================
