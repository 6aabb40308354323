-------------------------- MODULE MCPointerTransfer --------------------------
(***************************************************************************)
(* The UI thread, the worker and one more thread, and two pointers, one of *)
(* them the initial empty one.  There is no symmetry, as the run also      *)
(* checks liveness.                                                        *)
(***************************************************************************)
EXTENDS PointerTransfer

CONSTANTS t1, t2, t3, p1, none
==============================================================================
