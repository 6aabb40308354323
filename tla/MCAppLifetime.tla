---------------------------- MODULE MCAppLifetime -----------------------------
(***************************************************************************)
(* A small instance of AppLifetime: a value that leaves room in the first  *)
(* buffer (the default), one that fits it exactly, and one that does not.  *)
(***************************************************************************)
EXTENDS AppLifetime

CONSTANTS empty, default, exact, long

MCLength ==
    [v \in Values |-> CASE v = empty -> 0 [] v = default -> 3 [] v = exact -> 4 [] v = long -> 6]
==============================================================================
