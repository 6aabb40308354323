---------------------------- MODULE MCScanSession ----------------------------
(***************************************************************************)
(* Small instances of ScanSession: files f1 and f3 lie in different        *)
(* directories and share a base name, as the "01.mp3" of two albums does.  *)
(***************************************************************************)
EXTENDS ScanSession

CONSTANTS f1, f2, f3, a, b

MCNameOf == [f \in Files |-> IF f = f2 THEN b ELSE a]
==============================================================================
