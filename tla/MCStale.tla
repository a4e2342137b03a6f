------------------------------- MODULE MCStale -------------------------------
(***************************************************************************)
(* Small instances of StaleMonitor.  A tick is half a second.              *)
(***************************************************************************)
EXTENDS StaleMonitor, TLC

Symmetry == Permutations(Books)
=============================================================================
