--------------------------- MODULE MCPaperAccount ---------------------------
(***************************************************************************)
(* PaperAccount for TLC.  Processes and target vectors are only compared   *)
(* for equality, so the safety runs may permute them.                      *)
(***************************************************************************)
EXTENDS PaperAccount, TLC

Symmetry == Permutations(Procs) \cup Permutations(Targets)

=============================================================================
