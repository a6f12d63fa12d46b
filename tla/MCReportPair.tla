--------------------------- MODULE MCReportPair ---------------------------
(***************************************************************************)
(* Two runs on one directory.  Two temporary names and two attempts are    *)
(* the least with which a draw collides, succeeds at the second attempt,   *)
(* and runs out of attempts beside a killed run's leftovers.               *)
(***************************************************************************)
EXTENDS ReportPair, TLC

Symmetry == Permutations(Runs) \cup Permutations(Temps)
=============================================================================
