--------------------------- MODULE MCCompaction ---------------------------
(***************************************************************************)
(* Instances of Compaction for TLC: the turns of a process and two claims  *)
(* of the command /compact.                                                *)
(***************************************************************************)
EXTENDS Compaction

CONSTANTS j1, j2

OneJob == {runner, j1}
TwoJobs == {runner, j1, j2}
=============================================================================
