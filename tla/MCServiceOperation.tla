------------------------- MODULE MCServiceOperation -------------------------
(* Instances of ServiceOperation for TLC.                                  *)
EXTENDS ServiceOperation, TLC

CommandLines == Permutations(Procs)
=============================================================================
