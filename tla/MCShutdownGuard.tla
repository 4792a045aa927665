-------------------------- MODULE MCShutdownGuard --------------------------
(***************************************************************************)
(* Instances of ShutdownGuard for TLC: the constants come from the .cfg    *)
(* files, which give each run its reconcilers, its faults and what may     *)
(* happen to PowerShell and to the sessions.                               *)
(***************************************************************************)
EXTENDS ShutdownGuard
=============================================================================
