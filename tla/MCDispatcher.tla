---------------------------- MODULE MCDispatcher ----------------------------
(* Instances of Dispatcher for TLC.                                        *)
EXTENDS Dispatcher, TLC

\* flavor.maxConcurrent: no limit for the first flavor (linux), one for the second.
CapOneFlavor == <<9>>
CapTwoFlavors == <<9, 1>>

\* The identities of runners are interchangeable.
SlotSymmetry == Permutations(Slots)

=============================================================================
