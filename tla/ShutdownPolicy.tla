--------------------------- MODULE ShutdownPolicy ---------------------------
(***************************************************************************)
(* What the shutdown guard promises about one Windows service, without     *)
(* saying who holds leases or who reconciles: it is changed only while its *)
(* setting is saved, it is saved as it is, and the saved setting is        *)
(* forgotten only when the service has it again.                           *)
(***************************************************************************)
CONSTANTS StartTypes, Null

Settings == [startup : StartTypes, running : BOOLEAN]

VARIABLES
    service,    \* the service's startup type, and whether it runs
    saved       \* the setting to give back, Null when unmanaged

vars == <<service, saved>>

Init == service \in Settings /\ saved = Null

\* A service that is already disabled is left alone.
Snapshot ==
    /\ saved = Null /\ service.startup # "Disabled"
    /\ saved' = service
    /\ UNCHANGED service

\* Towards disabled and stopped, one setting at a time.
Enforce ==
    /\ saved # Null
    /\ service' \in {[service EXCEPT !.startup = "Disabled"],
                     [service EXCEPT !.running = FALSE]}
    /\ UNCHANGED saved

\* Towards the saved setting, one setting at a time.
Restore ==
    /\ saved # Null
    /\ service' \in {[service EXCEPT !.startup = saved.startup],
                     [service EXCEPT !.running = saved.running]}
    /\ UNCHANGED saved

Forget ==
    /\ saved # Null /\ service = saved
    /\ saved' = Null
    /\ UNCHANGED service

\* Windows starts what is Automatic and may start what is Manual.
Boot ==
    /\ service' \in {[service EXCEPT !.running = b] : b \in BOOLEAN}
    /\ service.startup = "Automatic" => service'.running
    /\ service.startup = "Disabled" => ~service'.running
    /\ UNCHANGED saved

Next == Snapshot \/ Enforce \/ Restore \/ Forget \/ Boot

Spec == Init /\ [][Next]_vars
=============================================================================
