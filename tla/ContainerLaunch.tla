-------------------------- MODULE ContainerLaunch ---------------------------
(***************************************************************************)
(* The linux backend, src/sandbox/container.js: a launch runs one          *)
(* container under a name of its own through a client process (podman run  *)
(* or docker run), watches its output for a job, ends it by three timers   *)
(* or on request, and takes everything down before it settles; reapOrphans *)
(* removes the containers no launch of this process owns.                  *)
(*                                                                         *)
(* External: the container runtime, which creates a container some time    *)
(* after it was asked to, and may never answer.  Every call to it but the  *)
(* run itself is killed at a timeout, so each is one step.                 *)
(***************************************************************************)
EXTENDS Naturals, FiniteSets

CONSTANTS
    Names,          \* containers, one per launch: names are random
    MaxFaults       \* calls that fail, crashes and late answers

ASSUME LaunchAssumption == MaxFaults \in Nat

VARIABLES
    phase,      \* where each launch is
    result,     \* what it will settle with: a job ran, none did, an error
    startedJob, \* a job-start line was seen, and onStarted called
    expired,    \* timers that fired: "idle" (timedOut), "lifetime"
    signal,     \* what terminate has sent
    stop,       \* the caller of control.stop
    child,      \* the client process
    ctr,        \* the container
    active,     \* activeRunnerContainers
    reaper,     \* where reapOrphans is
    listed,     \* names it was told of, then names it removes
    faults

launch == <<phase, result, startedJob, expired, signal, stop>>
reap == <<reaper, listed>>
vars == <<launch, child, ctr, active, reap, faults>>

Init ==
    /\ phase = [n \in Names |-> "new"]
    /\ result = [n \in Names |-> "none"]
    /\ startedJob = [n \in Names |-> FALSE]
    /\ expired = [n \in Names |-> {}]
    /\ signal = [n \in Names |-> "none"]
    /\ stop = [n \in Names |-> "no"]
    /\ child = [n \in Names |-> "none"]
    /\ ctr = [n \in Names |-> "absent"]
    /\ active = {} /\ reaper = "idle" /\ listed = {} /\ faults = 0

Fault == faults < MaxFaults /\ faults' = faults + 1
Goes(n, from, to) == phase[n] = from /\ phase' = [phase EXCEPT ![n] = to]

(***************************************************************************)
(* Up                                                                      *)
(***************************************************************************)
\* Backend, image, runner binary or mounts: before there is a name.
PrepareFails(n) ==
    /\ Fault /\ Goes(n, "new", "done")
    /\ result' = [result EXCEPT ![n] = "error"]
    /\ UNCHANGED <<startedJob, expired, signal, stop, child, ctr, active, reap>>

\* Mutant: the name is not kept.
SpawnUnnamed(n) ==
    /\ Goes(n, "new", "up")
    /\ child' = [child EXCEPT ![n] = "alive"]
    /\ ctr' = [ctr EXCEPT ![n] = "asked"]
    /\ UNCHANGED <<result, startedJob, expired, signal, stop, active, reap, faults>>

\* The name is kept from reapOrphans before the runtime hears of it; then
\* onControl hands out stop and the timers are armed.
Spawn(n) ==
    /\ Goes(n, "new", "up")
    /\ active' = active \union {n}
    /\ child' = [child EXCEPT ![n] = "alive"]
    /\ ctr' = [ctr EXCEPT ![n] = "asked"]
    /\ UNCHANGED <<result, startedJob, expired, signal, stop, reap, faults>>

\* settle: the first one decides, and the timers are cleared.
Settle(n, r) ==
    /\ Goes(n, "up", "settled")
    /\ result' = [result EXCEPT ![n] = r]

\* observeOutput, on whatever the client still prints.
JobStarts(n) ==
    /\ child[n] = "alive" /\ ctr[n] = "running" /\ ~startedJob[n]
    /\ startedJob' = [startedJob EXCEPT ![n] = TRUE]
    /\ UNCHANGED <<phase, result, expired, signal, stop, child, ctr, active, reap, faults>>

\* onStarted throws: the launch fails with the container up.
JobStartThrows(n) ==
    /\ child[n] = "alive" /\ ctr[n] = "running" /\ ~startedJob[n] /\ Fault
    /\ startedJob' = [startedJob EXCEPT ![n] = TRUE]
    /\ Settle(n, "error")
    /\ UNCHANGED <<expired, signal, stop, child, ctr, active, reap>>

(***************************************************************************)
(* Down                                                                    *)
(***************************************************************************)
\* terminate: TERM once; KILL and the end of waiting are timers.
Terminate(n) ==
    signal' = [signal EXCEPT ![n] =
        IF phase[n] = "up" /\ @ = "none" THEN "TERM" ELSE @]

IdleFires(n) ==
    /\ phase[n] = "up" /\ ~startedJob[n] /\ "idle" \notin expired[n]
    /\ expired' = [expired EXCEPT ![n] = @ \union {"idle"}]
    /\ Terminate(n)
    /\ UNCHANGED <<phase, result, startedJob, stop, child, ctr, active, reap, faults>>

\* Mutant: the guard of the idle timer, copied.
LifetimeFiresUnlessJob(n) ==
    /\ phase[n] = "up" /\ ~startedJob[n] /\ "lifetime" \notin expired[n]
    /\ expired' = [expired EXCEPT ![n] = @ \union {"lifetime"}]
    /\ Terminate(n)
    /\ UNCHANGED <<phase, result, startedJob, stop, child, ctr, active, reap, faults>>

LifetimeFires(n) ==
    /\ phase[n] = "up" /\ "lifetime" \notin expired[n]
    /\ expired' = [expired EXCEPT ![n] = @ \union {"lifetime"}]
    /\ Terminate(n)
    /\ UNCHANGED <<phase, result, startedJob, stop, child, ctr, active, reap, faults>>

\* control.stop, by the dispatcher's force-reap.
Stop(n) ==
    /\ phase[n] # "new" /\ n \in active /\ stop[n] = "no"
    /\ stop' = [stop EXCEPT ![n] = "waiting"]
    /\ Terminate(n)
    /\ UNCHANGED <<phase, result, startedJob, expired, child, ctr, active, reap, faults>>

KillFires(n) ==
    /\ phase[n] = "up" /\ signal[n] = "TERM"
    /\ signal' = [signal EXCEPT ![n] = "KILL"]
    /\ UNCHANGED <<phase, result, startedJob, expired, stop, child, ctr, active, reap, faults>>

\* The client is not heard of: the launch settles without it.
ForceFires(n) ==
    /\ signal[n] = "KILL"
    /\ Settle(n, IF "lifetime" \in expired[n] THEN "error" ELSE "none started")
    /\ UNCHANGED <<startedJob, expired, signal, stop, child, ctr, active, reap, faults>>

Outcome(n, ok) ==
    CASE "lifetime" \in expired[n] -> "error"
      [] "lifetime" \notin expired[n] /\ "idle" \in expired[n] -> "none started"
      [] OTHER -> IF ~ok THEN "error" ELSE IF startedJob[n] THEN "job" ELSE "none started"

\* "close": the container ended, or the client was killed beside it.
ChildCloses(n, ok) ==
    /\ child[n] = "alive"
    /\ ok => ctr[n] \in {"exited", "gone"}
    /\ child' = [child EXCEPT ![n] = "closed"]
    /\ \/ Settle(n, Outcome(n, ok))
       \/ phase[n] # "up" /\ UNCHANGED <<phase, result>>
    /\ UNCHANGED <<startedJob, expired, signal, stop, ctr, active, reap, faults>>

\* "error": the client could not be started.
ChildErrors(n) ==
    /\ child[n] = "alive" /\ ctr[n] = "asked" /\ Fault
    /\ child' = [child EXCEPT ![n] = "closed"]
    /\ ctr' = [ctr EXCEPT ![n] = "absent"]
    /\ Settle(n, "error")
    /\ UNCHANGED <<startedJob, expired, signal, stop, active, reap>>

(***************************************************************************)
(* The finally                                                             *)
(***************************************************************************)
\* The kills are awaited; inspect, wait, inspect and the observation are
\* best effort.  rm -f does not remove a container that is not there yet.
RemoveContainer(n) ==
    /\ Goes(n, "settled", "cleaning")
    /\ ctr' = [ctr EXCEPT ![n] = IF @ \in {"running", "exited"} THEN "gone" ELSE @]
    /\ UNCHANGED <<result, startedJob, expired, signal, stop, child, active, reap, faults>>

RemoveFails(n) ==
    /\ Fault /\ Goes(n, "settled", "cleaning")
    /\ UNCHANGED <<result, startedJob, expired, signal, stop, child, ctr, active, reap>>

\* The name is given up and cleanupDone resolves; the locals are gone.
CleanupDone(n) ==
    /\ Goes(n, "cleaning", "done")
    /\ active' = active \ {n}
    /\ expired' = [expired EXCEPT ![n] = {}]
    /\ signal' = [signal EXCEPT ![n] = "none"]
    /\ UNCHANGED <<result, startedJob, stop, child, ctr, reap, faults>>

\* Mutant: stop waits for the signal only.
StopReturnsEarly(n) ==
    /\ stop[n] = "waiting"
    /\ stop' = [stop EXCEPT ![n] = "back"]
    /\ UNCHANGED <<phase, result, startedJob, expired, signal, child, ctr, active, reap, faults>>

StopReturns(n) ==
    /\ stop[n] = "waiting" /\ phase[n] = "done"
    /\ stop' = [stop EXCEPT ![n] = "back"]
    /\ UNCHANGED <<phase, result, startedJob, expired, signal, child, ctr, active, reap, faults>>

(***************************************************************************)
(* reapOrphans, when no registered runner of this host may own a container *)
(***************************************************************************)
ReapList ==
    /\ reaper = "idle"
    /\ reaper' = "listed"
    /\ listed' = {n \in Names : ctr[n] \in {"running", "exited"}}
    /\ UNCHANGED <<launch, child, ctr, active, faults>>

\* The answer is filtered by what is active now.
ReapFilter ==
    /\ reaper = "listed"
    /\ reaper' = "removing"
    /\ listed' = listed \ active
    /\ UNCHANGED <<launch, child, ctr, active, faults>>

ReapRemove(n) ==
    /\ reaper = "removing" /\ n \in listed
    /\ listed' = listed \ {n}
    /\ \/ ctr' = [ctr EXCEPT ![n] = "gone"] /\ UNCHANGED faults
       \/ Fault /\ UNCHANGED ctr
    /\ UNCHANGED <<launch, child, active, reaper>>

ReapDone ==
    /\ reaper = "removing" /\ listed = {}
    /\ reaper' = "idle"
    /\ UNCHANGED <<launch, child, ctr, active, listed, faults>>

(***************************************************************************)
(* The runtime, and the end of this process                                *)
(***************************************************************************)
\* The request outlives the client that made it.
ContainerStarts(n) ==
    /\ ctr[n] = "asked"
    /\ IF child[n] = "alive" /\ phase[n] = "up" THEN UNCHANGED faults ELSE Fault
    /\ ctr' = [ctr EXCEPT ![n] = "running"]
    /\ UNCHANGED <<launch, child, active, reap>>

NeverCreated(n) ==
    /\ ctr[n] = "asked" /\ (signal[n] # "none" \/ child[n] = "closed")
    /\ ctr' = [ctr EXCEPT ![n] = "absent"]
    /\ UNCHANGED <<launch, child, active, reap, faults>>

\* The runner is done, was told to stop, or its own watchdog ended it.
ContainerExits(n) ==
    /\ ctr[n] = "running"
    /\ ctr' = [ctr EXCEPT ![n] = "exited"]
    /\ UNCHANGED <<launch, child, active, reap, faults>>

\* Killed and started again: the containers run on, nothing is remembered.
Crash ==
    /\ Fault
    /\ phase' = [n \in Names |-> IF phase[n] = "new" THEN "new" ELSE "lost"]
    /\ child' = [n \in Names |-> IF child[n] = "alive" THEN "closed" ELSE child[n]]
    /\ stop' = [n \in Names |-> "no"]
    /\ active' = {} /\ reaper' = "idle" /\ listed' = {}
    /\ expired' = [n \in Names |-> {}]
    /\ signal' = [n \in Names |-> "none"]
    /\ UNCHANGED <<result, startedJob, ctr>>

Timer(n) == IdleFires(n) \/ LifetimeFires(n) \/ KillFires(n) \/ ForceFires(n)
Teardown(n) == RemoveContainer(n) \/ RemoveFails(n) \/ CleanupDone(n)

Launch(n) ==
    \/ PrepareFails(n) \/ Spawn(n)
    \/ JobStarts(n) \/ JobStartThrows(n) \/ ChildErrors(n)
    \/ \E ok \in BOOLEAN : ChildCloses(n, ok)
    \/ Timer(n) \/ Teardown(n) \/ Stop(n) \/ StopReturns(n)

Reap == ReapList \/ ReapFilter \/ ReapDone \/ \E n \in Names : ReapRemove(n)
Runtime(n) == ContainerStarts(n) \/ NeverCreated(n) \/ ContainerExits(n)

Next ==
    \/ \E n \in Names : Launch(n) \/ Runtime(n)
    \/ Reap \/ Crash

Spec == Init /\ [][Next]_vars

\* Timers fire and calls return at their timeouts; neither the client nor
\* the runtime owes anything.
FairSpec ==
    /\ Spec
    /\ \A n \in Names :
         /\ WF_vars(LifetimeFires(n)) /\ WF_vars(KillFires(n)) /\ WF_vars(ForceFires(n))
         /\ WF_vars(Teardown(n)) /\ WF_vars(StopReturns(n))

-----------------------------------------------------------------------------
(* Properties *)

\* Every variable holds a value of its kind.
TypeOK ==
    /\ phase \in [Names -> {"new", "up", "settled", "cleaning", "done", "lost"}]
    /\ result \in [Names -> {"none", "job", "none started", "error"}]
    /\ startedJob \in [Names -> BOOLEAN]
    /\ expired \in [Names -> SUBSET {"idle", "lifetime"}]
    /\ signal \in [Names -> {"none", "TERM", "KILL"}]
    /\ stop \in [Names -> {"no", "waiting", "back"}]
    /\ child \in [Names -> {"none", "alive", "closed"}]
    /\ ctr \in [Names -> {"absent", "asked", "running", "exited", "gone"}]
    /\ active \subseteq Names /\ listed \subseteq Names
    /\ reaper \in {"idle", "listed", "removing"}
    /\ faults \in 0 .. MaxFaults

Owned(n) == phase[n] \in {"up", "settled", "cleaning"}

\* The names kept from reapOrphans are those of the launches that may still
\* have something up.
ActiveIsOwned == active = {n \in Names : Owned(n)}

\* What reapOrphans was told of had been launched, and what it removes is
\* over: a name never comes back.
ListedIsOver ==
    \A n \in listed : phase[n] # "new" /\ (reaper = "removing" => ~Owned(n))

\* Before a launch there is nothing, after its teardown no container unless
\* a call failed or the runtime was late, and stop returns after that.
TornDown ==
    \A n \in Names :
        /\ phase[n] = "new" => ctr[n] = "absent" /\ stop[n] = "no"
        /\ stop[n] = "back" => phase[n] = "done"
        /\ faults = 0 /\ phase[n] \in {"cleaning", "done"} => ctr[n] \notin {"running", "exited"}

\* The inductive invariant: active, the reaper's list and the containers
\* agree with where each launch is.
IndInv == TypeOK /\ ActiveIsOwned /\ ListedIsOver /\ TornDown

\* reapOrphans never removes the container of a launch of this process,
\* whatever was launched or torn down while it waited for the runtime: also if
\* it ran later than once at startup, before the first launch, as it does.
ReapSparesLaunches ==
    [][\A n \in Names : Owned(n) /\ ctr[n] # "gone" /\ ctr'[n] = "gone" => phase[n] = "settled"]_vars

\* When control.stop returns the launch has taken everything down: the
\* force-reap that awaits it may deregister the runner.
StoppedIsDown ==
    \A n \in Names : stop[n] = "back" =>
        phase[n] = "done" /\ (faults = 0 => ctr[n] \notin {"running", "exited"})

\* Once a job was seen only its lifetime or a request ends the container,
\* and a job is reported only where one was seen.
JobsAreKept ==
    [][\A n \in Names :
        /\ startedJob[n] /\ signal[n] = "none" /\ signal'[n] # "none" =>
             "lifetime" \in expired'[n] \/ stop'[n] = "waiting"
        /\ result[n] # "job" /\ result'[n] = "job" => startedJob[n]]_vars

\* A launch settles although its client and the runtime never answer, so
\* its slot is given back; and who asked for the stop hears of it.
LaunchesEnd ==
    \A n \in Names :
        /\ phase[n] = "up" ~> phase[n] \in {"done", "lost"}
        /\ stop[n] = "waiting" ~> stop[n] # "waiting"
=============================================================================
