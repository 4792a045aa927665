---------------------------- MODULE MacosLaunch ----------------------------
(***************************************************************************)
(* The macOS backend, src/sandbox/macos.js: launch clones a Tart VM, boots *)
(* it and runs one runner in it over ssh; stop is called by the launch     *)
(* itself when it ends and by the dispatcher when the drain's deadline     *)
(* passed; reapOrphans runs when a dispatcher starts, after the reconcile  *)
(* of the registrations.  The dispatcher is here as far as it decides when *)
(* these are called; Dispatcher.tla has the rest of it.                    *)
(*                                                                         *)
(* A launch, its VM, its ssh client and its registration share one name.   *)
(* External: tart (clone, vm), the client (ssh), GitHub (runner).          *)
(***************************************************************************)
EXTENDS Naturals, FiniteSets

CONSTANTS
    Names,          \* launches, over all processes of the dispatcher
    MaxConcurrent,  \* launches at once in one process
    MaxFaults,      \* calls that fail, VMs that die, crashes
    Nobody

ASSUME FaultsAssumption == MaxFaults \in Nat
ASSUME CapAssumption == MaxConcurrent \in Nat
ASSUME NobodyAssumption == Nobody \notin Names

VARIABLES
    proc,       \* the dispatcher: reconciling, reaping, serving, force-reaping
    found,      \* what its reconcile and its reaper found
    pc,         \* where each launch is
    seen,       \* it saw a job start
    stopped, deleted,   \* the flags of its stop
    stopper,    \* how far each of its callers is in stop
    failed,     \* (record) the launches whose tart stop failed, which nobody notes
    clone, vm, ssh,     \* tart clone, the VM, the ssh client
    runner,     \* the registration at GitHub
    faults

startup == <<proc, found>>
launch == <<pc, seen>>
stops == <<stopped, deleted, stopper, failed>>
machine == <<clone, vm, ssh>>
vars == <<startup, launch, stops, machine, runner, faults>>

Callers == {"launch", "drain"}
Nothing == [complete |-> TRUE, protected |-> {}, stale |-> {}, vms |-> {}, left |-> {}, at |-> Nobody]

Init ==
    /\ proc = "list" /\ found = Nothing
    /\ pc = [l \in Names |-> "none"] /\ seen = [l \in Names |-> FALSE]
    /\ stopped = [l \in Names |-> FALSE] /\ deleted = [l \in Names |-> FALSE]
    /\ stopper = [l \in Names |-> [c \in Callers |-> "idle"]] /\ failed = {}
    /\ clone = [l \in Names |-> "none"] /\ vm = [l \in Names |-> "none"]
    /\ ssh = [l \in Names |-> FALSE]
    /\ runner = [l \in Names |-> "none"]
    /\ faults = 0

Fault == faults < MaxFaults /\ faults' = faults + 1
Goes(l, from, to) == pc[l] = from /\ pc' = [pc EXCEPT ![l] = to]
Active == {l \in Names : pc[l] \in {"clone", "ip", "ssh", "run", "finally"}}

(***************************************************************************)
(* Startup: reconcile with { host: true }, then reapOrphans                *)
(***************************************************************************)
List ==
    /\ proc = "list" /\ proc' = "prune"
    /\ found' = [Nothing EXCEPT !.protected = {l \in Names : runner[l] \in {"online", "busy"}},
                                !.stale = {l \in Names : runner[l] = "offline"}]
    /\ UNCHANGED <<launch, stops, machine, runner, faults>>

ListFails ==
    /\ proc = "list" /\ proc' = "prune" /\ Fault
    /\ found' = [Nothing EXCEPT !.complete = FALSE]
    /\ UNCHANGED <<launch, stops, machine, runner>>

\* A runner found offline may have connected by now; GitHub refuses to
\* delete one that runs a job.
DeleteStale(l) ==
    /\ proc = "prune" /\ l \in found.stale
    /\ found' = [found EXCEPT !.stale = @ \ {l}, !.complete = @ /\ runner[l] # "busy"]
    /\ runner' = [runner EXCEPT ![l] = IF @ = "busy" THEN @ ELSE "removed"]
    /\ UNCHANGED <<proc, launch, stops, machine, faults>>

DeleteStaleFails(l) ==
    /\ proc = "prune" /\ l \in found.stale /\ Fault
    /\ found' = [found EXCEPT !.stale = @ \ {l}, !.complete = FALSE]
    /\ UNCHANGED <<proc, launch, stops, machine, runner>>

\* Mutant: reapOrphans after an incomplete reconcile too.
ReapsAnyway ==
    /\ proc = "prune" /\ found.stale = {}
    /\ proc' = IF found.protected = {} THEN "tart" ELSE "serve"
    /\ UNCHANGED <<found, launch, stops, machine, runner, faults>>

\* Nothing is reaped unless the reconcile was complete and found no runner
\* of this host online.
ReapsOrNot ==
    /\ proc = "prune" /\ found.stale = {}
    /\ proc' = IF found.complete /\ found.protected = {} THEN "tart" ELSE "serve"
    /\ UNCHANGED <<found, launch, stops, machine, runner, faults>>

\* tart list: every VM with the prefix.
ReapList ==
    /\ proc = "tart" /\ proc' = "reap"
    /\ found' = [found EXCEPT !.vms = {l \in Names : vm[l] # "none"}]
    /\ UNCHANGED <<launch, stops, machine, runner, faults>>

ReapListFails ==
    /\ proc = "tart" /\ proc' = "serve" /\ Fault
    /\ UNCHANGED <<found, launch, stops, machine, runner>>

\* Mutant: the VM is not stopped first.
ReapStopForgets(l) ==
    /\ proc = "reap" /\ found.at = Nobody /\ l \in found.vms
    /\ found' = [found EXCEPT !.at = l]
    /\ UNCHANGED <<proc, launch, stops, machine, runner, faults>>

ReapStop(l) ==
    /\ proc = "reap" /\ found.at = Nobody /\ l \in found.vms
    /\ found' = [found EXCEPT !.at = l]
    /\ vm' = [vm EXCEPT ![l] = IF @ = "running" THEN "stopped" ELSE @]
    /\ UNCHANGED <<proc, launch, stops, clone, ssh, runner, faults>>

ReapStopFails(l) ==
    /\ proc = "reap" /\ found.at = Nobody /\ l \in found.vms /\ Fault
    /\ found' = [found EXCEPT !.at = l, !.left = @ \union {l}]
    /\ UNCHANGED <<proc, launch, stops, machine, runner>>

\* tart refuses to delete a running VM; a failure is ignored.
Deleted(l) == vm' = [vm EXCEPT ![l] = IF @ = "stopped" THEN "none" ELSE @]

ReapDelete(l) ==
    /\ proc = "reap" /\ found.at = l
    /\ Deleted(l)
    /\ found' = [found EXCEPT !.at = Nobody, !.vms = @ \ {l}]
    /\ UNCHANGED <<proc, launch, stops, clone, ssh, runner, faults>>

ReapDeleteFails(l) ==
    /\ proc = "reap" /\ found.at = l /\ Fault
    /\ found' = [found EXCEPT !.at = Nobody, !.vms = @ \ {l}, !.left = @ \union {l}]
    /\ UNCHANGED <<proc, launch, stops, machine, runner>>

ReapDone ==
    /\ proc = "reap" /\ found.at = Nobody /\ found.vms = {} /\ proc' = "serve"
    /\ UNCHANGED <<found, launch, stops, machine, runner, faults>>

(***************************************************************************)
(* launch, up to the runner                                                *)
(***************************************************************************)
\* Registered, and known to the dispatcher (onControl), before the clone.
Launch(l) ==
    /\ proc = "serve" /\ Cardinality(Active) < MaxConcurrent
    /\ Goes(l, "none", "clone")
    /\ clone' = [clone EXCEPT ![l] = "going"]
    /\ runner' = [runner EXCEPT ![l] = "offline"]
    /\ UNCHANGED <<startup, seen, stops, vm, ssh, faults>>

\* The clone is whole, and there, only when tart is done: whoever waits.
CloneEnds(l) ==
    /\ clone[l] = "going" /\ clone' = [clone EXCEPT ![l] = "done"]
    /\ vm' = [vm EXCEPT ![l] = "stopped"]
    /\ UNCHANGED <<startup, launch, stops, ssh, runner, faults>>

\* It fails, or is killed after COMMAND_TIMEOUT_MS, and leaves nothing.
CloneFails(l) ==
    /\ clone[l] = "going" /\ clone' = [clone EXCEPT ![l] = "done"] /\ Fault
    /\ UNCHANGED <<startup, launch, stops, vm, ssh, runner>>

\* startTartVm, if there is a VM to start.
StartVm(l) ==
    /\ clone[l] = "done"
    /\ Goes(l, "clone", IF vm[l] = "stopped" THEN "ip" ELSE "finally")
    /\ vm' = [vm EXCEPT ![l] = IF @ = "stopped" THEN "running" ELSE @]
    /\ UNCHANGED <<startup, seen, stops, clone, ssh, runner, faults>>

IpFound(l) ==
    /\ vm[l] = "running" /\ Goes(l, "ip", "ssh")
    /\ UNCHANGED <<startup, seen, stops, machine, runner, faults>>

SshReady(l) ==
    /\ vm[l] = "running" /\ Goes(l, "ssh", "run")
    /\ ssh' = [ssh EXCEPT ![l] = TRUE]
    /\ UNCHANGED <<startup, seen, stops, clone, vm, runner, faults>>

\* READINESS_TIMEOUT_MS passed, or the VM is gone.
NotReady(l) ==
    /\ pc[l] \in {"ip", "ssh"} /\ Goes(l, pc[l], "finally")
    /\ UNCHANGED <<startup, seen, stops, machine, runner, faults>>

(***************************************************************************)
(* observeRunner                                                           *)
(***************************************************************************)
JobSeen(l) ==
    /\ pc[l] = "run" /\ ssh[l] /\ runner[l] = "busy" /\ ~seen[l]
    /\ seen' = [seen EXCEPT ![l] = TRUE]
    /\ UNCHANGED <<startup, pc, stops, machine, runner, faults>>

\* Mutant: the launch settles without its finally.
ChildClosesDone(l) ==
    /\ ~ssh[l] /\ Goes(l, "run", "done")
    /\ UNCHANGED <<startup, seen, stops, machine, runner, faults>>

ChildCloses(l) ==
    /\ ~ssh[l] /\ Goes(l, "run", "finally")
    /\ UNCHANGED <<startup, seen, stops, machine, runner, faults>>

\* A timer kills the client and settles.
Times(l) ==
    /\ Goes(l, "run", "finally")
    /\ ssh' = [ssh EXCEPT ![l] = FALSE]
    /\ UNCHANGED <<startup, seen, stops, clone, vm, runner, faults>>

IdleFires(l) == ~seen[l] /\ Times(l)

\* Mutant: the lifetime ends with the first job.
LifetimeEndsWithJob(l) == ~seen[l] /\ Times(l)

LifetimeFires(l) == Times(l)

(***************************************************************************)
(* stop                                                                    *)
(***************************************************************************)
At(l, c, from, to) == stopper[l][c] = from /\ stopper' = [stopper EXCEPT ![l][c] = to]

TakesDelete(l, c, from) ==
    /\ At(l, c, from, IF deleted[l] THEN "done" ELSE "delete")
    /\ deleted' = [deleted EXCEPT ![l] = TRUE]

Called(l, c) ==
    IF c = "launch" THEN pc[l] = "finally"
    ELSE /\ proc = "drain" /\ l \in Active
         /\ \A m \in Names : stopper[m]["drain"] \notin {"stop", "delete"}

\* Mutant: stop takes both flags at once.
StopTakesBoth(l, c) ==
    /\ Called(l, c)
    /\ At(l, c, "idle", IF stopped[l] THEN "done" ELSE "stop")
    /\ stopped' = [stopped EXCEPT ![l] = TRUE] /\ deleted' = [deleted EXCEPT ![l] = TRUE]
    /\ UNCHANGED <<startup, launch, failed, machine, runner, faults>>

\* Only the first caller stops the VM; the other goes on to delete it.
Stop(l, c) ==
    /\ Called(l, c)
    /\ IF stopped[l] THEN TakesDelete(l, c, "idle") /\ UNCHANGED stopped
       ELSE /\ At(l, c, "idle", "stop")
            /\ stopped' = [stopped EXCEPT ![l] = TRUE] /\ UNCHANGED deleted
    /\ UNCHANGED <<startup, launch, failed, machine, runner, faults>>

\* tart stop: the VM goes down, and its client with it.
VmStops(l) ==
    /\ vm[l] = "running" /\ \E c \in Callers : stopper[l][c] = "stop"
    /\ vm' = [vm EXCEPT ![l] = "stopped"]
    /\ UNCHANGED <<startup, launch, stops, clone, ssh, runner, faults>>

StopReturns(l, c) ==
    /\ vm[l] # "running" /\ TakesDelete(l, c, "stop")
    /\ UNCHANGED <<startup, launch, stopped, failed, machine, runner, faults>>

\* tart fails, or is killed after CLEANUP_TIMEOUT_MS; the error is dropped.
StopFails(l, c) ==
    /\ Fault /\ TakesDelete(l, c, "stop") /\ failed' = failed \union {l}
    /\ UNCHANGED <<startup, launch, stopped, machine, runner>>

DeleteReturns(l, c) ==
    /\ At(l, c, "delete", "done") /\ Deleted(l)
    /\ UNCHANGED <<startup, launch, stopped, deleted, failed, clone, ssh, runner, faults>>

\* Warned of, and not tried again.
DeleteFails(l, c) ==
    /\ Fault /\ At(l, c, "delete", "done")
    /\ UNCHANGED <<startup, launch, stopped, deleted, failed, machine, runner>>

\* The end of launch, which gives the slot back: SIGTERM to tart run, and no
\* wait.  Then the lifecycle deregisters the runner, if it is not busy.
Settle(l) ==
    /\ stopper[l]["launch"] = "done" /\ Goes(l, "finally", "done")
    /\ runner' = [runner EXCEPT ![l] = IF @ = "busy" THEN @ ELSE "removed"]
    /\ UNCHANGED <<startup, seen, stops, machine, faults>>

(***************************************************************************)
(* The dispatcher's end                                                    *)
(***************************************************************************)
DeadlinePasses ==
    /\ proc = "serve" /\ Active # {} /\ proc' = "drain"
    /\ UNCHANGED <<found, launch, stops, machine, runner, faults>>

\* lifecycle.stop returned: the registration goes.
ForceDeregister(l) ==
    /\ proc = "drain" /\ stopper[l]["drain"] = "done" /\ runner[l] \in {"offline", "online"}
    /\ runner' = [runner EXCEPT ![l] = "removed"]
    /\ UNCHANGED <<startup, launch, stops, machine, faults>>

\* A process ends; what it started goes on without it.
Restarted ==
    /\ proc' = "list" /\ found' = Nothing
    /\ pc' = [l \in Names |-> IF l \in Active THEN "lost" ELSE pc[l]]
    /\ stopper' = [l \in Names |-> [c \in Callers |->
           IF stopper[l][c] \in {"stop", "delete"} THEN "lost" ELSE stopper[l][c]]]
    /\ UNCHANGED <<seen, stopped, deleted, failed, machine, runner>>

Exits ==
    /\ proc = "drain"
    /\ \A l \in Active : stopper[l]["drain"] = "done"
    /\ Restarted /\ UNCHANGED faults

Crash == Fault /\ Restarted

(***************************************************************************)
(* The VM and GitHub                                                       *)
(***************************************************************************)
VmDies(l) ==
    /\ vm[l] = "running" /\ Fault /\ vm' = [vm EXCEPT ![l] = "stopped"]
    /\ UNCHANGED <<startup, launch, stops, clone, ssh, runner>>

\* A VM that still runs goes down, sooner or later, with its tart run.
VmTerminates(l) ==
    /\ vm[l] = "running" /\ pc[l] = "done" /\ vm' = [vm EXCEPT ![l] = "stopped"]
    /\ UNCHANGED <<startup, launch, stops, clone, ssh, runner, faults>>

SshBreaks(l) ==
    /\ ssh[l] /\ (vm[l] # "running" \/ runner[l] = "removed")
    /\ ssh' = [ssh EXCEPT ![l] = FALSE]
    /\ UNCHANGED <<startup, launch, stops, clone, vm, runner, faults>>

RunnerConnects(l) ==
    /\ ssh[l] /\ vm[l] = "running" /\ runner[l] = "offline"
    /\ runner' = [runner EXCEPT ![l] = "online"]
    /\ UNCHANGED <<startup, launch, stops, machine, faults>>

JobAssigned(l) ==
    /\ runner[l] = "online" /\ vm[l] = "running"
    /\ runner' = [runner EXCEPT ![l] = "busy"]
    /\ UNCHANGED <<startup, launch, stops, machine, faults>>

\* The ephemeral registration goes with its job, or with its VM's job lost.
JobEnds(l) ==
    /\ runner[l] = "busy" /\ runner' = [runner EXCEPT ![l] = "removed"]
    /\ UNCHANGED <<startup, launch, stops, machine, faults>>

\* GitHub notices that a runner is gone.
RunnerLost(l) ==
    /\ runner[l] = "online" /\ vm[l] # "running"
    /\ runner' = [runner EXCEPT ![l] = "offline"]
    /\ UNCHANGED <<startup, launch, stops, machine, faults>>

-----------------------------------------------------------------------------
Steps(l) ==
    \/ StartVm(l) \/ NotReady(l) \/ ChildCloses(l) \/ LifetimeFires(l) \/ Settle(l)
    \/ \E c \in Callers : Stop(l, c) \/ StopReturns(l, c) \/ DeleteReturns(l, c)
Reaps(l) ==
    DeleteStale(l) \/ DeleteStaleFails(l) \/ ReapStop(l) \/ ReapStopFails(l)
        \/ ReapDelete(l) \/ ReapDeleteFails(l)
World(l) ==
    CloneEnds(l) \/ CloneFails(l) \/ VmStops(l) \/ VmDies(l) \/ VmTerminates(l)
        \/ SshBreaks(l) \/ RunnerConnects(l) \/ JobAssigned(l) \/ JobEnds(l) \/ RunnerLost(l)

Next ==
    \/ List \/ ListFails \/ ReapsOrNot \/ ReapList \/ ReapListFails \/ ReapDone
    \/ DeadlinePasses \/ Exits \/ Crash
    \/ \E l \in Names :
         \/ Reaps(l) \/ World(l) \/ Steps(l)
         \/ Launch(l) \/ IpFound(l) \/ SshReady(l) \/ JobSeen(l) \/ IdleFires(l)
         \/ ForceDeregister(l)
         \/ \E c \in Callers : StopFails(l, c) \/ DeleteFails(l, c)

Spec == Init /\ [][Next]_vars

\* The process runs, its timers fire, and tart does what it is asked or the
\* timeout of the call makes it fail.
FairSpec ==
    /\ Spec
    /\ \A l \in Names : WF_vars(Steps(l)) /\ WF_vars(CloneEnds(l)) /\ WF_vars(VmStops(l))

-----------------------------------------------------------------------------
Found == [complete : BOOLEAN, protected : SUBSET Names, stale : SUBSET Names,
          vms : SUBSET Names, left : SUBSET Names, at : Names \union {Nobody}]

\* Every variable has its type.
TypeOK ==
    /\ proc \in {"list", "prune", "tart", "reap", "serve", "drain"} /\ found \in Found
    /\ pc \in [Names -> {"none", "clone", "ip", "ssh", "run", "finally", "done", "lost"}]
    /\ seen \in [Names -> BOOLEAN]
    /\ stopped \in [Names -> BOOLEAN] /\ deleted \in [Names -> BOOLEAN]
    /\ stopper \in [Names -> [Callers -> {"idle", "stop", "delete", "done", "lost"}]]
    /\ failed \in SUBSET Names
    /\ clone \in [Names -> {"none", "going", "done"}]
    /\ vm \in [Names -> {"none", "stopped", "running"}]
    /\ ssh \in [Names -> BOOLEAN]
    /\ runner \in [Names -> {"none", "offline", "online", "busy", "removed"}]
    /\ faults \in 0 .. MaxFaults

Forced(l) == stopper[l]["drain"] # "idle"

\* One caller runs tart stop and one tart delete, and the VM is down and gone
\* when the launch settles, unless tart failed or the force-reap stopped it too.
StopGood(l) ==
    /\ deleted[l] => stopped[l]
    /\ \A c \in Callers : stopper[l][c] # "idle" => stopped[l]
    /\ \A c \in Callers : stopper[l][c] = "delete" => deleted[l]
    /\ \A c, d \in Callers :
         stopper[l][c] = stopper[l][d] /\ stopper[l][c] \in {"stop", "delete"} => c = d
    /\ stopper[l]["launch"] # "idle" => pc[l] \in {"finally", "done", "lost"}
    /\ pc[l] = "done" => stopper[l]["launch"] = "done"
    /\ l \in failed => faults # 0
    /\ pc[l] = "none" => clone[l] = "none" /\ vm[l] = "none" /\ ~stopped[l]
    /\ clone[l] # "done" => pc[l] \in {"none", "clone", "lost"} /\ vm[l] = "none"
    /\ pc[l] \in {"clone", "ip", "ssh", "run", "finally", "done"} /\ ~Forced(l) =>
         /\ stopper[l]["launch"] = "idle" => ~stopped[l]
         /\ stopper[l]["launch"] = "stop" => ~deleted[l]
         /\ stopper[l]["launch"] \in {"delete", "done"} /\ l \notin failed => vm[l] # "running"
         /\ stopper[l]["launch"] = "done" /\ faults = 0 => vm[l] = "none"

\* What the reconcile decided still holds when the reaper acts on it.
ReapGood ==
    /\ proc \in {"list", "prune", "tart", "reap"} => Active = {}
    /\ proc = "prune" /\ found.complete /\ found.protected = {} =>
         \A l \in Names : runner[l] \in {"offline", "online", "busy"} => l \in found.stale
    /\ proc \in {"tart", "reap"} => \A l \in Names : runner[l] \in {"none", "removed"}

IndInv == TypeOK /\ (\A l \in Names : StopGood(l)) /\ ReapGood

\* "... then stops and deletes the clone": a launch that settled left no VM
\* behind, unless tart failed or the force-reap called stop beside it.
LeavesNoVm ==
    \A l \in Names : pc[l] = "done" /\ faults = 0 /\ ~Forced(l) => vm[l] = "none"

\* The VMs that nobody counts: those of processes that are no more, and of
\* launches that settled although tart stop failed for them or, at the drain's
\* deadline, the force-reap had begun it.
Uncounted(l) == pc[l] = "lost" \/ (pc[l] = "done" /\ (l \in failed \/ Forced(l)))

\* A launch's slot is free only when its VM is down: MaxConcurrent VMs run on
\* the host beside the uncounted ones.
HostCap == Cardinality({l \in Names : vm[l] = "running" /\ ~Uncounted(l)}) <= MaxConcurrent

\* reapOrphans, with no list of its own, takes no VM whose runner works on a
\* job, whatever happened between the reconcile's list and the reaper's.
ReapSparesJobs ==
    [][\A l \in Names : proc = "reap" /\ proc' = proc /\ found' # found /\ runner[l] = "busy"
           => vm'[l] = vm[l]]_vars

\* After a reap no VM of an earlier process runs, except those tart failed on:
\* they do not pile up over crashes and forced exits.
ReapClears ==
    [][ReapDone => \A l \in Names : vm[l] = "running" => l \in found.left]_vars

\* Every launch settles, and gives its slot back, while its process lives.
LaunchesEnd ==
    \A l \in Names : pc[l] = "clone" ~> pc[l] \in {"done", "lost"}

\* ADR 0003: on expiry of the drain's deadline the dispatcher will
\* "force-reap any remaining runners (stop the container/VM, ...)": once
\* stop returned to it, the VM does not run.
ReapedIsDown ==
    \A l \in Names : stopper[l]["drain"] = "done" /\ faults = 0 => vm[l] # "running"
=============================================================================
