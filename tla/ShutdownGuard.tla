--------------------------- MODULE ShutdownGuard ----------------------------
(***************************************************************************)
(* The opt-in shutdown guard of src/guard.js: runnerize sessions hold      *)
(* lease files, a guard-watch process that runs as SYSTEM reads them and   *)
(* keeps the Hyper-V shutdown service disabled while one is live, and an   *)
(* administrator installs and uninstalls the guard.  All of them are       *)
(* processes of their own which share only the file system and the         *)
(* service, so a step is one file operation or one PowerShell statement.   *)
(*                                                                         *)
(* External: Windows boots, the Task Scheduler, and PowerShell, whose      *)
(* commands fail, or fail without saying so.  Nothing else changes the     *)
(* service, and one administrator command runs at a time.  The scheduler   *)
(* stops a task together with the PowerShell that the task has started; a  *)
(* statement that outlives a watcher which died is a watcher that died     *)
(* after it, since the task starts again only some time later.             *)
(***************************************************************************)
EXTENDS Naturals, FiniteSets

CONSTANTS
    Sessions,       \* lease holders: a session identifier is never reused
    Watchers,       \* guard-watch processes that may be alive at once
    Recoverers,     \* guard-recover processes
    Lasting,        \* the reconcilers whose waits keep their process alive
    Reinstall,      \* the guard may be installed over a running one
    Masked,         \* Set-Service may fail without failing its script
    Stalls,         \* a holder may sleep through its lease's timeout
    MaxFaults,      \* failures, crashes and reboots in a behaviour
    Null,           \* state.json holds no setting
    Missing,        \* there is no state.json
    Nobody

ASSUME GuardAssumption ==
    /\ Nobody \notin Sessions \union Watchers \union Recoverers
    /\ Watchers \intersect Recoverers = {}
    /\ Lasting \subseteq Watchers \union Recoverers
    /\ {Reinstall, Masked, Stalls} \subseteq BOOLEAN
    /\ MaxFaults \in Nat
    /\ Null # Missing

Reconcilers == Watchers \union Recoverers
StartTypes == {"Automatic", "Manual", "Disabled"}
Settings == [startup : StartTypes, running : BOOLEAN]

\* Settings are records, so these differ from every setting.
ASSUME StateAssumption == {Null, Missing} \intersect Settings = {}

VARIABLES
    service,    \* vmicshutdown
    saved,      \* the setting in state.json, Null or Missing
    root,       \* the guard's directory exists
    lease,      \* per session: no file, a fresh one or a stale one
    holder,     \* per session: what its process does
    pc,         \* per reconciler: where its pass is
    todo,       \* the lease files it has yet to read
    reap,       \* the one it found stale and will unlink
    live,       \* it has read a live lease
    snap,       \* the setting it holds in memory
    task,       \* the process of the registered guard-watch task
    installed,  \* that task is registered
    op,         \* where the administrator's command is
    opSnap,     \* the setting it read
    faults,
    configured  \* the startup type the administrator chose (history)

watch == <<pc, todo, reap, live, snap>>
admin == <<installed, op, opSnap>>
files == <<saved, root, lease>>
vars == <<service, files, holder, watch, task, admin, faults, configured>>

Init ==
    /\ service \in Settings /\ configured = service.startup
    /\ saved = Missing /\ root = FALSE
    /\ lease = [s \in Sessions |-> "none"]
    /\ holder = [s \in Sessions |-> "idle"]
    /\ pc = [w \in Reconcilers |-> "down"]
    /\ todo = [w \in Reconcilers |-> {}]
    /\ reap = [w \in Reconcilers |-> Nobody]
    /\ live = [w \in Reconcilers |-> FALSE]
    /\ snap = [w \in Reconcilers |-> Null]
    /\ task = Nobody /\ installed = FALSE
    /\ op = "none" /\ opSnap = Null
    /\ faults = 0

Fault == faults < MaxFaults /\ faults' = faults + 1

(***************************************************************************)
(* Sessions                                                                *)
(***************************************************************************)
\* createGuardLease: make the directory, write the lease, start the timer.
Engage(s) ==
    /\ holder[s] = "idle"
    /\ holder' = [holder EXCEPT ![s] = "on"]
    /\ lease' = [lease EXCEPT ![s] = "fresh"]
    /\ root' = TRUE
    /\ UNCHANGED <<service, saved, watch, task, admin, faults, configured>>

\* Mutant: the timer writes into the file it created.
HeartbeatInPlace(s) ==
    /\ holder[s] = "on" /\ lease[s] # "none"
    /\ lease' = [lease EXCEPT ![s] = "fresh"]
    /\ UNCHANGED <<service, saved, root, holder, watch, task, admin, faults, configured>>

\* The timer renames a new file over the lease, whatever became of the old
\* one; without the directory it throws, and that ends the process.
Heartbeat(s) ==
    /\ holder[s] = "on"
    /\ IF root
         THEN lease' = [lease EXCEPT ![s] = "fresh"] /\ UNCHANGED holder
         ELSE holder' = [holder EXCEPT ![s] = "dead"] /\ UNCHANGED lease
    /\ UNCHANGED <<service, saved, root, watch, task, admin, faults, configured>>

\* release
Release(s) ==
    /\ holder[s] = "on"
    /\ holder' = [holder EXCEPT ![s] = "done"]
    /\ lease' = [lease EXCEPT ![s] = "none"]
    /\ UNCHANGED <<service, saved, root, watch, task, admin, faults, configured>>

\* guardOff, by an operator: the holder is not told.
GuardOff(s) ==
    /\ holder[s] # "idle" /\ Fault
    /\ lease' = [lease EXCEPT ![s] = "none"]
    /\ UNCHANGED <<service, saved, root, holder, watch, task, admin, configured>>

\* Killed: the lease stays behind.
SessionDies(s) ==
    /\ holder[s] = "on"
    /\ holder' = [holder EXCEPT ![s] = "dead"]
    /\ UNCHANGED <<service, files, watch, task, admin, faults, configured>>

\* No heartbeat for the lease's timeout.
Expire(s) ==
    /\ lease[s] = "fresh"
    /\ Stalls \/ holder[s] # "on"
    /\ lease' = [lease EXCEPT ![s] = "stale"]
    /\ UNCHANGED <<service, saved, root, holder, watch, task, admin, faults, configured>>

(***************************************************************************)
(* A pass of reconcileShutdownGuard                                        *)
(***************************************************************************)
\* The watcher's loop goes on, guard-recover exits; and so after an error.
AtRest(w) == IF w \in Recoverers THEN "down" ELSE "idle"

\* A pass keeps nothing for the next one.
EndsAs(w, where) ==
    /\ pc' = [pc EXCEPT ![w] = where]
    /\ todo' = [todo EXCEPT ![w] = {}]
    /\ reap' = [reap EXCEPT ![w] = Nobody]
    /\ live' = [live EXCEPT ![w] = FALSE]
    /\ snap' = [snap EXCEPT ![w] = Null]

Goes(w, from, to) == pc[w] = from /\ pc' = [pc EXCEPT ![w] = to]

\* delay: its timer is unref'd, so where nothing else is pending Node ends
\* the process, with success, before the timer fires.
WaitEnds(w) ==
    /\ w \in Watchers \ Lasting /\ pc[w] = "idle"
    /\ EndsAs(w, "down")
    /\ UNCHANGED <<service, files, holder, task, admin, faults, configured>>

\* The wait is over, and the directory is read.
BeginPass(w) ==
    /\ w \in Lasting
    /\ Goes(w, AtRest(w), "scan")
    /\ todo' = [todo EXCEPT ![w] = {s \in Sessions : lease[s] # "none"}]
    /\ UNCHANGED <<service, files, holder, reap, live, snap, task, admin, faults, configured>>

\* Mutant: a lease never expires.
ReadLeaseForever(w, s) ==
    /\ pc[w] = "scan" /\ reap[w] = Nobody /\ s \in todo[w]
    /\ todo' = [todo EXCEPT ![w] = @ \ {s}]
    /\ live' = [live EXCEPT ![w] = @ \/ lease[s] # "none"]
    /\ UNCHANGED <<service, files, holder, pc, reap, snap, task, admin, faults, configured>>

\* One lease file: live, or stale, invalid or gone.
ReadLease(w, s) ==
    /\ pc[w] = "scan" /\ reap[w] = Nobody /\ s \in todo[w]
    /\ todo' = [todo EXCEPT ![w] = @ \ {s}]
    /\ IF lease[s] = "fresh"
         THEN live' = [live EXCEPT ![w] = TRUE] /\ UNCHANGED reap
         ELSE reap' = [reap EXCEPT ![w] = s] /\ UNCHANGED live
    /\ UNCHANGED <<service, files, holder, pc, snap, task, admin, faults, configured>>

\* Unlinked by name: the file may be a newer one.
UnlinkLease(w) ==
    /\ pc[w] = "scan" /\ reap[w] # Nobody
    /\ lease' = [lease EXCEPT ![reap[w]] = "none"]
    /\ reap' = [reap EXCEPT ![w] = Nobody]
    /\ UNCHANGED <<service, saved, root, holder, pc, todo, live, snap, task, admin, faults, configured>>

\* state.json is read; without it nothing is saved.
ReadState(w) ==
    /\ pc[w] = "scan" /\ todo[w] = {} /\ reap[w] = Nobody
    /\ IF ~live[w] /\ saved \notin Settings
         THEN EndsAs(w, AtRest(w))
         ELSE /\ pc' = [pc EXCEPT ![w] =
                   CASE live[w] /\ saved \notin Settings -> "inspect"
                     [] live[w] /\ saved \in Settings -> "disable"
                     [] OTHER -> "restore"]
              /\ snap' = [snap EXCEPT ![w] = IF live[w] THEN Null ELSE saved]
              /\ UNCHANGED <<todo, reap, live>>
    /\ UNCHANGED <<service, files, holder, task, admin, faults, configured>>

\* A service found disabled is no setting to save.
Inspect(w) ==
    /\ pc[w] = "inspect"
    /\ IF service.startup = "Disabled"
         THEN EndsAs(w, AtRest(w))
         ELSE /\ Goes(w, "inspect", "compare")
              /\ snap' = [snap EXCEPT ![w] = service]
              /\ UNCHANGED <<todo, reap, live>>
    /\ UNCHANGED <<service, files, holder, task, admin, faults, configured>>

\* state.json is read again; without it the pass fails.
Compare(w) ==
    /\ pc[w] = "compare"
    /\ IF saved = Missing
         THEN EndsAs(w, AtRest(w))
         ELSE /\ Goes(w, "compare", IF saved = Null THEN "persist" ELSE "disable")
              /\ UNCHANGED <<todo, reap, live, snap>>
    /\ UNCHANGED <<service, files, holder, task, admin, faults, configured>>

\* atomicWriteJson fails when the directory is gone.
Persist(w) ==
    /\ pc[w] = "persist"
    /\ IF root
         THEN /\ Goes(w, "persist", "disable")
              /\ saved' = snap[w]
              /\ UNCHANGED <<todo, reap, live, snap>>
         ELSE EndsAs(w, AtRest(w)) /\ UNCHANGED saved
    /\ UNCHANGED <<service, root, lease, holder, task, admin, faults, configured>>

\* disable, first statement
SetDisabled(w) ==
    /\ Goes(w, "disable", "stop")
    /\ service' = [service EXCEPT !.startup = "Disabled"]
    /\ UNCHANGED <<files, holder, todo, reap, live, snap, task, admin, faults, configured>>

\* disable, second statement
StopService(w) ==
    /\ pc[w] = "stop"
    /\ service' = [service EXCEPT !.running = FALSE]
    /\ EndsAs(w, AtRest(w))
    /\ UNCHANGED <<files, holder, task, admin, faults, configured>>

\* restore, first statement
SetStartup(w) ==
    /\ Goes(w, "restore", "start")
    /\ service' = [service EXCEPT !.startup = snap[w].startup]
    /\ UNCHANGED <<files, holder, todo, reap, live, snap, task, admin, faults, configured>>

\* Mutant: only the startup type is restored.
StartOrStopNever(w) ==
    /\ Goes(w, "start", "clear")
    /\ UNCHANGED <<service, files, holder, todo, reap, live, snap, task, admin, faults, configured>>

\* restore, second statement: a disabled service cannot be started.
StartOrStop(w) ==
    /\ pc[w] = "start"
    /\ IF snap[w].running /\ service.startup = "Disabled"
         THEN EndsAs(w, AtRest(w)) /\ UNCHANGED service
         ELSE /\ Goes(w, "start", "clear")
              /\ service' = [service EXCEPT !.running = snap[w].running]
              /\ UNCHANGED <<todo, reap, live, snap>>
    /\ UNCHANGED <<files, holder, task, admin, faults, configured>>

Clear(w) ==
    /\ pc[w] = "clear"
    /\ saved' = IF root THEN Null ELSE saved
    /\ EndsAs(w, AtRest(w))
    /\ UNCHANGED <<service, root, lease, holder, task, admin, faults, configured>>

\* A PowerShell call fails, or is killed at its timeout, before a statement.
CallFails(w) ==
    /\ pc[w] \in {"inspect", "disable", "stop", "restore", "start"} /\ Fault
    /\ EndsAs(w, AtRest(w))
    /\ UNCHANGED <<service, files, holder, task, admin, configured>>

\* Set-Service fails, and the script's exit code is its last statement's.
SetServiceMasked(w) ==
    /\ Masked /\ Fault
    /\ Goes(w, "disable", "stop") \/ Goes(w, "restore", "start")
    /\ UNCHANGED <<service, files, holder, todo, reap, live, snap, task, admin, configured>>

WatcherDies(w) ==
    /\ pc[w] # "down" /\ Fault
    /\ EndsAs(w, "down")
    /\ UNCHANGED <<service, files, holder, task, admin, configured>>

\* The Task Scheduler runs one instance of the registered task.
TaskStarts(w) ==
    /\ installed /\ w \in Watchers /\ pc[w] = "down"
    /\ task # Nobody => pc[task] = "down"
    /\ task' = w
    /\ pc' = [pc EXCEPT ![w] = "idle"]
    /\ UNCHANGED <<service, files, holder, todo, reap, live, snap, admin, faults, configured>>

Reboot ==
    /\ Fault
    /\ \E b \in BOOLEAN :
         /\ service.startup = "Automatic" => b
         /\ service.startup = "Disabled" => ~b
         /\ service' = [service EXCEPT !.running = b]
    /\ holder' = [s \in Sessions |-> IF holder[s] = "on" THEN "dead" ELSE holder[s]]
    /\ pc' = [w \in Reconcilers |-> "down"]
    /\ todo' = [w \in Reconcilers |-> {}]
    /\ reap' = [w \in Reconcilers |-> Nobody]
    /\ live' = [w \in Reconcilers |-> FALSE]
    /\ snap' = [w \in Reconcilers |-> Null]
    /\ task' = Nobody /\ op' = "none" /\ opSnap' = Null
    /\ UNCHANGED <<files, installed, configured>>

(***************************************************************************)
(* The administrator                                                       *)
(***************************************************************************)
OpGoes(from, to) == op = from /\ op' = to

\* shutdownGuardInstallScript, up to the task: a state.json is kept.
InstallFiles ==
    /\ Reinstall \/ ~installed
    /\ OpGoes("none", "register")
    /\ root' = TRUE
    /\ saved' = IF saved = Missing THEN Null ELSE saved
    /\ UNCHANGED <<service, lease, holder, watch, task, installed, opSnap, faults, configured>>

\* Unregistering the old task leaves its process running.
RegisterTask ==
    /\ OpGoes("register", "none")
    /\ installed' = TRUE /\ task' = Nobody
    /\ UNCHANGED <<service, files, holder, watch, opSnap, faults, configured>>

\* Mutant: the task is unregistered and its process goes on.
StopTasksUnregisterOnly ==
    /\ op = "none"
    /\ installed' = FALSE /\ task' = Nobody
    /\ op' = IF saved \in Settings THEN "setStartup" ELSE "remove"
    /\ opSnap' = IF saved \in Settings THEN saved ELSE Null
    /\ UNCHANGED <<service, files, holder, watch, faults, configured>>

\* shutdownGuardUninstallScript: stop and unregister the task.
StopTasks ==
    /\ op = "none"
    /\ installed' = FALSE /\ task' = Nobody
    /\ IF task = Nobody THEN UNCHANGED watch ELSE EndsAs(task, "down")
    /\ op' = IF saved \in Settings THEN "setStartup" ELSE "remove"
    /\ opSnap' = IF saved \in Settings THEN saved ELSE Null
    /\ UNCHANGED <<service, files, holder, faults, configured>>

OpSetStartup ==
    /\ OpGoes("setStartup", "startOrStop")
    /\ service' = [service EXCEPT !.startup = opSnap.startup]
    /\ UNCHANGED <<files, holder, watch, task, installed, opSnap, faults, configured>>

OpStartOrStop ==
    /\ op = "startOrStop"
    /\ IF opSnap.running /\ service.startup = "Disabled"
         THEN op' = "none" /\ UNCHANGED service
         ELSE op' = "remove" /\ service' = [service EXCEPT !.running = opSnap.running]
    /\ opSnap' = Null
    /\ UNCHANGED <<files, holder, watch, task, installed, faults, configured>>

\* An error ends the elevated script where it is.
OpFails ==
    /\ op \in {"setStartup", "startOrStop"} /\ Fault
    /\ op' = "none" /\ opSnap' = Null
    /\ UNCHANGED <<service, files, holder, watch, task, installed, configured>>

RemoveState ==
    /\ OpGoes("remove", "removeRoot")
    /\ saved' = Missing
    /\ UNCHANGED <<service, root, lease, holder, watch, task, installed, opSnap, faults, configured>>

\* With the leases of the sessions that still run.
RemoveRoot ==
    /\ OpGoes("removeRoot", "none")
    /\ root' = FALSE /\ saved' = Missing
    /\ lease' = [s \in Sessions |-> "none"]
    /\ UNCHANGED <<service, holder, watch, task, installed, opSnap, faults, configured>>

Session(s) ==
    \/ Engage(s) \/ Heartbeat(s) \/ Release(s) \/ GuardOff(s)
    \/ SessionDies(s) \/ Expire(s)

Pass(w) ==
    \/ WaitEnds(w) \/ BeginPass(w) \/ UnlinkLease(w) \/ ReadState(w)
    \/ \E s \in Sessions : ReadLease(w, s)
    \/ Inspect(w) \/ Compare(w) \/ Persist(w)
    \/ SetDisabled(w) \/ StopService(w)
    \/ SetStartup(w) \/ StartOrStop(w) \/ Clear(w)

Admin ==
    \/ InstallFiles \/ RegisterTask
    \/ StopTasks \/ OpSetStartup \/ OpStartOrStop \/ OpFails
    \/ RemoveState \/ RemoveRoot

Next ==
    \/ \E s \in Sessions : Session(s)
    \/ \E w \in Reconcilers :
         Pass(w) \/ CallFails(w) \/ SetServiceMasked(w) \/ WatcherDies(w) \/ TaskStarts(w)
    \/ Admin
    \/ Reboot

Spec == Init /\ [][Next]_vars

\* The watcher's timers fire and its calls return; the Task Scheduler starts
\* the task at boot and after a failure; leases age, and a holder that is up
\* renews its own.  Nothing obliges anybody to engage, release or reboot.
FairSpec ==
    /\ Spec
    /\ \A w \in Watchers : WF_vars(Pass(w)) /\ WF_vars(TaskStarts(w))
    /\ \A s \in Sessions : WF_vars(Heartbeat(s)) /\ WF_vars(Expire(s))

-----------------------------------------------------------------------------
(***************************************************************************)
(* Properties                                                              *)
(***************************************************************************)
\* Every variable holds a value of its kind (the whole of src/guard.js's
\* session, reconcile and uninstall state).
TypeOK ==
    /\ service \in Settings /\ configured \in StartTypes
    /\ saved \in Settings \union {Null, Missing}
    /\ root \in BOOLEAN /\ installed \in BOOLEAN
    /\ lease \in [Sessions -> {"none", "fresh", "stale"}]
    /\ holder \in [Sessions -> {"idle", "on", "done", "dead"}]
    /\ pc \in [Reconcilers -> {"down", "idle", "scan", "inspect", "compare",
          "persist", "disable", "stop", "restore", "start", "clear"}]
    /\ todo \in [Reconcilers -> SUBSET Sessions]
    /\ reap \in [Reconcilers -> Sessions \union {Nobody}]
    /\ live \in [Reconcilers -> BOOLEAN]
    /\ snap \in [Reconcilers -> Settings \union {Null}]
    /\ task \in Watchers \union {Nobody}
    /\ op \in {"none", "register", "setStartup", "startOrStop", "remove", "removeRoot"}
    /\ opSnap \in Settings \union {Null}
    /\ faults \in 0 .. MaxFaults

\* Whenever nothing is saved the service has the administrator's startup
\* type: no crash, reboot, failed call or uninstall, wherever it falls in
\* a reconcile, leaves the service disabled with nobody to give it back.
GivenBack == saved \notin Settings => service.startup = configured

\* Only the registered task's process reconciles, and never beside the
\* uninstall script's restoration.
OneReconciler ==
    /\ \A w \in Reconcilers : pc[w] # "down" => w = task /\ installed
    /\ op \notin {"none", "register"} => ~installed
    /\ op = "register" => ~installed

\* What a process remembers across a call is still so when it returns.
MemoryCurrent ==
    /\ \A w \in Reconcilers :
         /\ pc[w] \in {"compare", "persist"} =>
              saved \notin Settings /\ snap[w] = service /\ service.startup # "Disabled"
         /\ pc[w] = "inspect" => saved \notin Settings
         /\ pc[w] \in {"disable", "stop"} => saved \in Settings
         /\ pc[w] \in {"restore", "start", "clear"} => saved \in Settings /\ snap[w] = saved
         /\ pc[w] = "start" => service.startup = saved.startup
         /\ pc[w] = "clear" => service = saved
    /\ op \in {"setStartup", "startOrStop"} => saved \in Settings /\ opSnap = saved
    /\ op = "startOrStop" => service.startup = saved.startup
    /\ op = "remove" /\ saved \in Settings => service = saved
    /\ op = "removeRoot" => saved = Missing

\* What is saved is what the administrator chose, and never "Disabled".
SavedIsConfigured ==
    saved \in Settings => saved.startup = configured /\ configured # "Disabled"

\* Inductive when the guard's assumptions hold (ShutdownGuardProofs).
IndInv == TypeOK /\ OneReconciler /\ MemoryCurrent /\ SavedIsConfigured /\ GivenBack

Policy == INSTANCE ShutdownPolicy WITH
    saved <- IF saved = Missing THEN Null ELSE saved

\* The processes together keep the policy: snapshot once, change the service
\* only while its setting is saved, forget it only once it is restored.
ImplementsPolicy == Policy!Spec

Released == \A s \in Sessions : holder[s] # "on"

\* "always restore the service when protection is no longer actively
\* leased": while a task whose waits last stays installed, once no session
\* holds a lease the service is given back and its setting forgotten.
RestoredEventually ==
    <>[](installed /\ task \notin Watchers \ Lasting /\ Released)
        => <>[](saved \notin Settings /\ service.startup = configured)

\* "one or more live leases: continuously enforce disabled and stopped": a
\* session that keeps its lease is eventually protected, and stays so.
ProtectedWhileHeld ==
    \A s \in Sessions :
        <>[](installed /\ holder[s] = "on") /\ configured # "Disabled"
            => <>[](service.startup = "Disabled" /\ ~service.running)
=============================================================================
