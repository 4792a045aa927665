-------------------------- MODULE ServiceOperation --------------------------
(***************************************************************************)
(* The service operations of src/service.js: install, update and uninstall *)
(* on a systemd host and on a Windows host.  Command lines run in          *)
(* processes of their own; they share a lock directory, a journal, a       *)
(* directory of immutable releases, and what the service manager launches. *)
(* A process may die between any two steps, and the next operation recovers *)
(* from the journal it left.                                               *)
(*                                                                         *)
(* An operation and the release it makes carry one number: the order in    *)
(* which operations took the lock is the order of the releases' install    *)
(* times.  0 is no operation and no release.                               *)
(*                                                                         *)
(* External: systemd and the Task Scheduler (launcher, running, draining), *)
(* and the jobs the dispatcher runs (busy).                                *)
(***************************************************************************)
EXTENDS Naturals, FiniteSets

CONSTANTS
    Procs,          \* command lines that may run at once
    Hosts,          \* kinds of host: "systemd", "windows"
    MaxOps,         \* operations
    MaxFaults,      \* calls that fail and processes that die
    SlowHolders     \* whether an operation may hold the lock for an hour

ASSUME OpsAssumption == MaxOps \in Nat /\ MaxFaults \in Nat
ASSUME HostsAssumption == Hosts \subseteq {"systemd", "windows"}
ASSUME SlowAssumption == SlowHolders \in BOOLEAN

VARIABLES
    host,       \* the kind of this host
    pc,         \* where each process is
    kind,       \* its command: "install", "update", "force" (install --force), "uninstall"
    op,         \* its operation id
    mem,        \* its copy of the journal, and whether the old dispatcher ran
    started,    \* operations begun
    ops,        \* ids given out
    dir,        \* the directory operation.lock is there
    lock,       \* the operation its owner.json names, 0 without one
    aged,       \* that lock is LOCK_MAX_AGE_MS old
    reused,     \* its owner died, and another process has its pid by now
    saw,        \* the owner for which a process decided to remove the lock
    raced,      \* a lock was removed that nobody decided to remove
    journal,    \* operation.json
    store,      \* each release's directory
    stable, old,  \* releases up to this one are 24 h old, 7 days old
    launcher,   \* the release the manager starts: unit file or launcher script;
                \* Torn if the file was cut off when it was written
    current,    \* Windows: the release current-release names
    running,    \* the release the running dispatcher was started from
    busy,       \* it runs a job
    draining,   \* systemd is restarting it, once its jobs have ended
    faults

process == <<pc, kind, op, mem, started>>
locking == <<ops, dir, lock, aged, reused, saw, raced>>
disk == <<journal, store, stable, old>>
service == <<launcher, current, running, busy, draining>>
vars == <<host, process, locking, disk, service, faults>>

Ids == 1..MaxOps
Some == 0..MaxOps
Torn == MaxOps + 1
NoJournal == [phase |-> "none", current |-> 0, previous |-> 0, good |-> 0]

Blank == [journal |-> NoJournal, was |-> FALSE]

Init ==
    /\ host \in Hosts
    /\ pc = [p \in Procs |-> "idle"]
    /\ kind = [p \in Procs |-> "install"]
    /\ op = [p \in Procs |-> 0]
    /\ mem = [p \in Procs |-> Blank]
    /\ started = 0 /\ ops = 0
    /\ dir = FALSE /\ lock = 0 /\ aged = FALSE /\ reused = FALSE
    /\ saw = [p \in Procs |-> 0] /\ raced = FALSE
    /\ journal = NoJournal /\ store = [r \in Ids |-> "absent"]
    /\ stable = 0 /\ old = 0
    /\ launcher = 0 /\ current = 0 /\ running = 0
    /\ busy = FALSE /\ draining = FALSE /\ faults = 0

Fault == faults < MaxFaults /\ faults' = faults + 1
Goes(p, from, to) == pc[p] = from /\ pc' = [pc EXCEPT ![p] = to]
Ends(p) ==
    /\ pc' = [pc EXCEPT ![p] = "idle"]
    /\ kind' = [kind EXCEPT ![p] = "install"]
    /\ op' = [op EXCEPT ![p] = 0]
    /\ mem' = [mem EXCEPT ![p] = Blank]
Whole(r) == r \in Ids /\ store[r] = "whole"
\* Windows: the dispatcher that runs is replaced, not only the release.
Replaces(p) == kind[p] = "force"

\* What the manager can start.
Startable == IF Whole(launcher) THEN launcher ELSE 0

\* What the next operation takes for the installed release.
Installed ==
    IF host = "windows" THEN IF Whole(current) THEN current ELSE 0
    ELSE IF launcher = Torn THEN 0 ELSE launcher

Target == IF journal.good # 0 THEN journal.good ELSE journal.previous
Pending == journal.phase = "pending"

\* The unit or launcher the recovery writes; an uninstall restores nothing,
\* and on systemd neither does an install without a unit.
Restores(p) == Pending /\ Target # 0 /\ kind[p] # "uninstall" /\ ~(host = "systemd" /\ launcher = 0)
Writing(p) ==
    \/ pc[p] \in {"point", "undo"}
    \/ pc[p] = "recover" /\ Restores(p) /\ Whole(Target) /\ launcher # 0

(***************************************************************************)
(* Command lines and the lock                                              *)
(***************************************************************************)
Call(p, k) ==
    /\ started < MaxOps
    /\ Goes(p, "idle", IF k = "update" THEN "check" ELSE "lock")
    /\ kind' = [kind EXCEPT ![p] = k]
    /\ started' = started + 1
    /\ UNCHANGED <<host, op, mem, locking, disk, service, faults>>

\* updateService: it refuses while a job runs or nothing is installed, or
\* when the image refresh fails.
UpdateRefused(p) ==
    /\ pc[p] = "check" /\ (busy \/ Installed = 0)
    /\ Ends(p)
    /\ UNCHANGED <<host, started, locking, disk, service, faults>>

\* It goes on as an install, and on Windows as one that replaces the
\* dispatcher, which is what --force does there.
UpdateGoesOn(p) ==
    /\ Goes(p, "check", "lock")
    /\ ~busy /\ Installed # 0
    /\ kind' = [kind EXCEPT ![p] = IF host = "windows" THEN "force" ELSE "install"]
    /\ UNCHANGED <<host, op, mem, started, locking, disk, service, faults>>

Tries(p) == pc[p] \in {"lock", "look"}
Dead(id) == \A p \in Procs : op[p] # id

\* Mutant: a dead owner's lock waits for its age.
StaleAged == lock = 0 \/ aged

\* The owner is not to be read, its pid is not alive, or the lock is old.
Stale == lock = 0 \/ aged \/ (Dead(lock) /\ ~reused)

\* acquireServiceLock: the directory is made.  An uninstall that has given up
\* the lock with the rest of the root may still be removing that.
MakeDir(p) ==
    /\ Tries(p) /\ ~dir
    /\ pc' = [pc EXCEPT ![p] = "own"]
    /\ dir' = TRUE
    /\ raced' = \E q \in Procs : pc[q] = "wiping"
    /\ UNCHANGED <<host, kind, op, mem, started, ops, lock, aged, reused, saw, disk, service, faults>>

\* Then its owner is written: to a temporary file, which is renamed, in the
\* directory, which is made if it is gone.
WriteOwner(p) ==
    /\ ops < MaxOps
    /\ Goes(p, "own", "recover")
    /\ ops' = ops + 1 /\ lock' = ops + 1 /\ dir' = TRUE
    /\ op' = [op EXCEPT ![p] = ops + 1]
    /\ UNCHANGED <<host, kind, mem, started, aged, reused, saw, raced, disk, service, faults>>

\* The directory exists.  From here on the process tries again until its time
\* is up, and may read the owner of a directory that is gone by then.
Busy(p) ==
    /\ dir /\ Goes(p, "lock", "look")
    /\ UNCHANGED <<host, kind, op, mem, started, locking, disk, service, faults>>

LookStale(p) ==
    /\ Stale /\ Goes(p, "look", "remove")
    /\ saw' = [saw EXCEPT ![p] = lock]
    /\ UNCHANGED <<host, kind, op, mem, started, ops, dir, lock, aged, reused, raced, disk, service, faults>>

LockTimesOut(p) ==
    /\ pc[p] = "look" /\ ~Stale
    /\ Ends(p)
    /\ UNCHANGED <<host, started, locking, disk, service, faults>>

LockGoes == dir' = FALSE /\ lock' = 0 /\ aged' = FALSE /\ reused' = FALSE
BeingMade == \E q \in Procs : pc[q] = "own"

\* rmSync of whatever lock is there by now.
Remove(p) ==
    /\ Goes(p, "remove", "lock") /\ LockGoes
    /\ saw' = [saw EXCEPT ![p] = 0]
    /\ raced' = (lock # saw[p] \/ BeingMade)
    /\ UNCHANGED <<host, kind, op, mem, started, ops, disk, service, faults>>

\* The release function: only its own operation's lock is removed.
Unlock(p) ==
    /\ pc[p] = "unlock" /\ Ends(p)
    /\ IF lock = op[p] THEN LockGoes ELSE UNCHANGED <<dir, lock, aged, reused>>
    /\ UNCHANGED <<host, started, ops, saw, raced, disk, service, faults>>

\* The process dies: its lock and its journal stay, and a unit or launcher it
\* was just writing is cut off.
Crash(p) ==
    /\ pc[p] # "idle" /\ Fault /\ Ends(p)
    /\ saw' = [saw EXCEPT ![p] = 0]
    /\ launcher' \in IF Writing(p) THEN {launcher, Torn} ELSE {launcher}
    /\ UNCHANGED <<host, started, ops, dir, lock, aged, reused, raced, disk, current, running, busy, draining>>

\* A dead owner's pid is given to another process, or is one that may not be
\* signalled: it reads as alive.
PidReused ==
    /\ lock # 0 /\ Dead(lock) /\ ~reused /\ Fault
    /\ reused' = TRUE
    /\ UNCHANGED <<host, process, ops, dir, lock, aged, saw, raced, disk, service>>

HourPasses ==
    /\ reused /\ ~aged
    /\ aged' = TRUE
    /\ UNCHANGED <<host, process, ops, dir, lock, reused, saw, raced, disk, service, faults>>

(***************************************************************************)
(* Recovery of the operation before                                        *)
(***************************************************************************)
Recovered(p) == IF kind[p] = "uninstall" THEN "stop" ELSE "preflight"

NothingPending(p) ==
    /\ ~Pending /\ Goes(p, "recover", Recovered(p))
    /\ UNCHANGED <<host, kind, op, mem, started, locking, disk, service, faults>>

\* The unit's ExecStart is replaced, of which a unit cut off has none; the
\* launcher is written anew.
Restored == IF launcher = 0 \/ (host = "systemd" /\ launcher = Torn) THEN launcher ELSE Target

\* What the manager starts becomes the target again; a target without
\* metadata throws, on Windows after current-release was written.
Restore(p) ==
    /\ Pending
    /\ Goes(p, "recover", IF Restores(p) /\ ~Whole(Target) THEN "unlock" ELSE "mark")
    /\ launcher' = IF Restores(p) /\ Whole(Target) THEN Restored ELSE launcher
    /\ current' = IF Restores(p) /\ host = "windows" THEN Target ELSE current
    /\ UNCHANGED <<host, kind, op, mem, started, locking, disk, running, busy, draining, faults>>

\* The unit or launcher is cut off, or daemon-reload fails after it.
RestoreFails(p) ==
    /\ Restores(p) /\ Whole(Target) /\ launcher # 0 /\ Fault
    /\ Goes(p, "recover", "unlock")
    /\ launcher' \in {Torn} \union (IF host = "systemd" THEN {Restored} ELSE {})
    /\ current' = IF host = "windows" THEN Target ELSE current
    /\ UNCHANGED <<host, kind, op, mem, started, locking, disk, running, busy, draining>>

MarkFailed(p) ==
    /\ Goes(p, "mark", Recovered(p))
    /\ journal' = [journal EXCEPT !.phase = "failed",
                                  !.current = IF Target # 0 THEN Target ELSE @]
    /\ UNCHANGED <<host, kind, op, mem, started, locking, store, stable, old, service, faults>>

(***************************************************************************)
(* Install: the new release                                                *)
(***************************************************************************)
Preflight(p) ==
    /\ Goes(p, "preflight", "begin")
    /\ mem' = [mem EXCEPT ![p].was = host = "systemd" /\ running # 0]
    /\ UNCHANGED <<host, kind, op, started, locking, disk, service, faults>>

\* A requirement is missing, or Windows must reboot first: nothing is written.
PreflightFails(p) ==
    /\ Fault /\ Goes(p, "preflight", "unlock")
    /\ UNCHANGED <<host, kind, op, mem, started, locking, disk, service>>

\* Mutant: the new journal starts from the old one and keeps its phase.
BeginningKeepsPhase ==
    [journal EXCEPT !.current = Installed, !.previous = Installed,
                    !.good = IF @ # 0 THEN @ ELSE Installed]

\* beginOperation: a last-known-good is carried over.
Beginning ==
    [phase |-> "pending", current |-> Installed, previous |-> Installed,
     good |-> IF journal.good # 0 THEN journal.good ELSE Installed]

Begin(p) ==
    /\ Goes(p, "begin", IF host = "windows" THEN "nested" ELSE "make")
    /\ mem' = [mem EXCEPT ![p].journal = Beginning]
    /\ journal' = Beginning
    /\ UNCHANGED <<host, kind, op, started, locking, store, stable, old, service, faults>>

\* Mutant: the nested install gives back the lock it only joined.
NestedUnlocks(p) ==
    /\ Goes(p, "nested", "stopold")
    /\ LockGoes
    /\ UNCHANGED <<host, kind, op, mem, started, ops, saw, raced, disk, service, faults>>

\* The install inside WSL, under the id of this operation: it finds its own
\* id in the lock, joins it, and leaves it in place.
Nested(p) ==
    /\ Goes(p, "nested", "stopold")
    /\ UNCHANGED <<host, kind, op, mem, started, locking, disk, service, faults>>

\* Windows: a replaced dispatcher is stopped first, its job with it.
StopOld(p) ==
    /\ Goes(p, "stopold", "make")
    /\ mem' = [mem EXCEPT ![p].was = running # 0]
    /\ running' = IF Replaces(p) THEN 0 ELSE running
    /\ busy' = (busy /\ ~Replaces(p))
    /\ UNCHANGED <<host, kind, op, started, locking, disk, launcher, current, draining, faults>>

\* It was told to stop and is not gone in time: nothing is rolled back.
StopOldFails(p) ==
    /\ Replaces(p) /\ running # 0 /\ Fault
    /\ Goes(p, "stopold", "fail")
    /\ running' \in {0, running}
    /\ busy' = (busy /\ running' # 0)
    /\ UNCHANGED <<host, kind, op, mem, started, locking, disk, launcher, current, draining>>

\* The copy goes to a temporary directory; how far it got is seen by a crash.
Copy(p) ==
    /\ Goes(p, "make", "rename")
    /\ \E s \in {"bare", "marked"} : store' = [store EXCEPT ![op[p]] = s]
    /\ UNCHANGED <<host, kind, op, mem, started, locking, journal, stable, old, service, faults>>

Rename(p) ==
    /\ Goes(p, "rename", "note")
    /\ store' = [store EXCEPT ![op[p]] = "whole"]
    /\ UNCHANGED <<host, kind, op, mem, started, locking, journal, stable, old, service, faults>>

NoteCurrent(p) ==
    /\ Goes(p, "note", "point")
    /\ mem' = [mem EXCEPT ![p].journal.current = op[p]]
    /\ journal' = mem'[p].journal
    /\ UNCHANGED <<host, kind, op, started, locking, store, stable, old, service, faults>>

\* The unit is written and reloaded; the launcher, and its logon task.
Point(p) ==
    /\ Goes(p, "point", "start")
    /\ launcher' = op[p]
    /\ UNCHANGED <<host, kind, op, mem, started, locking, disk, current, running, busy, draining, faults>>

(***************************************************************************)
(* Install: the dispatcher is started from it                              *)
(***************************************************************************)
\* Mutant: the running dispatcher is killed in any case.
RestartKills(p) ==
    /\ host = "systemd" /\ mem[p].was
    /\ Goes(p, "start", "drain")
    /\ draining' = TRUE /\ busy' = FALSE
    /\ UNCHANGED <<host, kind, op, mem, started, locking, disk, launcher, current, running, faults>>

\* Mutant: systemctl start is called for a running unit as well.
StartInstead(p) ==
    /\ host = "systemd" /\ mem[p].was
    /\ Goes(p, "start", "verify")
    /\ UNCHANGED <<host, kind, op, mem, started, locking, disk, service, faults>>

\* systemctl restart waits for the running dispatcher, whose jobs it does
\* not interrupt; --force kills it first.
Restart(p) ==
    /\ host = "systemd" /\ mem[p].was
    /\ Goes(p, "start", "drain")
    /\ draining' = TRUE
    /\ busy' = (busy /\ kind[p] # "force")
    /\ UNCHANGED <<host, kind, op, mem, started, locking, disk, launcher, current, running, faults>>

\* systemctl start, which leaves a running unit alone.
StartUnit(p) ==
    /\ host = "systemd" /\ ~mem[p].was
    /\ Goes(p, "start", "verify")
    /\ running' = IF running = 0 THEN Startable ELSE running
    /\ UNCHANGED <<host, kind, op, mem, started, locking, disk, launcher, current, busy, draining, faults>>

\* The new launcher exits when another holds its mutex; a plain install
\* does not start it.
StartTask(p) ==
    /\ host = "windows"
    /\ Goes(p, "start", "record")
    /\ running' = IF Replaces(p) /\ running = 0 THEN Startable ELSE running
    /\ UNCHANGED <<host, kind, op, mem, started, locking, disk, launcher, current, busy, draining, faults>>

Restarted(p) ==
    /\ ~draining /\ Goes(p, "drain", "verify")
    /\ UNCHANGED <<host, kind, op, mem, started, locking, disk, service, faults>>

\* Mutant: the install is not verified.
VerifyNothing(p) ==
    /\ Goes(p, "verify", "commit")
    /\ UNCHANGED <<host, kind, op, mem, started, locking, disk, service, faults>>

\* verifySystemdInstall: the process that runs is this release's.
Verify(p) ==
    /\ Goes(p, "verify", IF running = op[p] THEN "commit" ELSE "fail")
    /\ UNCHANGED <<host, kind, op, mem, started, locking, disk, service, faults>>

Record(p) ==
    /\ Goes(p, "record", "commit")
    /\ current' = op[p]
    /\ UNCHANGED <<host, kind, op, mem, started, locking, disk, launcher, running, busy, draining, faults>>

(***************************************************************************)
(* Install: failure                                                        *)
(***************************************************************************)
Rescued(p) == host = "windows" /\ Replaces(p) /\ mem[p].journal.previous # 0

\* A step throws, some with half of it done; an unfinished copy is removed.
StepFails(p) ==
    /\ pc[p] \in {"make", "rename", "note", "point", "start", "verify", "record", "commit"}
    /\ Fault
    /\ pc' = [pc EXCEPT ![p] =
           IF Rescued(p) /\ @ # "commit" THEN "undo" ELSE "fail"]
    /\ store' = [r \in Ids |-> IF r = op[p] /\ pc[p] = "rename" THEN "absent" ELSE store[r]]
    /\ launcher' \in IF pc[p] = "point" THEN {launcher, Torn, op[p]} ELSE {launcher}
    /\ UNCHANGED <<host, kind, op, mem, started, locking, journal, stable, old, current, running, busy, draining>>

\* Windows: the launcher of the release before, and its dispatcher if it ran.
Undo(p) ==
    LET previous == mem[p].journal.previous
    IN  /\ Goes(p, "undo", "fail")
        /\ launcher' = IF Whole(previous) THEN previous ELSE launcher
        /\ running' = IF Whole(previous) /\ mem[p].was /\ running = 0 THEN previous ELSE running
        /\ UNCHANGED <<host, kind, op, mem, started, locking, disk, current, busy, draining, faults>>

UndoFails(p) ==
    /\ Fault /\ Goes(p, "undo", "fail")
    /\ launcher' \in {launcher, Torn}
    /\ UNCHANGED <<host, kind, op, mem, started, locking, disk, current, running, busy, draining>>

\* failedOperation.
Fail(p) ==
    /\ Goes(p, "fail", "unlock")
    /\ journal' = [mem[p].journal EXCEPT !.phase = "failed", !.current = mem[p].journal.previous]
    /\ mem' = [mem EXCEPT ![p] = Blank]
    /\ UNCHANGED <<host, kind, op, started, locking, store, stable, old, service, faults>>

(***************************************************************************)
(* Install: success                                                        *)
(***************************************************************************)

\* successfulOperation: an established last-known-good stays.
StablePrevious(j) ==
    IF j.good # 0 THEN j.good
    ELSE IF j.previous <= stable THEN j.previous ELSE 0

Commit(p) ==
    /\ Goes(p, "commit", "prune")
    /\ journal' = [mem[p].journal EXCEPT
           !.phase = "committed",
           !.current = IF host = "systemd" THEN op[p] ELSE Installed,
           !.good = StablePrevious(mem[p].journal)]
    /\ mem' = [mem EXCEPT ![p] = Blank]
    /\ UNCHANGED <<host, kind, op, started, locking, store, stable, old, service, faults>>

\* pruneReleases, whose journal is the one on disk.
Named == {r \in Ids : store[r] \in {"bare", "marked", "whole"}}
\* Mutant: the last-known-good is not kept.
ProtectedNotGood ==
    {Installed, journal.current}
        \union (IF Pending THEN {journal.previous} ELSE {})

Protected ==
    {Installed, journal.current, journal.good}
        \union (IF Pending THEN {journal.previous} ELSE {})

\* A failed operation's releases, those of the last week and what is not
\* recognized as a release.
Kept ==
    {r \in Named :
        \/ r \in Protected
        \/ store[r] = "bare"
        \/ journal.phase = "failed" /\ r \in {journal.current, journal.previous}
        \/ r > old}

\* The newest of the rest fill up a floor of two.
Floor ==
    {r \in Named \ Kept :
        Cardinality(Kept) + Cardinality({s \in Named \ Kept : s > r}) < 2}

Prune(p) ==
    /\ Goes(p, "prune", "unlock")
    /\ store' = IF journal.phase = "none" THEN store
                ELSE [r \in Ids |-> IF r \in Named \ (Kept \union Floor) THEN "pruned" ELSE store[r]]
    /\ UNCHANGED <<host, kind, op, mem, started, locking, journal, stable, old, service, faults>>

\* A directory that cannot be removed is warned of.
PruneFails(p) ==
    /\ Fault /\ Goes(p, "prune", "unlock")
    /\ UNCHANGED <<host, kind, op, mem, started, locking, disk, service>>

(***************************************************************************)
(* Uninstall                                                               *)
(***************************************************************************)
\* disable --now, which waits for the jobs; the Windows dispatcher is left
\* running.
StopService(p) ==
    /\ host = "systemd" => ~busy
    /\ Goes(p, "stop", "unpoint")
    /\ running' = IF host = "systemd" THEN 0 ELSE running
    /\ draining' = FALSE
    /\ UNCHANGED <<host, kind, op, mem, started, locking, disk, launcher, current, busy, faults>>

\* It fails, and the uninstall goes on with the dispatcher running.
StopServiceFails(p) ==
    /\ host = "systemd" /\ Fault /\ Goes(p, "stop", "unpoint")
    /\ UNCHANGED <<host, kind, op, mem, started, locking, disk, service>>

\* Mutant: the unit file stays.
UnpointForgets(p) ==
    /\ Goes(p, "unpoint", "wipe")
    /\ UNCHANGED <<host, kind, op, mem, started, locking, disk, service, faults>>

Unpoint(p) ==
    /\ Goes(p, "unpoint", "wipe")
    /\ launcher' = 0
    /\ UNCHANGED <<host, kind, op, mem, started, locking, disk, current, running, busy, draining, faults>>

\* Windows: an elevated task that cannot be removed is warned of.
UnpointFails(p) ==
    /\ Fault /\ Goes(p, "unpoint", IF host = "windows" THEN "wipe" ELSE "unlock")
    /\ UNCHANGED <<host, kind, op, mem, started, locking, disk, service>>

Wiped(gone) == [r \in Ids |-> IF r \in Named \intersect gone THEN "wiped" ELSE store[r]]

\* rmSync takes the directory file by file: on systemd the journal and the
\* lock are in it; on Windows both stay, with the releases they name gone.
WipeSome(p) ==
    /\ Goes(p, "wipe", "wiping")
    /\ \E gone \in SUBSET Named : store' = Wiped(gone)
    /\ current' \in {0, current}
    /\ journal' \in IF host = "systemd" THEN {NoJournal, journal} ELSE {journal}
    /\ UNCHANGED <<dir, lock, aged, reused>> \/ (host = "systemd" /\ LockGoes)
    /\ UNCHANGED <<host, kind, op, mem, started, ops, saw, raced, stable, old, launcher, running, busy,
                   draining, faults>>

WipeRest(p) ==
    /\ Goes(p, "wiping", IF host = "systemd" THEN "reload" ELSE "unlock")
    /\ store' = Wiped(Ids) /\ current' = 0
    /\ journal' = IF host = "systemd" THEN NoJournal ELSE journal
    /\ IF host = "systemd" THEN LockGoes ELSE UNCHANGED <<dir, lock, aged, reused>>
    /\ UNCHANGED <<host, kind, op, mem, started, ops, saw, raced, stable, old, launcher, running, busy,
                   draining, faults>>

\* A file that cannot be removed ends it there.
WipeFails(p) ==
    /\ Fault /\ Goes(p, "wiping", "unlock")
    /\ UNCHANGED <<host, kind, op, mem, started, locking, disk, service>>

Reload(p) ==
    /\ Goes(p, "reload", "unlock")
    /\ UNCHANGED <<host, kind, op, mem, started, locking, disk, service, faults>>

(***************************************************************************)
(* The service manager, the jobs and time                                  *)
(***************************************************************************)
RestartEnds ==
    /\ draining /\ ~busy
    /\ draining' = FALSE
    /\ running' = Startable
    /\ UNCHANGED <<host, process, locking, disk, launcher, current, busy, faults>>

\* A crash with Restart=always, a reboot, or a logon.
DispatcherRestarts ==
    /\ running # Startable /\ Fault
    /\ running' = Startable
    /\ busy' = FALSE /\ draining' = FALSE
    /\ UNCHANGED <<host, process, locking, disk, launcher, current>>

\* Somebody stops it, between operations.
DispatcherStops ==
    /\ running # 0 /\ ~busy /\ ~draining /\ lock = 0
    /\ running' = 0
    /\ UNCHANGED <<host, process, locking, disk, launcher, current, busy, draining, faults>>

Stopping == draining \/ (host = "systemd" /\ \E p \in Procs : pc[p] = "stop")

JobStarts ==
    /\ running # 0 /\ ~busy /\ ~Stopping
    /\ busy' = TRUE
    /\ UNCHANGED <<host, process, locking, disk, launcher, current, running, draining, faults>>

\* An operation waits for the job that runs.
HolderWaits == \E p \in Procs : op[p] = lock /\ pc[p] \in {"drain", "stop"}

\* A job may run for hours.  The lock of an operation that waited for it is
\* an hour old by then.
JobEnds ==
    /\ busy /\ busy' = FALSE
    /\ aged' \in IF SlowHolders /\ lock # 0 /\ HolderWaits THEN BOOLEAN ELSE {aged}
    /\ UNCHANGED <<host, process, ops, dir, lock, reused, saw, raced, disk, launcher, current, running,
                   draining, faults>>

\* Days pass between operations, while one is left to see it: whatever is
\* installed is a day old then, and what was a day old is a week old.
DaysPass ==
    /\ started < MaxOps /\ stable # ops
    /\ \A p \in Procs : pc[p] = "idle"
    /\ stable' = ops /\ old' = stable
    /\ UNCHANGED <<host, process, locking, journal, store, service, faults>>

-----------------------------------------------------------------------------
Acquires(p) ==
    \/ UpdateRefused(p) \/ UpdateGoesOn(p) \/ MakeDir(p) \/ WriteOwner(p) \/ Busy(p) \/ LookStale(p)
    \/ LockTimesOut(p) \/ Remove(p)
Recovers(p) == NothingPending(p) \/ Restore(p) \/ MarkFailed(p)
Installs(p) ==
    \/ Preflight(p) \/ Begin(p) \/ Nested(p) \/ StopOld(p) \/ Copy(p) \/ Rename(p)
    \/ NoteCurrent(p) \/ Point(p) \/ Restart(p) \/ StartUnit(p) \/ StartTask(p)
    \/ Restarted(p) \/ Verify(p) \/ Record(p) \/ Undo(p) \/ Fail(p) \/ Commit(p) \/ Prune(p)
Uninstalls(p) == StopService(p) \/ Unpoint(p) \/ WipeSome(p) \/ WipeRest(p) \/ Reload(p)
Fails(p) ==
    \/ RestoreFails(p) \/ PreflightFails(p) \/ StopOldFails(p) \/ StepFails(p) \/ UndoFails(p)
    \/ PruneFails(p) \/ StopServiceFails(p) \/ UnpointFails(p) \/ WipeFails(p) \/ Crash(p)
Step(p) ==
    /\ ~raced /\ pc[p] # "idle"
    /\ \/ op[p] = 0 /\ Acquires(p)
       \/ op[p] # 0 /\ (Recovers(p) \/ Unlock(p))
       \/ op[p] # 0 /\ kind[p] # "uninstall" /\ Installs(p)
       \/ op[p] # 0 /\ kind[p] = "uninstall" /\ Uninstalls(p)
Manager ==
    \/ RestartEnds \/ DispatcherRestarts \/ DispatcherStops \/ JobStarts \/ JobEnds
    \/ PidReused \/ HourPasses

\* Once a lock was removed that nobody decided to remove, two operations may
\* work at once; what they do to each other is not followed.
Next ==
    /\ ~raced
    /\ \/ \E p \in Procs :
            \/ \E k \in {"install", "update", "force", "uninstall"} : Call(p, k)
            \/ Step(p) \/ Fails(p)
       \/ Manager \/ DaysPass

Spec == Init /\ [][Next]_vars

\* A process that lives goes on, a restart whose jobs have ended ends, and
\* jobs end: each has a lifetime.
FairSpec ==
    /\ Spec /\ WF_vars(~raced /\ (RestartEnds \/ JobEnds))
    /\ \A p \in Procs : WF_vars(Step(p))

-----------------------------------------------------------------------------
Journals == [phase : {"none", "pending", "committed", "failed"},
             current : Some, previous : Some, good : Some]

\* Every variable has its type.
TypeOK ==
    /\ host \in Hosts
    /\ pc \in [Procs -> {"idle", "check", "lock", "look", "remove", "own", "recover", "mark", "preflight", "begin",
                         "nested", "stopold", "make", "rename", "note", "point", "start",
                         "drain", "verify", "record", "undo", "fail", "commit", "prune",
                         "stop", "unpoint", "wipe", "wiping", "reload", "unlock"}]
    /\ kind \in [Procs -> {"install", "update", "force", "uninstall"}]
    /\ op \in [Procs -> Some]
    /\ mem \in [Procs -> [journal : Journals, was : BOOLEAN]]
    /\ started \in Some /\ ops \in Some
    /\ dir \in BOOLEAN /\ lock \in Some /\ aged \in BOOLEAN /\ reused \in BOOLEAN
    /\ saw \in [Procs -> Some] /\ raced \in BOOLEAN
    /\ journal \in Journals
    /\ store \in [Ids -> {"absent", "bare", "marked", "whole", "pruned", "wiped"}]
    /\ stable \in Some /\ old \in Some
    /\ launcher \in Some \union {Torn} /\ current \in Some /\ running \in Some
    /\ busy \in BOOLEAN /\ draining \in BOOLEAN
    /\ faults \in 0 .. MaxFaults

\* From taking the lock to giving it back, or to having removed it.
Holds(p) == op[p] # 0 /\ pc[p] \notin {"reload", "unlock"}

\* Nobody else has the lock, or is making it.
Sole(p) == \A q \in Procs \ {p} : ~Holds(q) /\ pc[q] # "own"

\* Whoever holds has its id in the lock, until an uninstall removes that, and
\* no id is given out twice; a removal that is decided on is of a dead owner's
\* lock or of one without an owner.
LockInv ==
    /\ lock <= ops /\ (\A p \in Procs : op[p] <= ops /\ saw[p] <= ops)
    /\ \A p \in Procs : op[p] = 0 <=> pc[p] \in {"idle", "check", "lock", "look", "remove", "own"}
    /\ \A p, q \in Procs : op[p] # 0 /\ op[p] = op[q] => p = q
    /\ lock # 0 => dir
    /\ ~SlowHolders =>
         /\ aged \/ reused => lock # 0 /\ Dead(lock)
         /\ \A p \in Procs : pc[p] = "remove" /\ saw[p] # 0 => Dead(saw[p])
    /\ ~SlowHolders /\ ~raced => \A p \in Procs :
         /\ Holds(p) /\ pc[p] # "wiping" => dir /\ lock = op[p]
         /\ pc[p] = "own" => dir /\ lock = 0
         /\ Holds(p) \/ pc[p] = "own" => Sole(p)

\* acquireServiceLock: one operation at a time works on the journal, the
\* releases and the launcher.  Two may only after a process removed another
\* lock than the one it had read, or one whose owner was about to be written,
\* or took the lock of an uninstall that was still removing the rest.
OneOperation == ~raced => \A p, q \in Procs : Holds(p) /\ Holds(q) => p = q

\* A Windows uninstall that could not remove the task has removed its release.
Orphaned == host = "windows" /\ launcher \in Ids /\ store[launcher] = "wiped"

\* What the manager starts is a whole release, through crashes, failed
\* installs, recovery and pruning.  Without one it is only where a Windows
\* uninstall could not remove the task, and said so, or where the unit or the
\* launcher itself was cut off while it was written.
LauncherWorks ==
    launcher # 0 => Whole(launcher) \/ launcher = Torn \/ Orphaned

\* The release the next recovery would go back to is whole: neither pruning
\* nor a failed install took it, only an uninstall may have.
TargetSurvives ==
    \A r \in {journal.good} \union (IF Pending THEN {journal.previous} ELSE {}) :
        r # 0 => store[r] \in {"whole", "wiped"}

\* A committed journal names what the manager starts: an operation that
\* changes the launcher first says it is pending.
CommittedIsLaunched ==
    journal.phase = "committed" => launcher \in {0, journal.current} \/ Orphaned

\* What the operation that holds the lock relies on, at each of its steps.
Back(r) == r = 0 \/ store[r] \in {"whole", "wiped"}
HolderGood(p) ==
    /\ pc[p] \in {"recover", "mark", "preflight", "begin", "nested", "stopold", "make"} =>
         store[op[p]] = "absent"
    /\ pc[p] = "rename" => store[op[p]] \in {"bare", "marked"}
    /\ pc[p] \in {"note", "point", "start", "drain", "verify", "record", "commit"} =>
         store[op[p]] = "whole"
    /\ pc[p] \in {"nested", "stopold", "make", "rename", "note", "point", "start", "drain",
                  "verify", "record", "commit", "undo", "fail"} =>
         /\ journal.phase = "pending" /\ mem[p].journal.phase = "pending"
         /\ Back(mem[p].journal.good) /\ Back(mem[p].journal.previous)
    /\ pc[p] \in {"drain", "verify"} => host = "systemd"
    /\ pc[p] \in {"start", "drain", "verify", "record", "commit", "prune"} => launcher = op[p]
    /\ pc[p] \in {"commit", "prune"} /\ host = "windows" => current = op[p]
    /\ pc[p] \in {"wipe", "wiping"} /\ host = "systemd" => launcher = 0

DiskInv ==
    /\ LauncherWorks /\ TargetSurvives /\ CommittedIsLaunched
    /\ \A p \in Procs : HolderGood(p)
    /\ \A r \in Ids : r > ops => store[r] = "absent"

IndInv == TypeOK /\ LockInv /\ (~SlowHolders => DiskInv)

\* Only --force interrupts a running job: a systemd restart or uninstall
\* waits for it.
OnlyForceInterrupts ==
    [][host = "systemd" /\ faults' = faults /\ busy /\ ~busy' =>
        JobEnds \/ \E p \in Procs : kind[p] = "force" /\ Restart(p)]_vars

\* verifySystemdInstall: no install is committed while a dispatcher of an
\* older release runs, whoever started that one meanwhile.
NeverCommitsOverOld ==
    [][\A p \in Procs : Commit(p) /\ host = "systemd" => running \in {0, op[p]}]_vars

\* The lock of a process that died does not outlive the next operation's
\* wait: one that lives takes it, unless the dead owner's pid reads as alive,
\* and then it does once the lock is old.
DeadLockYields ==
    /\ dir /\ Dead(lock) /\ ~BeingMade /\ (reused => aged)
    /\ faults = MaxFaults
    /\ \E p \in Procs : Tries(p)
    ~> raced \/ \E q \in Procs : op[q] = lock /\ lock # 0

\* On systemd an install that holds the lock succeeds once nothing fails
\* any more, whatever operations before it left behind: unless an uninstall
\* that died halfway took the release the recovery goes back to.
InstallSucceeds ==
    /\ host = "systemd" /\ faults = MaxFaults
    /\ \E p \in Procs : pc[p] = "recover" /\ (Restores(p) => Whole(Target)) /\ kind[p] # "uninstall"
    ~> raced \/ (journal.phase = "committed" /\ Whole(launcher))
=============================================================================
