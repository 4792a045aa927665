# runnerize in TLA+

runnerize turns a machine into a pool of one-job GitHub Actions runners. A
dispatcher polls the owner's private repositories for queued jobs, registers a
just-in-time runner for each one it has room for, launches it in a sandbox
(a Linux container, a Tart VM on macOS, a Windows Sandbox) and deletes the
registration of a runner that failed. It runs as a service that is installed
and updated in place, and on a Windows guest it can hold off host-initiated
shutdowns while it works.

These modules are a verification development of that program: specifications
translated from `src/`, instances for TLC, and proofs for TLAPS. A path such as
`src/dispatcher.js:417` is relative to the repository. `PROJECT.json` lists, in
machine-readable form, the components, the runs, the mutants, the source lines
behind every definition, the findings, the hazards and the theorems.

    tlc -workers 2 -config DispatcherSafety.cfg MCDispatcher.tla
    tlapm DispatcherProofs.tla

## 1. The system

| Component | State it keeps | Operations | Talks to |
|---|---|---|---|
| dispatcher, `src/dispatcher.js` | semaphore, counts per flavor and per repository and flavor, backoffs, the set of launches, the time of the last reconcile | poll, decide, re-check, mint, wait, reconcile, drain, force-reap | GitHub client, sandbox flavors, the signal, guard lease, keep-awake |
| lifecycles, `src/dispatcher.js:438-545` | one object per runner: stop, runner id, whether it still counts as waiting for a job | request JIT configuration, launch, see the start, deregister, settle | counters of the dispatcher, GitHub, one launch |
| Linux backend, `src/sandbox/container.js` | names of active containers; per launch a client process and timers; cached probes | launch, stop, reapOrphans, detect | podman, docker, WSL |
| macOS backend, `src/sandbox/macos.js` | two flags per launch; VMs that outlive the process | clone, boot, run over ssh, stop, reapOrphans | tart, ssh |
| Windows backend, `src/sandbox/windows.js` | one sandbox on the host | clear stale sandboxes, start, wait, run by exec, stop, reapOrphans | wsb, runner cache |
| GitHub client, `src/github.js` | token, rate-limit gate, ETag cache | requests with retry, pagination, counting of jobs, naming, registration | api.github.com, gh |
| shutdown guard, `src/guard.js` | lease files, `state.json`, the Windows service `vmicshutdown` | lease, watch, recover, install, uninstall | PowerShell, Task Scheduler |
| service operations, `src/service.js` | lock directory, operation journal, releases, the unit or task | install, update, uninstall, recover, prune | systemd, launchd, schtasks |
| runner cache, `src/runner.js` | directories by version | download, verify, rename into place | network, file system |
| the rest: command line, keep-awake, platform, version, site, packaging | nothing that outlives a call | | |

JavaScript runs one callback at a time, so inside a process things interleave
exactly at the awaits; the guard, the administrator and a second process share
only files and a Windows service, and interleave at every file operation.

What is hard in this code, and what the properties are for:

- **State that is read before an await and used after it.** A slot, a flavor's cap, a
  damping counter, a backoff and a repository's visibility are all looked at before
  `isStillPrivate` is awaited, and the runner is minted after it. The queue is counted
  by many requests, while it changes. The guard inspects the service by a call that
  takes seconds and then writes what it saw.
- **Books kept by hand.** A semaphore and three counters are adjusted by callbacks, a
  `finally` and two error paths; `Math.max(0, ...)` hides a decrement too many.
- **Wake-ups.** At the cap the loop waits without a timer for a notification.
- **Races of timers with answers.** Idle, lifetime, kill and force timers against a
  client that closes or a start line that was not read; the drain's deadline against
  settling launches.
- **Partial failure and crashes.** GitHub registered the runner and the answer was
  lost; the watcher died between a restore and the write that records it; the process
  died with containers running.
- **Two actors with one resource.** The sweep against the process's own launches,
  watcher against uninstaller, the launch and the force-reap in one `stop`, service
  commands that make, judge and remove one lock, two users of the runner cache, a late
  401 against a fresh token.
- **Long histories.** Which release is pruned, restored or launched depends on a
  journal that earlier operations wrote, some of which died half-way.

`PROJECT.json` lists these hazards one by one, each at its line with the
properties that would catch it, and with a note where none does.

## 2. Modules

    RunnerPool      <-- implements --  Dispatcher        <- MCDispatcher        DispatcherProofs
    ShutdownPolicy  <-- implements --  ShutdownGuard     <- MCShutdownGuard     ShutdownGuardProofs
                                       ContainerLaunch                          ContainerLaunchProofs
                                       MacosLaunch                              MacosLaunchProofs
    RunnerCache     <--  INSTANCE  --  WindowsLaunch                            WindowsLaunchProofs
                                       ServiceOperation  <- MCServiceOperation  ServiceOperationProofs
                                       GithubApi                                GithubApiProofs

`RunnerPool` and `ShutdownPolicy` are abstract specifications: what a reader
may rely on without knowing how it is done. The modules beside them are the
programs. Each `MC` module holds what only TLC needs (caps as sequences,
symmetry); each `Proofs` module extends the program's module. No module declares
a RECURSIVE operator.

### Dispatcher

One process: the loop of `runDispatcher`, the lifecycles it starts, and its
drain. `pc` is the await the loop is at, and an action is what the code does
from one await to the next:

| Actions | Code |
|---|---|
| `ListRepos`, `DetectFlavors`, `CountAsk`, `CountReply`, `CountFails` | one poll: repositories, flavors, queued jobs per repository and flavor |
| `SweepList`, `SweepDelete`, `SweepDone` | `reconcile`, every five minutes: list registrations, delete the offline ones |
| `RecheckAsk`, `RecheckDenied`, `RecheckAborted`, `Claim` | the await of `isStillPrivate`, and the claim that follows: semaphore, counters, lifecycle |
| `ClaimTimer`, `PollTimer`, `CapWaitAborted`, `Notify` | `waitForNextPoll`: a timer, or at the cap a notification |
| `JitCreated`, `JitReturns`, `JitFails`, `LaunchUp`, `StartSeen`, `IdleTimeout`, `ResourceDies`, `LaunchSucceeds`, `LaunchFails`, `Deregister` | a lifecycle: request, launch, `onControl`, `onStarted`, the failing paths, and `Settle`, the `finally` |
| `Abort`, `LeaveLoop`, `HookDone`, `DrainSettled`, `DrainDeadline`, `ReapStop`, `ReapDelete`, `ReapTimer` | the signal, the drain, its deadline and the force-reap |
| `JobArrives`, `JobCancelled`, `RunnerConnects`, `AssignJob`, `JobEnds`, `TurnsPublic` | GitHub and the repositories' owner (external) |

Counters are kept exactly as the code keeps them: next to the set of lifecycles they
are supposed to count, decremented with the floor at zero, never computed from it. The
variables scoped to one iteration are the record `poll`, so what the code remembers
across an await is visible as state. A repository and a flavor are numbers, because
the code takes them in order and stops at the first one it may serve.
`countQueuedMatchingJobs` is a sequence of requests over statuses, runs and pages, in
which jobs come and go: `scan` keeps how many jobs were queued all the while (`kept`),
which the count finds, and how many at any time meanwhile (`seen`), each of which it
may find, so a count may exceed what was queued at any one moment. A slot is the
identity of a runner; it is used again once its lifecycle is over and GitHub holds
nothing under it.

Abstracted: the text of names and labels (a registration belongs to a flavor or
does not), how long timers take (they may fire at any moment), and retries
inside the GitHub client (a call succeeds or fails). A failure of the network,
GitHub or a backend, and a repository made public, costs one of `MaxFaults`;
what the code does by itself does not: the idle watchdog may end a runner at any
moment before its start line was seen, and the sweep may catch a registration of
this very process. One thing is idealized: a job that is queued throughout a
count is found by it, although a page boundary that moves while runs end can
hide one until the next poll.

### ShutdownGuard

Sessions hold lease files and renew them; guard-watch processes reconcile; an
administrator installs and uninstalls. A step is one file operation or one
PowerShell statement, because these are what other processes can fall between:
reading one lease and unlinking it are two steps, and so are `Set-Service` and
`Stop-Service` of one script. A pass goes

    idle -> scan -> inspect -> compare -> persist -> disable -> stop -> idle
                \-> restore -> start -> clear -> idle

and may fail at a call, die, or be cut off by a reboot anywhere. The age of a
lease is abstracted to fresh or stale.

Parameters select what may happen: `Recoverers` (guard-recover processes, which
`bin/runnerize.js:301` still dispatches), `Reinstall` (an install over a running
guard), `Masked` (a `Set-Service` that fails without failing its script),
`Stalls` (a holder that sleeps through its lease's timeout) and `Lasting` (the
reconcilers whose wait keeps their process alive, see findings).

Assumed: nobody else changes the service, one administrator command runs at a
time, and the recovery grace interval is only a delay. The Task Scheduler is taken
to stop a task together with the PowerShell child that the task has started. Where
a statement does outlive a watcher that died, it is a watcher that died after the
statement, since the scheduler starts the task again a minute later
(`src/service.js:1816`); only an uninstall goes straight on, and there such a child
could disable the service after the restoration (`StopTasks`).

### ContainerLaunch

Launches of the Linux backend: `launch` from the name it generates to the
removal of its container, `settle`, the four timers, `control.stop`, and
`reapOrphans`, which lists containers, filters the list when the answer arrives
and removes what is left. The container runtime is external: it creates a
container some time after it was asked, perhaps after its client was killed
(at the price of a fault), and never has to answer. `Crash` kills the dispatcher
and starts it again with nothing in memory and the containers still there. The
program runs `reapOrphans` once, before the first launch; the model lets it run
beside launches too, so `ReapSparesLaunches` asks for more than the program needs
today.

### MacosLaunch

Launches of Tart VMs over any number of dispatcher processes. `launch` goes

    none -> clone -> ip -> ssh -> run -> finally -> done

and ends in its `finally`, where it calls its own `stop`; the force-reap may call
the same `stop` at any await before. `stop` is modelled by caller: which of the
two took the flags `stopped` and `deleted`, and which command of tart it waits
for. A VM is a child that outlives its dispatcher, and so does its registration,
so the start of the next process is here as well: `List`, `DeleteStale` and
`ReapsOrNot` are `reconcile` with `host: true`, the `Reap...` actions are
`reapOrphans`, which knows no VM of its own process and is run once, before the
first launch. `DeadlinePasses`, `ForceDeregister` and `Exits` are the drain. When
a launch settles it sends SIGTERM to its `tart run` and waits for nothing, so a VM
that is still up by then goes down some time later (`VmTerminates`). `failed`
records the launches whose `tart stop` failed, which the code does not note.

### WindowsLaunch and RunnerCache

`Procs` are dispatcher processes, each of which makes one launch at a time. The host
has one sandbox, `box`: whose it is, whether it is closing and what its runner does.
`Hand` is a sandbox that somebody opened, `Old` one whose process is gone. A launch
takes its binary from the cache, clears what sandbox still runs, starts one (once more
if the first was refused), hands out `control`, waits for exec, shares the directory,
runs, and stops the sandbox in its `finally`; `wsb stop` returns while the sandbox
still closes, and `stopSandbox` polls until it is gone or a timeout passes. A start
that was given up may bring its sandbox up after `stopSandbox` saw an empty list
(`LateStart`); one such start at a time is left by launches that are no more, which is
a bound. At startup `List`, `Delete`, `DeleteRefused` and `Reconciled` are
`reconcile`, in the steps of its awaits, and `ReapAsk`, `ReapGone` are `reapOrphans`.
The cache is `RunnerCache`, composed by INSTANCE: any user may be between the look-up,
the download, the verification and the rename. Left out: `RUNNERIZE_RUNNER_DIR`
(`src/sandbox/windows.js:228`), which names a binary that is not from the cache, and a
signal during the startup itself.

### ServiceOperation

Command lines of `install`, `update`, `install --force` and `uninstall`, on a
systemd host or on Windows, each a process that may die between any two steps.
`pc` is the place in the code; an operation and the release it makes carry one
number, the order in which operations took the lock.

| Actions | Code |
|---|---|
| `Call`, `UpdateRefused`, `UpdateGoesOn` | the command and `updateService` |
| `MakeDir`, `WriteOwner`, `Unlock` | `acquireServiceLock` and its release: the directory is made, then the owner file written |
| `Busy`, `LookStale`, `Remove`, `LockTimesOut` | the directory exists: its owner is read and judged, then the lock removed by name, or the time is up |
| `Crash`, `PidReused`, `HourPasses` | a process dies and leaves lock and journal; its pid is given to another, or its lock ages |
| `NothingPending`, `Restore`, `RestoreFails`, `MarkFailed` | `recoverPendingOperation` with the callback of the platform |
| `Preflight`, `Begin`, `Nested`, `StopOld`, `Copy`, `Rename`, `NoteCurrent`, `Point` | `installSystemd`, `installWindows` up to the unit or launcher |
| `Restart`, `StartUnit`, `StartTask`, `Restarted`, `Verify`, `Record` | starting the dispatcher from the new release |
| `StepFails`, `Undo`, `Fail`; `Commit`, `Prune` | the catch; `successfulOperation`, `pruneReleases` |
| `StopService`, `Unpoint`, `WipeSome`, `WipeRest`, `Reload` | uninstall; the recursive removal may end between the two |

The two platforms share the actions where they share the code; where they differ
(`host`), the guard says so. The service manager and the jobs of the dispatcher are
external: `systemctl restart` returns when the old dispatcher has ended its jobs.
`DaysPass` lets releases grow old, which decides retention: between two operations
whatever is installed becomes a day old, and what was a day old a week. A copy that is
not complete shows only in a crash. Unit and launcher are written in place, so a
process that dies or fails while it writes may leave one that is cut off (`Torn`): a
unit without ExecStart, which recovery cannot repair, or a script, which it writes
anew.

The lock by itself does not exclude a second holder. Three interleavings lead to
two, and `raced` says that one of them happened:

- between `mkdir` and the rename of `owner.json`, with an open, a write and an
  fsync in between (`src/service.js:380`), another process reads no owner and
  removes the directory;
- two processes read the same dead owner (or a late one did), the first removes
  its lock and takes it anew, and the second removes that one by name
  (`src/service.js:410`);
- an uninstall that gave up the lock with the rest of the root still removes that
  rest while another command takes the lock.

There the model stops: what two operations then do to each other is not followed,
and every property of this module is about behaviours up to that point. Idealized:
the removal of the lock directory is one step, and a command that waits while an
uninstall removes the root takes the lock afterwards, where in the program its
`mkdir` fails with ENOENT and it ends with an error and without effects. A dead
owner's lock can only grow an hour old while its pid reads as alive (`HourPasses`),
since otherwise it is taken at once; a living owner's only with `SlowHolders`.

### GithubApi

`api()` and what its calls share. A step goes from one await to the next; time is
what is left of the pause and of the gate each call waits on, and passes by
`Tick`. Tokens and versions of the one resource are numbers; an older token is
refused from the moment the newest exists. `Answer` is GitHub, `Rotate` the user
who replaces the token, `Evict` the other keys of the ETag cache. `told` is a
history variable: what is left of the longest wait that GitHub asked any call for.

## 3. Runs

| Run | Instance | Shows | Distinct states |
|---|---|---|---|
| `DispatcherSafety` | 2 repositories, 2 flavors (the second capped at 1), 2 slots, `--max` 3, `MAX_ACTIVE_JOBS` 2, 2 jobs, 1 fault | `CountersAgree`: the semaphore and the counters say what the lifecycles do. `DampedByDemand`: with every mint, no more runners wait than jobs were queued in the course of the count that led to it, though jobs and counters change during the count and the re-check. `NothingLeftBehind`, `ReapedAreGone`: no path leaks a registration by itself, and what the deadline reaped is off GitHub. `SparesRunningJobs`: only a fault, the drain's deadline or the idle watchdog before the start line was seen ends a job; `MintsOnlyPrivate` when a repository turns public between decision and mint. `ImplementsPool`: refinement of `RunnerPool` | 1,631,614 |
| `DispatcherLive` | 2 repositories, 2 flavors, `MAX_ACTIVE_JOBS` 1, 2 jobs, 1 fault | `StopsEventually`: after the signal the dispatcher stops though no launch settles. `DemandServed`: while launches do settle, every queued job leaves the queue | 234,288 |
| `Container` | 1 launch, 3 faults | `StoppedIsDown`: stop returns after the teardown; `ReapSparesLaunches`; `LaunchesEnd`: a launch settles although client and runtime never answer | 9,020 |
| `Macos` | 2 launches, one at a time, 1 fault, crashes and forced exits | `LeavesNoVm`: a launch that settles takes its VM with it; `HostCap`: a slot is free only when its VM is down, unless `tart stop` failed for it or the force-reap had begun it; `ReapSparesJobs`, `ReapClears`: the next start removes every VM but those at work; `LaunchesEnd` | 860,934 |
| `Windows` | 1 process (over any number of lives), 2 users of the cache, 3 faults | `LeavesNoSandbox`, `SharesWhole`, `ReapSparesJobs`; `StaleNeverBlocks`: a stale, lingering or late sandbox does not keep a launch from starting; `LaunchesEnd` | 34,084 |
| `Service` | 2 command lines, 3 operations, both hosts, 2 faults | `OneOperation`: one at a time, unless a lock was removed that nobody decided to remove; `LauncherWorks`: what the manager starts is a whole release, wherever a process died, except where its own file was cut off or a Windows uninstall could not remove the task; `TargetSurvives`: what recovery goes back to is never pruned; `CommittedIsLaunched`; `OnlyForceInterrupts`; `NeverCommitsOverOld`; `DeadLockYields`: a dead owner's lock is taken, at once or, if its pid reads as alive, when it is an hour old; `InstallSucceeds`: an install after an interrupted one succeeds | 682,468 |
| `Github` | 2 calls (one with a signal), 1 throttling retry, pauses up to 2, 2 tokens, 2 versions | `PauseRespected`: nobody sends before the longest wait asked for is over; `FreshTokenKept`; `AnswersAreCurrent`; `RequestsBounded`; `Recovers`: after the credential stopped changing no call is refused; `CallsEnd` | 121,348 |
| `GuardAlone` | 2 sessions, 2 watchers, 2 faults, stalls, a watcher that dies in its wait | `GivenBack`: nothing saved, nothing changed; `ImplementsPolicy`: refinement of `ShutdownPolicy`; `RestoredEventually` | 69,058 |
| `GuardHeld` | 2 sessions, 1 watcher, 2 faults, `Set-Service` may fail silently | `ProtectedWhileHeld`: a session that keeps its lease is protected in the end, though its lease file may be unlinked behind its back | 47,764 |

`GuardDocWait`, `MacosDocReap` and `ServiceDocLock` are runs that end in a violation;
they are the findings of section 5. Every property of a passing run has a mutant, an
operator named next to the one it replaces that makes a mistake a programmer could
make (a missing reset, a counter decremented twice, a wake-up not sent), and TLC finds
the property violated with it. The inductive invariants (`IndInv`, and the
dispatcher's `Tidy`) and the type invariants were checked by TLC on the same instances
before they were proved; they are theorems now and no run repeats them.

**Why these bounds are enough to be interesting.** Two runners in flight are what
counters and caps need to disagree, and a slot is used again once its runner is over;
the global cap of two and the second flavor's of one bind. Two jobs let one leave the
queue and another enter it while a count is under way. One fault anywhere reaches
every error path by itself; two or three, where the instance is small enough, reach a
failure inside the recovery from a failure. In `DispatcherLive` the cap of one makes
every launch end at the wait without a timer. In `Macos` two names are a VM that a
crash left and a launch of the next process. In `Windows` one process is killed and
starts again any number of times at the price of a fault each. In `Service` three
operations are what it takes to begin, to interrupt and to recover with a fallback
release at hand; of the two faults one is the death or the failed step and the other a
failure of the rollback or of the recovery that follows; two processes make every race
of the lock. In `Github` two calls are the one that waits and the one that extends the
wait, or the one with the old token and the one that refreshed it. The theorems of
section 4 hold without bounds.

Symmetry (slots, command lines) is used only in runs without temporal liveness.
Deadlock is not checked: a dispatcher that has stopped, launches that have ended,
operations that are used up and a guard that is uninstalled have nothing left to do.

### Fairness, and why the code justifies it

- `Dispatcher!LoopSpec`: weak fairness of the loop's own step. Every await of the loop
  is a timer, an HTTP request with a timeout, a `stop()` that is raced against one,
  or, at the cap, the notification or the abort. Nothing is assumed of launches, so
  `StopsEventually` says that the drain's deadline works.
- `LifecyclesFair`, the premise of `DemandServed`: a request is answered or times out,
  `launch` settles (`LaunchesEnd` in `Container`, `Macos` and `Windows`), a backoff
  ends, GitHub gives a queued job to an idle matching runner, a job ends, and from
  some time on neither does the sweep catch a runner that boots nor the idle watchdog
  one that waits for a job that is queued (`Unlucky`): nothing but time keeps the code
  from doing either again and again. If jobs did not end, one at a cap of one would
  starve the rest, as it should.
- `ContainerLaunch!FairSpec`: the lifetime, kill and force timers fire, and each
  cleanup command is killed at its timeout (`CLEANUP_TIMEOUT`). The idle timer, the
  client and the runtime owe nothing.
- `MacosLaunch!FairSpec`, `WindowsLaunch!FairSpec`: the process runs, its timers fire,
  a call of tart or wsb returns or is killed at its timeout, a VM or a sandbox that
  was asked to stop stops. Nothing is owed by the runner: a launch ends by its
  lifetime if need be, and a process may be killed at any time.
- `ServiceOperation!FairSpec`: a process that lives goes on, systemd ends a restart
  whose jobs have ended, and a job ends, since runners have a lifetime.
- `GithubApi!FairSpec`: a request is answered or times out (as `gh` does), timers
  fire, and a resolution of the token returns or fails.
- `ShutdownGuard!FairSpec`: the watcher's timers fire and its calls return, the Task
  Scheduler starts the task at boot and after a failure, leases age, a holder that is
  up renews its own. Nobody has to engage, release or reboot.

## 4. Theorems

Proved by TLAPS for every value of the constants that the modules' assumptions
admit, so for any number of repositories, flavors, runners, jobs, sessions,
containers and faults.

**Dispatcher** (`DispatcherProofs`, from `SizesAssumption`).
`Inductive`: `Spec => []IndInv`, and from it `TypeCorrect`, `CountersCorrect`,
`LimitsHold` and `Damped`. The limits are not inductive by themselves: the loop
compares a counter with a cap, awaits `isStillPrivate`, and increments later.
`Damped` says that, with every runner minted, no more runners of its repository and
flavor wait than jobs were queued in the course of the count that led to it; the
number of those jobs (`poll.seen`) is recorded, and no guard reads it.
`IndInv` therefore adds

- `CountersAgree`: the counters are the cardinalities of the sets they stand
  for, so comparing a counter is comparing the set;
- `RoomAtRecheck` and `DampedPoll`: at the awaits in between there is still room,
  and a repository that is to be served still has fewer waiting runners than jobs
  were seen, since only the loop itself mints and every other step only shrinks
  the sets;
- `Consistent`: a waiting runner is in `launches` and has a repository and a flavor.

Each step is first classified: it leaves the books alone, a start is seen, a
lifecycle settles, or a runner is minted; agreement is proved once per class
(`QuietAgreement`, `StartAgreement`, `SettleAgreement`, `MintAgreement`).
`DrainMintsNothing` and `OnlyPrivateMinted` follow from the fact that only
`Claim` mints. `PoolImplemented` maps the same classes to steps of `RunnerPool`
(a stutter, `Begin`, `Finish`, `Start`, and `Close` for the signal).
`RunningJobsSpared` goes through the actions that touch a registration: a running
job loses its runner to a fault of the host, to the drain's deadline, or to the idle
watchdog as long as its start line was not seen (section 5), and to nothing else.

`DrainTidy` proves a second inductive invariant, `Tidy`, that follows a
registration from the JIT response to the call that deletes it; neither
`NothingLeftBehind` nor `ReapedAreGone` is inductive, since both speak of
lifecycles that are over and say nothing of how they got there. `Tidy` says that

- the places of the drain are entered only after the abort, so nothing is minted
  into a slot that the deadline stopped (`DrainOrder`, which also says that one
  lifecycle is reaped at a time);
- a lifecycle that was stopped never runs again, and one that settled with its
  registration in place left an offline runner (`StoppedAreOver`);
- as long as nothing failed (`Faultless`), a lifecycle that ended with its
  registration in place is one the deadline stopped, a stopped one is off GitHub
  or is the one whose registration is deleted next, and a slot that was given
  back has none.

`NothingLeaks` and `ReapedGone` follow. Two more theorems are what the liveness
properties rest on, without fairness. `NoWakeUpLost`: at the cap the loop waits
for `slotFreed` without a timer, and while it does the cap is reached, hence a
lifecycle that will notify it is left. `DrainEnds`: `DrainSteps`, at most
`2 * |Slots| + 4`, falls with every step of the drain, which no other step touches.

**Shutdown guard** (`ShutdownGuardProofs`, under `GuardAssumed`: no
guard-recover, no install over an installed guard, no masked failure).
`GuardInductive`: the invariant says that only the registered task's process
reconciles, and never beside the uninstaller's restoration (`OneReconciler`), so
that what a process remembers across a call is still true when it returns
(`MemoryCurrent`), and what is saved is the administrator's choice
(`SavedIsConfigured`). `NothingLost` and `PolicyKept`, the refinement of
`ShutdownPolicy`, follow. Without the assumption they are false; section 5.

**Linux backend** (`ContainerLaunchProofs`). `ContainerInductive`: the active
names, the reaper's list and the containers agree with where each launch is.
It is proved for one launch at a time (`Good(m)`), since a step changes one
launch and the reaper only removes what is over. `StopsAfterTeardown`,
`LaunchesSpared` (for a `reapOrphans` at any time, not only at startup) and
`JobsKept` follow from it. Two theorems are the safety core
of `LaunchesEnd`. `AlwaysATimer`: a launch that is up has its lifetime, or after a
signal the next timer of `terminate`, before it, and who waits in `control.stop`
waits for a launch that was signalled. `LaunchEnds`: `StepsLeft`, at most six, falls
with every timer and every step of the teardown and never rises while the launch
lasts. The fairness of these very steps is all that `LaunchesEnd` adds.

**macOS backend** (`MacosLaunchProofs`). `MacosInductive` is proved launch by launch
(`StopGood`): the flags say which caller of `stop` waits for which command, two
callers never wait for the same one, and while nothing failed and nothing was forced
the launch's own `stop` finds the flags as it needs them. `NoVmLeft` follows;
`AtMostTheCap` adds that a running VM belongs to an active launch and counts, or is
one of the uncounted, which the code itself lets go of: of a process that is no more,
or of a launch that settled although `tart stop` failed for it or the force-reap had
begun it; `JobsSpared` and `NoOrphanRuns` rest on `ReapGood`: between the reconcile
and the end of the reap no launch is active, and when nothing is protected every
registration left is a deleted one, so no VM can take a job.

**Windows backend** (`WindowsLaunchProofs`). `WindowsInductive`: the sandbox of a
process is there only between its start and its end, `control` is known exactly while
the launch could be stopped, and the cache is whole wherever a launch passed it
(`CacheWhole`, which needs that only verified downloads are renamed). `BinaryIsWhole`,
`NoSandboxLeft` and `JobsSpared`; the last assumes one dispatcher process on the host,
and section 5 says why. Its invariant follows the reconcile through its awaits: until the reap, a runner that is left is one whose registration is
still to be deleted, and if it took a job meanwhile the deletion is
refused, which keeps the reaper away. `NoWaitInVain`, under
the same assumption, is what `LaunchesEnd` and `StaleNeverBlocks` rest on: whoever
waits in `stopSandbox` waits for a sandbox that was asked to stop. With two processes
the model cannot say it, since every sandbox of an ended launch has the one name `Old`
there, where the program has an id for each.

**Service operations** (`ServiceOperationProofs`, under `~SlowHolders` where it says
so). `ServiceInductive` has two layers. `LockInv` follows the lock through its steps:
an id is never given out twice; a removal that is decided on is of a dead owner's lock
or of one without an owner; and until a lock is removed that nobody decided to remove
(`raced`), whoever works has its id in the lock, whoever makes it has a lock without
owner, and either is alone. So two work at once only after one of the three
interleavings of section 2, which is what `OneAtATime` says: the lock has no other
hole. This needs that no operation holds the lock for an hour, and without that it is
false (section 5). `DiskInv` rests on it: since nobody else works, the place of the
holder says what is on disk (`HolderGood`): its release is absent, then copied, then
whole; the journal is pending from `Begin` to the commit or the failure; the launcher
names the new release from `Point` on, unless it was cut off. Each action is then
proved against the place it starts from. Pruning is the interesting case: what is
launched and what recovery goes back to are among the protected. `OneAtATime`,
`LaunchersWork`, `TargetsSurvive` and `CommittedLaunched` follow. `RunInductive` adds
that what `verify` saw running still runs at the commit, unless it stopped: nobody
else works, and what the manager starts in between is the launcher's release.
`NeverOverOld` and `OnlyForce` (which needs no assumption) follow from it.

**GitHub client** (`GithubApiProofs`). `ApiInductive`: the pause is never shorter
than the longest wait asked for (`told <= pause`), requests are counted by
attempts and the one refresh, and a 304 is about the entry that the call holds,
not the one in the cache. `Bounded`, `NobodySendsEarly`, `FreshTokensKept` and
`CurrentAnswers`. `Recovers` has a box inside a box; `RecoversOnce` proves it with a
condition on one call, `Recovering(c)`, that follows from the premise and is then
kept by every step: what is resolved is the last token, no token but that one and
the call's own first one is cached, and once the call has refreshed it sends the
last one. That the call has not refreshed before it begins (`Unused`) is a fact of
its own. `NobodyForgotten`: a call that waits for a token waits for a resolution that
runs, and its gate is no later than the pause whose timer runs; with the bound on
requests that is what `CallsEnd` rests on.

**Only model-checked**: the liveness properties (`StopsEventually`,
`DemandServed`, `LaunchesEnd`, `RestoredEventually`, `ProtectedWhileHeld`,
`StaleNeverBlocks`, `DeadLockYields`, `InstallSucceeds`, `CallsEnd`), since
fairness and ENABLED are outside what these provers handle. Every invariant and
every action property of a passing run is a theorem, and so is `Recovers`. What
can be proved of the liveness properties, that whoever waits waits for something
that is under way and that a rank falls, is proved where it is named above: for
the drain, the cap, a launch on Linux, a wait on Windows and a call of the client.
Of the guard, the service and the macOS backend it is not.

## 5. Findings

Each is a run that TLC ends with a counterexample to what a document or a comment
says; the quotations are in `PROJECT.json`.

1. `GuardDocWait` (`src/guard.js:468`): guard-watch awaits a timer that has been
   unref'd, with nothing else pending, so Node ends the process before the first
   pass. The tests inject the delay. The other runs of the guard take the wait
   to last (`Lasting`), that is, they check the program with this repaired.
2. `MacosDocReap` (`src/sandbox/macos.js:275`): a force-reap that calls `stop`
   before the clone was started finds nothing to stop and sets both flags; the VM
   comes up after `stop` returned, and the launch's own `finally` does nothing for it.
3. `ServiceDocLock` (`src/service.js:409`): `systemctl restart` waits for running
   jobs without a limit while the operation holds the lock; after an hour another
   operation takes it, and two are at work.

Seen on the way, in the models and without a run of their own:

- Dispatcher. The idle watchdog looks for the line that announces a job, not for the
  job: a runner whose start line was not recognised or not read in time is ended with
  its job in it (`src/sandbox/container.js:1088`), and `SparesRunningJobs` and its
  theorem allow that one case by name. The periodic sweep deletes the registration of
  a runner that this very process has minted and that has not connected yet
  (`src/dispatcher.js:172`). At the drain's deadline a lifecycle without `onControl`
  cannot be stopped, and its runner may come up after `dispatcher_stopped`
  (`src/dispatcher.js:592`). A signal during the re-check makes `runDispatcher` reject
  although it drained (`src/dispatcher.js:417`). A backoff is not looked at again
  after the re-check, and a failed `generate-jitconfig` sets none
  (`src/dispatcher.js:524`).
- A second dispatcher on the host. ADR 0003
  (`docs/adr/0003-graceful-drain-and-leak-safe-lifecycle.md:60`) asks that startup
  spare its busy runners. A runner is protected if it was online when its repository
  was listed; one that registers or connects after that, while other repositories are
  being listed, is not, and its container or sandbox may be reaped with a job in it.
  `ReapSparesLaunches` speaks of one process only.
- Windows. A job that outlived its dispatcher is spared by `reapOrphans` and then
  ended by the next launch's `clearStaleSandboxes`, which knows no protection; so is a
  sandbox that somebody opened by hand.
- macOS. The cap counts launches of one process, and a launch that settles only sends
  SIGTERM to `tart run` (`src/sandbox/macos.js:307`): VMs protected at startup run
  beside it, and so does, for a while, one whose `tart stop` failed or was called by
  the force-reap. `HostCap` counts every VM but these (`Uncounted`).
- Linux. A force timer may resolve a launch as "no job started" although one was seen
  (`src/sandbox/container.js:1075`). A runtime that creates a container after `rm -f`
  returned for it leaves it to the next startup (`ContainerStarts`, at the price of a
  fault).
- Guard. The assumptions `GuardAssumed` are needed. With `Recoverers = {r1}` and
  `Lasting = {w1, r1}` in `GuardAlone.cfg`, `GivenBack` fails: the uninstaller stops
  the registered task only, so a guard-recover in the middle of its pass disables the
  service while the uninstall forgets the setting; with `Reinstall = TRUE` the process
  of the first task does the same. With `Masked = TRUE` a restore whose `Set-Service`
  failed passes for a success (`src/guard.js:392`). ADR 0004 names a single
  reconciler.
- Service. Two processes can hold the lock at once without any of them being slow, by
  the three interleavings of section 2 (`src/service.js:380`, `src/service.js:410`). A
  dead owner whose pid was given to another process, or may not be signalled, reads as
  alive, as `src/service.js:29` says; operations time out until its lock is an hour
  old, which is how `DeadLockYields` is stated. `successfulOperation` keeps an
  established last-known-good for ever, and its callers pass
  `priorJournal?.lastKnownGood ?? previousRoot` to `beginOperation`, so a release may
  become the target of recovery without having proved itself, against the comment at
  `src/service.js:448`. A Windows uninstall, and one on Linux that dies in its
  recursive removal, removes releases and leaves `operation.json`, whose
  last-known-good names one of them; if the next install is interrupted, every later
  install finds a target without metadata and throws, until an uninstall removes the
  journal. That is why `InstallSucceeds` is stated for systemd and for a target that
  is whole, and `TargetSurvives` allows what an uninstall removed. A unit that was cut
  off while it was written has no ExecStart for recovery to replace, and stays so
  until the next install writes it anew. The result of `disable --now` is ignored
  (`src/service.js:1251`), so an uninstall may remove the files of a dispatcher that
  runs on. `updateService` looks for busy runners before it refreshes the image; on
  Windows a job that begins after that is ended with the dispatcher, so
  `OnlyForceInterrupts` is stated for systemd.
- GitHub client. A call whose 401 invalidated the token may join a resolution that
  began before the rotation, is given the old token again and is refused, having used
  its one refresh; `Recovers` excludes it by asking that no resolution runs. A wait
  beyond 60 s is cut to 60 s, and `told` with it.

## 6. Not modelled, and what is left

Out of scope: rendering of units, tasks, launchers and scripts (text without
state); tier 1 of the guard (independent registry and power-plan writes);
keep-awake, platform queries, the site and the build scripts; parsing of flags;
page numbers and the choice of a free runner number, which are functions of one
list (what goes wrong with a stale list is a failed registration, which
`Dispatcher` has); the capability probes of the Linux backend, which decide
labels and arguments that nothing reads back. Two consequences of the last two
are worth a reader's attention all the same: a page boundary that moves while
runs finish hides a run until the next poll, and a build probe that fails between
registration and launch gives a job that needs builds to a runner without them.

Of the service, the launchd commands (`src/service.js:1381-1447`) and the WSL
keep-awake and boot tasks are left out: the former share lock, journal and pruning
with systemd and differ in the manager's commands, the latter hold no state.
What two operations do to each other once the lock has failed is not followed.

What could be proved next, without changing the models:

1. One abstract contract of a launch (settles; stop returns after the teardown)
   and its three implementations, on which the dispatcher's `LifecyclesFair`
   premise would then rest.
2. For the service, that the lock implements an abstract mutex while nobody is
   slow and no lock is lost to a race (`OneAtATime` is its invariant, not yet its
   refinement), and that a
   recovery which is not interrupted reaches the commit or the failure in a bounded
   number of steps, the safety core of `InstallSucceeds`.
3. For the guard, which of the theorems need only a part of `GuardAssumed`.
