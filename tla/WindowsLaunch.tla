--------------------------- MODULE WindowsLaunch ---------------------------
(***************************************************************************)
(* The Windows backend, src/sandbox/windows.js: launch takes the runner    *)
(* binary from the cache (RunnerCache), clears what sandbox still runs,    *)
(* starts one, runs one runner in it by a blocking exec and stops it.      *)
(* Windows runs at most one sandbox.  A dispatcher process makes one       *)
(* launch at a time (maxConcurrent: 1); it may be killed, or exit when the *)
(* drain's deadline passed, and the next one reconciles and reaps first.   *)
(* Somebody may open a sandbox by hand, and one whose start timed out, or   *)
(* whose process went, may come up late; one such start at a time is left   *)
(* by launches that are no more.                                            *)
(*                                                                         *)
(* External: wsb.exe and the sandbox (box), the runner in it.              *)
(***************************************************************************)
EXTENDS Naturals

CONSTANTS
    Procs,      \* dispatcher processes at once
    Users,      \* of the cache: the processes and others
    MaxFaults,  \* calls that fail and crashes
    Nobody,     \* no sandbox
    Old,        \* a sandbox of a launch that is no more
    Hand        \* a sandbox that somebody opened

ASSUME FaultsAssumption == MaxFaults \in Nat
ASSUME UsersAssumption == Procs \subseteq Users
ASSUME NobodyAssumption ==
    /\ Nobody \notin Procs /\ Old \notin Procs /\ Hand \notin Procs
    /\ Old # Nobody /\ Hand # Nobody /\ Old # Hand

VARIABLES
    pc,         \* where each process is
    target,     \* the sandbox it waits to be gone
    retried,    \* its start has been tried again
    control,    \* onControl was called
    stale,      \* the registrations that startup listed offline, not yet deleted
    keep,       \* startup found a runner online, or could not list or delete one
    lag,        \* a start that was given up: "pending" until its sandbox is "up"
    forced,     \* the force-reap: "no", "blind" (stop was not known), "asked"
    reg,        \* the registration of its launch is at GitHub
    log, seen,  \* the log has the job's start; the launch has read it
    box,        \* the sandbox: whose, whether it is closing, the runner in it
    get, temp, cache, faults

startup == <<stale, keep>>
launch == <<pc, target, retried, control, forced, reg, log, seen, lag, startup>>
binary == <<get, temp, cache>>
vars == <<launch, box, binary, faults>>

Cache == INSTANCE RunnerCache
NoBox == [who |-> Nobody, closing |-> FALSE, runner |-> "none"]

Init ==
    /\ pc = [p \in Procs |-> "boot"] /\ target = [p \in Procs |-> Nobody]
    /\ retried = [p \in Procs |-> FALSE] /\ control = [p \in Procs |-> FALSE]
    /\ forced = [p \in Procs |-> "no"]
    /\ reg = [p \in Procs |-> FALSE]
    /\ log = [p \in Procs |-> FALSE] /\ seen = [p \in Procs |-> FALSE]
    /\ stale = [p \in Procs |-> {}] /\ keep = [p \in Procs |-> FALSE]
    /\ lag = [w \in Procs \union {Old} |-> "no"]
    /\ box = NoBox /\ faults = 0
    /\ Cache!Init

Fault == faults < MaxFaults /\ faults' = faults + 1
Goes(p, from, to) == pc[p] = from /\ pc' = [pc EXCEPT ![p] = to]
StopAsked(who) == box' = [box EXCEPT !.closing = @ \/ (box.who = who /\ who # Nobody)]

\* A launch of p is over, or p: its sandbox, if any, belongs to nobody, and so
\* does the one that a wsb start still brings up.
Ends(p, to) ==
    /\ pc' = [pc EXCEPT ![p] = to]
    /\ target' = [target EXCEPT ![p] = Nobody]
    /\ retried' = [retried EXCEPT ![p] = FALSE] /\ control' = [control EXCEPT ![p] = FALSE]
    /\ forced' = [forced EXCEPT ![p] = "no"]
    /\ reg' = [reg EXCEPT ![p] = FALSE]
    /\ log' = [log EXCEPT ![p] = FALSE] /\ seen' = [seen EXCEPT ![p] = FALSE]
    /\ box' = [box EXCEPT !.who = IF @ = p THEN Old ELSE @]
    /\ stale' = [q \in Procs |->
                    IF q = p THEN {} ELSE {IF w = p THEN Old ELSE w : w \in stale[q]}]
    /\ keep' = [keep EXCEPT ![p] = FALSE]
    /\ \E old \in {IF lag[p] = "pending" THEN "pending" ELSE lag[Old]}
                     \union (IF pc[p] = "start" THEN {"pending"} ELSE {}) :
         lag' = [lag EXCEPT ![p] = "no", ![Old] = old]

(***************************************************************************)
(* Startup: reconcile, then reapOrphans                                    *)
(***************************************************************************)
Working(w) == box.who = w /\ box.runner \in {"online", "job"}

\* Those of a launch that has not started its runner too.
Offline ==
    {q \in Procs : reg[q] /\ ~Working(q)}
        \union (IF box.who = Old /\ box.runner = "offline" THEN {Old} ELSE {})

\* listRunners: a runner that is online protects whatever runs.
List(p) ==
    /\ Goes(p, "boot", "delete")
    /\ stale' = [stale EXCEPT ![p] = Offline]
    /\ keep' = [keep EXCEPT ![p] = box.runner \in {"online", "job"}]
    /\ UNCHANGED <<target, retried, control, forced, reg, log, seen, lag, box, binary, faults>>

\* The runners of a repository are not known.
ListFails(p) ==
    /\ Fault /\ Goes(p, "boot", "delete")
    /\ \E some \in SUBSET Offline : stale' = [stale EXCEPT ![p] = some]
    /\ keep' = [keep EXCEPT ![p] = TRUE]
    /\ UNCHANGED <<target, retried, control, forced, reg, log, seen, lag, box, binary>>

\* deleteRunner for one that was offline when it was listed: it may have
\* connected since, and GitHub refuses only if it has a job.
Handled(p, w) ==
    /\ pc[p] = "delete" /\ w \in stale[p]
    /\ stale' = [stale EXCEPT ![p] = @ \ {w}]
    /\ UNCHANGED <<pc, target, retried, control, forced, log, seen, lag, binary>>

Delete(p, w) ==
    /\ Handled(p, w) /\ ~(box.who = w /\ box.runner = "job")
    /\ reg' = [q \in Procs |-> reg[q] /\ q # w]
    /\ box' = [box EXCEPT !.runner = IF box.who = w /\ @ # "none" THEN "done" ELSE @]
    /\ UNCHANGED <<keep, faults>>

\* Mutant: a refused deletion does not keep the reaper away.
DeleteRefusedIgnored(p, w) ==
    /\ Handled(p, w) /\ box.who = w /\ box.runner = "job"
    /\ UNCHANGED <<reg, keep, box, faults>>

DeleteRefused(p, w) ==
    /\ Handled(p, w) /\ box.who = w /\ box.runner = "job"
    /\ keep' = [keep EXCEPT ![p] = TRUE]
    /\ UNCHANGED <<reg, box, faults>>

DeleteFails(p, w) ==
    /\ Handled(p, w) /\ Fault /\ keep' = [keep EXCEPT ![p] = TRUE]
    /\ UNCHANGED <<reg, box>>

\* The reaper runs only if nothing is online and everything was done.
Reconciled(p) ==
    /\ stale[p] = {} /\ Goes(p, "delete", IF keep[p] THEN "idle" ELSE "reap")
    /\ keep' = [keep EXCEPT ![p] = FALSE]
    /\ UNCHANGED <<target, retried, control, forced, reg, log, seen, stale, lag, box, binary, faults>>

\* wsb list, and wsb stop for what it shows.
ReapAsk(p) ==
    /\ Goes(p, "reap", "reaped")
    /\ target' = [target EXCEPT ![p] = box.who]
    /\ StopAsked(box.who)
    /\ UNCHANGED <<retried, control, forced, reg, log, seen, lag, startup, binary, faults>>

ReapGone(p) ==
    /\ target[p] = Nobody \/ box.who # target[p]
    /\ Goes(p, "reaped", "idle") /\ target' = [target EXCEPT ![p] = Nobody]
    /\ UNCHANGED <<retried, control, forced, reg, log, seen, lag, startup, box, binary, faults>>

\* STOP_TIMEOUT_MS passed: the error is logged.
ReapFails(p) ==
    /\ Fault /\ Goes(p, "reaped", "idle") /\ target' = [target EXCEPT ![p] = Nobody]
    /\ UNCHANGED <<retried, control, forced, reg, log, seen, lag, startup, box, binary>>

(***************************************************************************)
(* launch: the binary and the sandbox                                      *)
(***************************************************************************)
\* The runner is registered, and launch called.
Begin(p) ==
    /\ Goes(p, "idle", "cache") /\ reg' = [reg EXCEPT ![p] = TRUE]
    /\ UNCHANGED <<target, retried, control, forced, log, seen, lag, startup, box, binary, faults>>

CacheSteps(u) ==
    /\ u \in Procs => pc[u] = "cache"
    /\ Cache!Ensure(u) \/ Cache!EnsureFails(u)
    /\ UNCHANGED <<launch, box>>

\* The binary is there; or launch throws, before its try.
Have(p) ==
    /\ pc[p] = "cache" /\ Cache!Done(p)
    /\ IF get[p] = "have"
          THEN /\ pc' = [pc EXCEPT ![p] = "clear"]
               /\ UNCHANGED <<target, retried, control, forced, reg, log, seen, lag, startup, box>>
          ELSE Ends(p, "idle")

Other(u) ==
    /\ u \notin Procs /\ Cache!Done(u)
    /\ UNCHANGED <<launch, box>>

\* clearStaleSandboxes: any sandbox is stopped, whoever started it.
ClearAsk(p) ==
    /\ Goes(p, "clear", "cleared")
    /\ target' = [target EXCEPT ![p] = box.who]
    /\ StopAsked(box.who)
    /\ UNCHANGED <<retried, control, forced, reg, log, seen, lag, startup, binary, faults>>

\* Mutant: the stop is not waited for.
ClearDoesNotWait(p) ==
    /\ Goes(p, "cleared", "start") /\ target' = [target EXCEPT ![p] = Nobody]
    /\ UNCHANGED <<retried, control, forced, reg, log, seen, lag, startup, box, binary, faults>>

\* stopSandbox returns when the list does not show it any more.
ClearGone(p) ==
    /\ target[p] = Nobody \/ box.who # target[p]
    /\ Goes(p, "cleared", "start") /\ target' = [target EXCEPT ![p] = Nobody]
    /\ UNCHANGED <<retried, control, forced, reg, log, seen, lag, startup, box, binary, faults>>

ClearFails(p) ==
    /\ Fault /\ Goes(p, "cleared", "finally") /\ target' = [target EXCEPT ![p] = Nobody]
    /\ UNCHANGED <<retried, control, forced, reg, log, seen, lag, startup, box, binary>>

Start(p) ==
    /\ box.who = Nobody /\ Goes(p, "start", "up")
    /\ box' = [NoBox EXCEPT !.who = p]
    /\ UNCHANGED <<target, retried, control, forced, reg, log, seen, lag, startup, binary, faults>>

\* CO_E_APPSINGLEUSE: cleared and tried once more.
StartRefused(p) ==
    /\ box.who # Nobody /\ Goes(p, "start", IF retried[p] THEN "finally" ELSE "clear")
    /\ retried' = [retried EXCEPT ![p] = TRUE]
    /\ UNCHANGED <<target, control, forced, reg, log, seen, lag, startup, box, binary, faults>>

\* Another error, or WSB_TIMEOUT_MS: the sandbox may be up, come up or not.
StartFails(p) ==
    /\ Fault /\ Goes(p, "start", "finally")
    /\ \/ box' = box /\ lag' \in {lag, [lag EXCEPT ![p] = "pending"]}
       \/ box.who = Nobody /\ box' = [NoBox EXCEPT !.who = p] /\ lag' = lag
    /\ UNCHANGED <<target, retried, control, forced, reg, log, seen, startup, binary>>

\* wsb start returned: onControl.
Control(p) ==
    /\ Goes(p, "up", "wait") /\ control' = [control EXCEPT ![p] = TRUE]
    /\ UNCHANGED <<target, retried, forced, reg, log, seen, lag, startup, box, binary, faults>>

Mine(p) == box.who = p /\ ~box.closing

ExecReady(p) ==
    /\ Mine(p) /\ Goes(p, "wait", "share")
    /\ UNCHANGED <<target, retried, control, forced, reg, log, seen, lag, startup, box, binary, faults>>

\* EXEC_READY_TIMEOUT_MS.
NotReady(p) ==
    /\ Goes(p, "wait", "finally")
    /\ UNCHANGED <<target, retried, control, forced, reg, log, seen, lag, startup, box, binary, faults>>

\* Both directories are shared and the runner is started.
Exec(p) ==
    /\ Mine(p) /\ Goes(p, "share", "run")
    /\ box' = [box EXCEPT !.runner = IF reg[p] THEN "offline" ELSE "done"]
    /\ UNCHANGED <<target, retried, control, forced, reg, log, seen, lag, startup, binary, faults>>

ShareFails(p) ==
    /\ ~Mine(p) /\ Goes(p, "share", "finally")
    /\ UNCHANGED <<target, retried, control, forced, reg, log, seen, lag, startup, box, binary, faults>>

(***************************************************************************)
(* observeRunner and finally                                               *)
(***************************************************************************)
JobSeen(p) ==
    /\ pc[p] = "run" /\ log[p] /\ ~seen[p] /\ seen' = [seen EXCEPT ![p] = TRUE]
    /\ UNCHANGED <<pc, target, retried, control, forced, reg, log, lag, startup, box, binary, faults>>

\* The exec is over; the log is read once more.
ExecEnds(p) ==
    /\ ~Mine(p) \/ box.runner = "done"
    /\ Goes(p, "run", "finally") /\ seen' = [seen EXCEPT ![p] = @ \/ log[p]]
    /\ UNCHANGED <<target, retried, control, forced, reg, log, lag, startup, box, binary, faults>>

IdleEnds(p) ==
    /\ ~seen[p] /\ Goes(p, "run", "finally")
    /\ UNCHANGED <<target, retried, control, forced, reg, log, seen, lag, startup, box, binary, faults>>

\* Mutant: the lifetime is checked before a job starts only.
LifetimeUnlessJob(p) ==
    /\ ~seen[p] /\ Goes(p, "run", "finally")
    /\ UNCHANGED <<target, retried, control, forced, reg, log, seen, lag, startup, box, binary, faults>>

LifetimeEnds(p) ==
    /\ Goes(p, "run", "finally")
    /\ UNCHANGED <<target, retried, control, forced, reg, log, seen, lag, startup, box, binary, faults>>

StopAsk(p) ==
    /\ Goes(p, "finally", "stopping") /\ StopAsked(p)
    /\ UNCHANGED <<target, retried, control, forced, reg, log, seen, lag, startup, binary, faults>>

\* Mutant: finally does not wait until the sandbox is gone.
StopDoesNotWait(p) ==
    /\ pc[p] = "stopping" /\ Ends(p, "idle")
    /\ UNCHANGED <<binary, faults>>

StopGone(p) ==
    /\ pc[p] = "stopping" /\ box.who # p /\ Ends(p, "idle")
    /\ UNCHANGED <<binary, faults>>

\* It came up after it was asked to stop, which is not asked again.
StopTimesOut(p) ==
    /\ pc[p] = "stopping" /\ box.who = p /\ ~box.closing /\ Ends(p, "idle")
    /\ UNCHANGED <<binary, faults>>

\* It did not stop in time: launch rejects.
StopFails(p) ==
    /\ pc[p] = "stopping" /\ Fault /\ Ends(p, "idle")
    /\ UNCHANGED binary

(***************************************************************************)
(* The process's end                                                       *)
(***************************************************************************)
\* The drain's deadline: control.stop, if it is known.
ForceStop(p) ==
    /\ pc[p] \notin {"boot", "delete", "reap", "reaped", "idle"} /\ forced[p] = "no"
    /\ forced' = [forced EXCEPT ![p] = IF control[p] THEN "asked" ELSE "blind"]
    /\ IF control[p] THEN StopAsked(p) ELSE UNCHANGED box
    /\ UNCHANGED <<pc, target, retried, control, reg, log, seen, lag, startup, binary, faults>>

\* stop returned, and the launch has not settled in the seconds left.
Exits(p) ==
    /\ forced[p] = "blind" \/ (forced[p] = "asked" /\ box.who # p)
    /\ Ends(p, "boot") /\ Cache!Dies(p)
    /\ UNCHANGED faults

\* Or stop failed, and the process exits without it.
Crash(p) == Fault /\ Ends(p, "boot") /\ Cache!Dies(p)

(***************************************************************************)
(* The sandbox and GitHub                                                  *)
(***************************************************************************)
BoxCloses ==
    /\ box.closing /\ box' = NoBox
    /\ UNCHANGED <<launch, get, temp, cache, faults>>

\* A start that was given up.  No name comes up again while a stop waits for
\* it: a sandbox's identity is not modelled.
LateStart(w) ==
    /\ lag[w] = "pending" /\ lag' = [lag EXCEPT ![w] = "up"]
    /\ box.who = Nobody /\ \A p \in Procs : target[p] # w
    /\ box' = [NoBox EXCEPT !.who = w]
    /\ UNCHANGED <<pc, target, retried, control, forced, reg, log, seen, startup, binary, faults>>

OpenedByHand ==
    /\ box.who = Nobody /\ Fault /\ \A p \in Procs : target[p] # Hand
    /\ box' = [NoBox EXCEPT !.who = Hand]
    /\ UNCHANGED <<launch, get, temp, cache>>

RunnerMoves(from, to) ==
    /\ box.runner = from /\ ~box.closing
    /\ box' = [box EXCEPT !.runner = to]
    /\ UNCHANGED <<binary, faults>>

RunnerConnects == RunnerMoves("offline", "online") /\ UNCHANGED launch
JobStarts ==
    /\ RunnerMoves("online", "job")
    /\ log' = [p \in Procs |-> log[p] \/ box.who = p]
    /\ UNCHANGED <<pc, target, retried, control, forced, reg, seen, lag, startup>>
JobEnds == RunnerMoves("job", "done") /\ UNCHANGED launch

-----------------------------------------------------------------------------
Steps(p) ==
    \/ List(p) \/ Reconciled(p) \/ (\E w \in stale[p] : Delete(p, w) \/ DeleteRefused(p, w))
    \/ ReapAsk(p) \/ ReapGone(p) \/ Have(p) \/ ClearAsk(p) \/ ClearGone(p)
    \/ Start(p) \/ StartRefused(p) \/ Control(p) \/ NotReady(p) \/ Exec(p) \/ ShareFails(p)
    \/ ExecEnds(p) \/ LifetimeEnds(p) \/ StopAsk(p) \/ StopGone(p)
    \/ StopTimesOut(p)
Fails(p) ==
    \/ ListFails(p) \/ (\E w \in stale[p] : DeleteFails(p, w)) \/ ReapFails(p)
    \/ ClearFails(p) \/ StartFails(p) \/ StopFails(p) \/ Crash(p)

Next ==
    \/ \E p \in Procs :
         \/ Steps(p) \/ Fails(p) \/ Begin(p) \/ ExecReady(p) \/ JobSeen(p) \/ IdleEnds(p)
         \/ ForceStop(p) \/ Exits(p)
    \/ \E u \in Users : CacheSteps(u) \/ Other(u)
    \/ BoxCloses \/ OpenedByHand \/ (\E w \in Procs \union {Old} : LateStart(w))
    \/ RunnerConnects \/ JobStarts \/ JobEnds

Spec == Init /\ [][Next]_vars

\* The process runs and its timers fire; downloads end, by a timeout if need
\* be; a sandbox that was asked to stop closes.
FairSpec ==
    /\ Spec /\ WF_vars(BoxCloses)
    /\ \A p \in Procs : WF_vars(Steps(p)) /\ WF_vars(CacheSteps(p))

-----------------------------------------------------------------------------
\* Every variable has its type.
TypeOK ==
    /\ pc \in [Procs -> {"boot", "delete", "reap", "reaped", "idle", "cache", "clear",
                         "cleared", "start", "up", "wait", "share", "run", "finally",
                         "stopping"}]
    /\ target \in [Procs -> Procs \union {Nobody, Old, Hand}]
    /\ retried \in [Procs -> BOOLEAN] /\ control \in [Procs -> BOOLEAN]
    /\ forced \in [Procs -> {"no", "blind", "asked"}]
    /\ reg \in [Procs -> BOOLEAN]
    /\ log \in [Procs -> BOOLEAN] /\ seen \in [Procs -> BOOLEAN]
    /\ stale \in [Procs -> SUBSET (Procs \union {Old})] /\ keep \in [Procs -> BOOLEAN]
    /\ lag \in [Procs \union {Old} -> {"no", "pending", "up"}]
    /\ box \in [who : Procs \union {Nobody, Old, Hand}, closing : BOOLEAN,
                runner : {"none", "offline", "online", "job", "done"}]
    /\ faults \in 0 .. MaxFaults
    /\ Cache!TypeOK

\* A sandbox belongs to a launch that has started it and not yet seen it gone.
BoxGood(p) ==
    /\ box.who = p => pc[p] \in {"up", "wait", "share", "run", "finally", "stopping"}
    /\ pc[p] \in {"wait", "share", "run"} => control[p]
    /\ control[p] => pc[p] \in {"wait", "share", "run", "finally", "stopping"}
    /\ forced[p] = "asked" => control[p] /\ (box.who = p => box.closing)
    /\ pc[p] \in {"clear", "cleared", "start", "up", "wait", "share", "run"} => cache = "whole"
    /\ seen[p] => log[p]
    /\ lag[p] # "no" => pc[p] \in {"finally", "stopping"} /\ ~control[p]
    /\ pc[p] = "stopping" /\ box.who = p => box.closing \/ lag[p] = "up"

IndInv == TypeOK /\ (\A p \in Procs : BoxGood(p)) /\ Cache!CacheWhole

\* The binary a launch shares with its sandbox is the verified one, whoever
\* else downloads it at the time.
SharesWhole == \A p \in Procs : pc[p] \in {"share", "run"} => cache = "whole"

\* No sandbox runs that no launch accounts for, unless a call failed, the
\* force-reap came before wsb start returned, or the start was given up and
\* its sandbox came up afterwards.
LeavesNoSandbox ==
    [][box.who # Old /\ box'.who = Old
           => \/ faults' # faults \/ lag[Old] = "pending"
              \/ \E p \in Procs : box.who = p /\ (forced[p] = "blind" \/ lag[p] = "up")]_vars

\* reapOrphans: a job that outlived its dispatcher is not taken by the next
\* one's startup.
ReapSparesJobs ==
    [][\A p \in Procs : ReapAsk(p) /\ box.who = Old => box.runner # "job"]_vars

\* While nothing fails and no other process launches, a launch that has its
\* binary gets its sandbox, whatever an earlier one left or still brings up.
StaleNeverBlocks ==
    \A p \in Procs :
        pc[p] = "clear" /\ faults = MaxFaults /\ (retried[p] => lag[Old] # "pending")
            ~> box.who = p \/ forced[p] # "no"

\* Every launch settles while its process lives.
LaunchesEnd == \A p \in Procs : pc[p] = "cache" ~> pc[p] \in {"idle", "boot"}
=============================================================================
