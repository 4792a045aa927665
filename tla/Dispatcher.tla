----------------------------- MODULE Dispatcher -----------------------------
(***************************************************************************)
(* The poll loop of src/dispatcher.js (runDispatcher), the lifecycles of   *)
(* the runners it mints, the registrations GitHub holds for them, and the  *)
(* drain that ends the process.  JavaScript runs one callback at a time,   *)
(* so one action is what happens between two awaits; two lifecycles, the   *)
(* loop and GitHub interleave at every await.                              *)
(*                                                                         *)
(* GitHub and the sandbox backend (flavor.launch) are external: they       *)
(* appear as the outcomes the dispatcher's code distinguishes.  Every      *)
(* outcome that is a failure is charged to the budget `faults`.            *)
(***************************************************************************)
EXTENDS Integers, FiniteSets

CONSTANTS
    NumRepos,       \* repositories, numbered in the order GitHub lists them
    NumFlavors,     \* flavors, numbered in the order of detectFlavors
    Slots,          \* identities of runners: a lifecycle and its registration
    MaxConcurrent,  \* the semaphore's capacity (--max)
    MaxActiveJobs,  \* MAX_ACTIVE_JOBS
    FlavorCap,      \* flavor.maxConcurrent of each flavor
    MaxQueued,      \* bound: jobs queued at once for one repository and flavor
    MaxJobs,        \* bound: jobs that ever arrive
    MaxFaults,      \* bound: failures of GitHub, the host or a backend
    MaxOrphans      \* bound: registrations an earlier process left behind

Repos == 1..NumRepos
Flavors == 1..NumFlavors
Keys == Repos \X Flavors

ASSUME SizesAssumption ==
    /\ NumRepos \in Nat \ {0}
    /\ NumFlavors \in Nat \ {0}
    /\ IsFiniteSet(Slots)
    /\ MaxConcurrent \in Nat \ {0}
    /\ MaxActiveJobs \in Nat \ {0}
    /\ FlavorCap \in [Flavors -> Nat \ {0}]
    /\ MaxQueued \in Nat /\ MaxJobs \in Nat /\ MaxFaults \in Nat /\ MaxOrphans \in Nat

VARIABLES
    pc,                 \* the await the loop, and later the drain, is at
    poll,               \* the variables scoped to one iteration of the loop
    reconciled,         \* lastReconcile # 0
    backoff,            \* repositories with repoBackoffUntil in the future
    aborted,            \* signal.aborted
    threw,              \* an exception left the loop: runDispatcher rejects
    drain,              \* the variables of the drain's force-reap
    active,             \* Semaphore.#active
    activeByFlavor,
    unassignedByFlavor,
    unassigned,         \* unassignedByRepoFlavor
    phase,              \* where each lifecycle is
    repo, flavor,       \* what it was minted for, 0 for an unused slot
    runnerUnassigned,   \* its closure variable of that name
    reg,                \* GitHub: its registration
    queued,             \* GitHub: queued jobs of each repository and flavor
    private,            \* GitHub: the owner's private repositories
    arrivals,           \* jobs that have arrived, at most MaxJobs
    scan,               \* GitHub: the jobs a count in progress must and may find
    faults              \* failures that have happened, at most MaxFaults

counters == <<active, activeByFlavor, unassignedByFlavor, unassigned>>
lifecycle == <<phase, repo, flavor, runnerUnassigned>>
jobs == <<queued, private, arrivals, scan>>
vars == <<pc, poll, reconciled, backoff, aborted, threw, drain, counters,
          lifecycle, reg, jobs, faults>>

\* The awaits of the loop (first two lines) and of the drain (last line).
Awaits == {"list", "detect", "sweepList", "sweepDelete", "count", "counting",
           "recheck", "rechecked", "claimedWait", "pollWait", "capWait",
           "hook", "draining", "reapStop", "reapDelete", "reapWait", "stopped"}

\* requesting: generate-jitconfig sent; created: GitHub made the registration;
\* launching: in flavor.launch; up: onControl was called, the resource exists;
\* killed: the resource is gone, launch has not settled; deregistering: in the
\* catch that deletes the registration.  A slot that is not in flight is
\* settled when its lifecycle object still names a registration, else free.
InFlight == {"requesting", "created", "launching", "up", "killed", "deregistering"}
Phases == InFlight \union {"free", "settled"}

\* used: GitHub removed the ephemeral registration after its one job.
Registrations == {"none", "offline", "online", "busy", "used"}

NoPoll == [repos |-> {}, flavors |-> {}, todo |-> {}, stale |-> {}, flavor |-> 0,
           demand |-> 0, unmet |-> {}, seen |-> [r \in Repos |-> 0], target |-> 0]
NoScan == [kept |-> 0, seen |-> 0]
NoDrain == [remaining |-> {}, current |-> {}, stopped |-> {}]

Launches == {s \in Slots : phase[s] \in InFlight}
Free == MaxConcurrent - active
AtHardCap == Cardinality(Launches) >= MaxActiveJobs
Key(s) == <<repo[s], flavor[s]>>

\* Math.max(0, n - 1)
Decremented(n) == IF n > 0 THEN n - 1 ELSE 0

\* The loop takes repositories and flavors in order.
IsFirst(x, S) == x \in S /\ \A y \in S : x <= y

NoFault == UNCHANGED faults
Fault == faults < MaxFaults /\ faults' = faults + 1

Init ==
    /\ pc = "list" /\ poll = NoPoll /\ reconciled = FALSE /\ backoff = {}
    /\ aborted = FALSE /\ threw = FALSE /\ drain = NoDrain
    /\ active = 0
    /\ activeByFlavor = [f \in Flavors |-> 0]
    /\ unassignedByFlavor = [f \in Flavors |-> 0]
    /\ unassigned = [k \in Keys |-> 0]
    /\ phase = [s \in Slots |-> "free"]
    /\ runnerUnassigned = [s \in Slots |-> FALSE]
    /\ repo \in [Slots -> 0..NumRepos]
    /\ flavor \in [Slots -> 0..NumFlavors]
    /\ \A s \in Slots : repo[s] = 0 <=> flavor[s] = 0
    /\ Cardinality({s \in Slots : repo[s] # 0}) <= MaxOrphans
    /\ reg = [s \in Slots |-> IF repo[s] = 0 THEN "none" ELSE "offline"]
    /\ queued = [k \in Keys |-> 0]
    /\ private = Repos
    /\ arrivals = 0 /\ scan = NoScan /\ faults = 0

-----------------------------------------------------------------------------
(* The loop: one poll.                                                     *)

\* waitForNextPoll without a claim; the iteration's variables go out of scope.
WaitForNextPoll ==
    /\ pc' = IF AtHardCap THEN "capWait" ELSE "pollWait"
    /\ poll' = NoPoll

\* The head of `for (const flavor of flavors)` after flavor f.
NextFlavor(p, f) ==
    LET rest == {g \in p.flavors : g > f} IN
    IF rest = {} \/ p.repos = {} \/ aborted \/ Free = 0
    THEN WaitForNextPoll
    ELSE \E g \in rest :
           /\ IsFirst(g, rest)
           /\ pc' = "count"
           /\ poll' = [NoPoll EXCEPT !.repos = p.repos, !.flavors = p.flavors,
                                     !.todo = p.repos, !.flavor = g]

ListRepos ==
    /\ pc = "list" /\ ~aborted
    /\ \/ pc' = "detect" /\ poll' = [NoPoll EXCEPT !.repos = private] /\ NoFault
       \/ Fault /\ WaitForNextPoll
    /\ UNCHANGED <<reconciled, backoff, aborted, threw, drain, counters, lifecycle, reg, jobs>>

\* detectFlavors, and the decision whether a reconcile is due.  A backend that
\* is not available, or a detection that throws, is a fault.
DetectFlavors ==
    /\ pc = "detect"
    /\ \E usable \in SUBSET Flavors :
         /\ IF usable = Flavors THEN NoFault ELSE Fault
         /\ LET p == [poll EXCEPT !.flavors = usable] IN
            \/ pc' = "sweepList" /\ poll' = [p EXCEPT !.todo = p.repos]
            \/ /\ reconciled
               /\ IF aborted THEN pc' = "hook" /\ poll' = NoPoll ELSE NextFlavor(p, 0)
    /\ UNCHANGED <<reconciled, backoff, aborted, threw, drain, counters, lifecycle, reg, jobs>>

\* reconcile: the next repository's runners are listed and its offline
\* registrations of a usable flavor are picked, those of runners this process
\* is still booting included.
SweepList ==
    /\ pc = "sweepList" /\ ~aborted
    /\ \E r \in poll.todo :
         LET stale == {s \in Slots : repo[s] = r /\ flavor[s] \in poll.flavors /\ reg[s] = "offline"}
             next(picked) == [poll EXCEPT !.todo = @ \ {r}, !.stale = picked]
         IN /\ IsFirst(r, poll.todo)
            /\ \/ /\ NoFault
                  /\ pc' = IF stale = {} THEN "sweepList" ELSE "sweepDelete"
                  /\ poll' = next(stale)
               \/ Fault /\ pc' = pc /\ poll' = next({})
    /\ UNCHANGED <<reconciled, backoff, aborted, threw, drain, counters, lifecycle, reg, jobs>>

\* GitHub's answer to DELETE: a busy runner is refused, a missing one is a 404.
Removed(r) == IF r \in {"offline", "online"} THEN "none" ELSE r

\* Mutant: a registration is forgotten although its lifecycle still runs.
DeleteForgets(s) ==
    /\ reg' = [reg EXCEPT ![s] = Removed(@)]
    /\ phase' = [phase EXCEPT ![s] = "free"]
    /\ repo' = [repo EXCEPT ![s] = 0]
    /\ flavor' = [flavor EXCEPT ![s] = 0]
    /\ UNCHANGED runnerUnassigned

\* deleteRunner of slot s took effect: an orphan's slot becomes unused.
Delete(s) ==
    LET gone == Removed(reg[s]) = "none" /\ phase[s] \notin InFlight IN
    /\ reg' = [reg EXCEPT ![s] = Removed(@)]
    /\ phase' = IF gone THEN [phase EXCEPT ![s] = "free"] ELSE phase
    /\ repo' = IF gone THEN [repo EXCEPT ![s] = 0] ELSE repo
    /\ flavor' = IF gone THEN [flavor EXCEPT ![s] = 0] ELSE flavor
    /\ UNCHANGED runnerUnassigned

\* The sweep's deleteRunner calls, one after the other.
SweepDelete ==
    /\ pc = "sweepDelete" /\ ~aborted
    /\ \E s \in poll.stale :
         /\ \/ Delete(s) /\ NoFault
            \/ Fault /\ UNCHANGED <<lifecycle, reg>>
         /\ poll' = [poll EXCEPT !.stale = @ \ {s}]
         /\ pc' = IF poll.stale = {s} THEN "sweepList" ELSE pc
    /\ UNCHANGED <<reconciled, backoff, aborted, threw, drain, counters, jobs>>

SweepDone ==
    /\ pc \in {"sweepList", "sweepDelete"}
    /\ aborted \/ (pc = "sweepList" /\ poll.todo = {})
    /\ reconciled' = TRUE
    /\ IF aborted THEN pc' = "hook" /\ poll' = NoPoll ELSE NextFlavor(poll, 0)
    /\ UNCHANGED <<backoff, aborted, threw, drain, counters, lifecycle, reg, jobs, faults>>

\* toMint = 1, the least of the five terms being positive.
ToMint(d, f) ==
    /\ d > unassignedByFlavor[f]
    /\ Free > 0
    /\ activeByFlavor[f] < FlavorCap[f]
    /\ ~AtHardCap

\* There is room and a target to mint for, or on to the next flavor.
Decide(d, u, v) ==
    LET targets == u \ backoff IN
    IF ToMint(d, poll.flavor) /\ targets # {}
    THEN \E r \in targets :
           /\ IsFirst(r, targets)
           /\ pc' = "recheck"
           /\ poll' = [NoPoll EXCEPT !.repos = poll.repos, !.flavors = poll.flavors,
                                     !.flavor = poll.flavor, !.target = r,
                                     !.seen[r] = v[r]]
    ELSE NextFlavor(poll, poll.flavor)

\* The count of repository r is in: d, u and v are the results so far.
Counted(r, d, u, v) ==
    LET more == poll.todo \ {r} IN
    IF more # {} /\ ~aborted
    THEN /\ pc' = "count"
         /\ poll' = [poll EXCEPT !.todo = more, !.demand = d, !.unmet = u, !.seen = v]
    ELSE Decide(d, u, v)

\* countQueuedMatchingJobs of the next repository: the runs are listed, then the
\* jobs of each are read, one request after the other, while jobs come and go.
\* scan.kept are the jobs queued all the while, which it must find, scan.seen
\* those queued at some time meanwhile, each of which it may find.
CountAsk ==
    /\ pc = "count" /\ pc' = "counting"
    /\ \E r \in poll.todo :
         /\ IsFirst(r, poll.todo)
         /\ scan' = [kept |-> queued[<<r, poll.flavor>>], seen |-> queued[<<r, poll.flavor>>]]
    /\ UNCHANGED <<poll, reconciled, backoff, aborted, threw, drain, counters, lifecycle, reg,
                   queued, private, arrivals, faults>>

\* Any of its requests fails, as all do after an abort: the repository is left out.
CountFails ==
    /\ pc = "counting"
    /\ IF aborted THEN NoFault ELSE Fault
    /\ \E r \in poll.todo : IsFirst(r, poll.todo) /\ Counted(r, poll.demand, poll.unmet, poll.seen)
    /\ scan' = NoScan
    /\ UNCHANGED <<reconciled, backoff, aborted, threw, drain, counters, lifecycle, reg,
                   queued, private, arrivals>>

\* Mutant: alreadyUnassigned is not subtracted.
UnmetUndamped(n, r) == n > 0

\* Math.max(0, queued - alreadyUnassigned) > 0
Unmet(n, r) == n > unassigned[<<r, poll.flavor>>]

\* The last answer is in: the n jobs found meet the counters as they are now.
CountReply ==
    /\ pc = "counting"
    /\ \E r \in poll.todo, n \in scan.kept..scan.seen :
         /\ IsFirst(r, poll.todo)
         /\ Counted(r, poll.demand + n, IF Unmet(n, r) THEN poll.unmet \union {r} ELSE poll.unmet,
                    [poll.seen EXCEPT ![r] = scan.seen])
    /\ scan' = NoScan
    /\ UNCHANGED <<reconciled, backoff, aborted, threw, drain, counters, lifecycle, reg,
                   queued, private, arrivals, faults>>

\* isStillPrivate: GitHub finds the repository private ...
RecheckAsk ==
    /\ pc = "recheck" /\ ~aborted /\ poll.target \in private
    /\ pc' = "rechecked"
    /\ UNCHANGED <<poll, reconciled, backoff, aborted, threw, drain, counters, lifecycle, reg, jobs, faults>>

\* ... or not; any failure but an abort means "not private".
RecheckDenied ==
    /\ pc \in {"recheck", "rechecked"} /\ ~aborted
    /\ IF pc = "recheck" /\ poll.target \notin private THEN NoFault ELSE Fault
    /\ NextFlavor(poll, poll.flavor)
    /\ UNCHANGED <<reconciled, backoff, aborted, threw, drain, counters, lifecycle, reg, jobs>>

\* An abort makes isStillPrivate throw out of the loop, or the loop break
\* when the answer was already in.
RecheckAborted ==
    /\ pc \in {"recheck", "rechecked"} /\ aborted
    /\ pc' = "hook" /\ poll' = NoPoll
    /\ threw' \in (IF pc = "recheck" THEN {TRUE} ELSE BOOLEAN)
    /\ UNCHANGED <<reconciled, backoff, aborted, drain, counters, lifecycle, reg, jobs, faults>>

Mint(s, r, f) ==
    /\ phase[s] = "free" /\ reg[s] = "none"
    /\ active' = active + 1
    /\ unassignedByFlavor' = [unassignedByFlavor EXCEPT ![f] = @ + 1]
    /\ unassigned' = [unassigned EXCEPT ![<<r, f>>] = @ + 1]
    /\ activeByFlavor' = [activeByFlavor EXCEPT ![f] = @ + 1]
    /\ phase' = [phase EXCEPT ![s] = "requesting"]
    /\ repo' = [repo EXCEPT ![s] = r]
    /\ flavor' = [flavor EXCEPT ![s] = f]
    /\ runnerUnassigned' = [runnerUnassigned EXCEPT ![s] = TRUE]

\* Mutant: the poll's list is trusted.
ClaimListed ==
    /\ pc = "recheck" /\ ~aborted
    /\ \E s \in Slots : Mint(s, poll.target, poll.flavor)
    /\ pc' = "claimedWait" /\ poll' = NoPoll
    /\ UNCHANGED <<reconciled, backoff, aborted, threw, drain, reg, jobs, faults>>

\* The answer is in: the lifecycle starts and the loop waits after its claim.
Claim ==
    /\ pc = "rechecked" /\ ~aborted
    /\ IF Free = 0 \/ AtHardCap
       THEN WaitForNextPoll /\ UNCHANGED <<counters, lifecycle>>
       ELSE /\ \E s \in Slots : Mint(s, poll.target, poll.flavor)
            /\ pc' = "claimedWait" /\ poll' = NoPoll
    /\ UNCHANGED <<reconciled, backoff, aborted, threw, drain, reg, jobs, faults>>

\* The delay after a claim, which no lifecycle interrupts.
ClaimTimer ==
    /\ pc = "claimedWait"
    /\ pc' = IF AtHardCap THEN "capWait" ELSE "list"
    /\ UNCHANGED <<poll, reconciled, backoff, aborted, threw, drain, counters, lifecycle, reg, jobs, faults>>

\* The ordinary delay ran out, or was cut short by a notification or an abort.
PollTimer ==
    /\ pc = "pollWait"
    /\ pc' = "list"
    /\ UNCHANGED <<poll, reconciled, backoff, aborted, threw, drain, counters, lifecycle, reg, jobs, faults>>

\* waitForNotification ends with an abort, or in Settle below.
CapWaitAborted ==
    /\ pc = "capWait" /\ aborted
    /\ pc' = "list"
    /\ UNCHANGED <<poll, reconciled, backoff, aborted, threw, drain, counters, lifecycle, reg, jobs, faults>>

-----------------------------------------------------------------------------
(* One lifecycle: runLifecycle and the finally behind it.                  *)

\* Mutant: not once, but at onStarted and again in the finally.
DecrementUnassignedTwice(s) ==
    /\ unassignedByFlavor' = [unassignedByFlavor EXCEPT ![flavor[s]] = Decremented(@)]
    /\ unassigned' = [unassigned EXCEPT ![Key(s)] = Decremented(@)]
    /\ runnerUnassigned' = [runnerUnassigned EXCEPT ![s] = FALSE]

\* decrementUnassignedOnce, called by onStarted and by the finally.
DecrementUnassignedOnce(s) ==
    /\ IF runnerUnassigned[s]
       THEN /\ unassignedByFlavor' = [unassignedByFlavor EXCEPT ![flavor[s]] = Decremented(@)]
            /\ unassigned' = [unassigned EXCEPT ![Key(s)] = Decremented(@)]
       ELSE UNCHANGED <<unassignedByFlavor, unassigned>>
    /\ runnerUnassigned' = [runnerUnassigned EXCEPT ![s] = FALSE]

\* The finally gives back the flavor's and the semaphore's slot.
Release(f) ==
    /\ activeByFlavor' = [activeByFlavor EXCEPT ![f] = Decremented(@)]
    /\ active' = active - 1

\* Mutant: the finally does not notify.
NotifyNobody == UNCHANGED pc

\* slotFreed.notify(): a loop waiting at the cap polls again.
Notify == pc' = IF pc = "capWait" THEN "list" ELSE pc

\* The finally of launchPromise.  `left` is the registration that stays behind,
\* `known` whether the lifecycle object names it.
Settle(s, left, known) ==
    LET unused == left = "none" IN
    /\ DecrementUnassignedOnce(s)
    /\ Release(flavor[s])
    /\ phase' = [phase EXCEPT ![s] = IF known /\ ~unused THEN "settled" ELSE "free"]
    /\ repo' = [repo EXCEPT ![s] = IF unused THEN 0 ELSE @]
    /\ flavor' = [flavor EXCEPT ![s] = IF unused THEN 0 ELSE @]
    /\ reg' = [reg EXCEPT ![s] = left]
    /\ Notify

\* GitHub processes generate-jitconfig.
JitCreated(s) ==
    /\ phase[s] = "requesting"
    /\ phase' = [phase EXCEPT ![s] = "created"]
    /\ reg' = [reg EXCEPT ![s] = "offline"]
    /\ UNCHANGED <<pc, poll, reconciled, backoff, aborted, threw, drain, counters,
                   repo, flavor, runnerUnassigned, jobs, faults>>

\* The response arrives: the lifecycle learns runnerId and calls flavor.launch.
JitReturns(s) ==
    /\ phase[s] = "created"
    /\ phase' = [phase EXCEPT ![s] = "launching"]
    /\ UNCHANGED <<pc, poll, reconciled, backoff, aborted, threw, drain, counters,
                   repo, flavor, runnerUnassigned, reg, jobs, faults>>

\* generate-jitconfig fails, or its response is lost or incomplete: no runnerId,
\* no deleteRunner, no backoff.
JitFails(s) ==
    /\ phase[s] \in {"requesting", "created"} /\ Fault
    /\ Settle(s, reg[s], FALSE)
    /\ UNCHANGED <<poll, reconciled, backoff, aborted, threw, drain, jobs>>

\* flavor.launch calls onControl: the container or VM exists.
LaunchUp(s) ==
    /\ phase[s] = "launching"
    /\ phase' = [phase EXCEPT ![s] = "up"]
    /\ UNCHANGED <<pc, poll, reconciled, backoff, aborted, threw, drain, counters,
                   repo, flavor, runnerUnassigned, reg, jobs, faults>>

\* flavor.launch sees the job-start line and calls onStarted.
StartSeen(s) ==
    /\ phase[s] = "up" /\ runnerUnassigned[s] /\ reg[s] \in {"busy", "used"}
    /\ DecrementUnassignedOnce(s)
    /\ UNCHANGED <<pc, poll, reconciled, backoff, aborted, threw, drain, active, activeByFlavor,
                   phase, repo, flavor, reg, jobs, faults>>

\* A registration whose runner process is gone.
Lost(r) == IF r \in {"online", "busy"} THEN "offline" ELSE r

Kill(s) ==
    /\ phase' = [phase EXCEPT ![s] = "killed"]
    /\ reg' = [reg EXCEPT ![s] = Lost(@)]
    /\ UNCHANGED <<repo, flavor, runnerUnassigned>>

\* Mutant: onStarted does not cancel the watchdog.
IdleTimeoutNotCancelled(s) ==
    /\ phase[s] = "up" /\ reg[s] \in {"none", "online", "busy"} /\ NoFault
    /\ Kill(s)
    /\ UNCHANGED <<pc, poll, reconciled, backoff, aborted, threw, drain, counters, jobs>>

\* The idle watchdog: no start line seen for idleTimeoutMs, whether the runner is
\* still booting, waits for a job, or has one whose start line was not seen.
IdleTimeout(s) ==
    /\ phase[s] = "up" /\ runnerUnassigned[s] /\ NoFault
    /\ Kill(s)
    /\ UNCHANGED <<pc, poll, reconciled, backoff, aborted, threw, drain, counters, jobs>>

\* The resource dies under a started job: crash, or the maximum lifetime.
ResourceDies(s) ==
    /\ phase[s] = "up" /\ ~runnerUnassigned[s] /\ Fault
    /\ Kill(s)
    /\ UNCHANGED <<pc, poll, reconciled, backoff, aborted, threw, drain, counters, jobs>>

\* launch resolves with startedJob: the registration is left to GitHub.
LaunchSucceeds(s) ==
    /\ ~runnerUnassigned[s]
    /\ phase[s] = "killed" \/ (phase[s] = "up" /\ reg[s] = "used")
    /\ Settle(s, IF reg[s] = "used" THEN "none" ELSE reg[s], TRUE)
    /\ UNCHANGED <<poll, reconciled, backoff, aborted, threw, drain, jobs, faults>>

\* launch rejects or resolves without startedJob: the repository backs off and
\* the registration is to be deleted.
LaunchFails(s) ==
    /\ \/ phase[s] = "killed" /\ NoFault
       \/ phase[s] = "launching" /\ Fault
    /\ phase' = [phase EXCEPT ![s] = "deregistering"]
    /\ backoff' = backoff \union {repo[s]}
    /\ UNCHANGED <<pc, poll, reconciled, aborted, threw, drain, counters,
                   repo, flavor, runnerUnassigned, reg, jobs>>

\* Mutant: the catch does not deregister.
DeregisterSkipped(s) ==
    /\ phase[s] = "deregistering" /\ NoFault
    /\ Settle(s, reg[s], TRUE)
    /\ UNCHANGED <<poll, reconciled, backoff, aborted, threw, drain, jobs>>

\* The deleteRunner of that catch answers, then the finally runs.
Deregister(s) ==
    /\ phase[s] = "deregistering"
    /\ \/ Settle(s, "none", TRUE) /\ NoFault
       \/ Settle(s, IF reg[s] = "used" THEN "none" ELSE reg[s], TRUE) /\ Fault
    /\ UNCHANGED <<poll, reconciled, backoff, aborted, threw, drain, jobs>>

BackoffEnds(r) ==
    /\ r \in backoff
    /\ backoff' = backoff \ {r}
    /\ UNCHANGED <<pc, poll, reconciled, aborted, threw, drain, counters, lifecycle, reg, jobs, faults>>

-----------------------------------------------------------------------------
(* The drain: the finally of runDispatcher.                                *)

\* SIGINT or SIGTERM aborts the signal, once.
Abort ==
    /\ ~aborted /\ pc # "stopped"
    /\ aborted' = TRUE
    /\ UNCHANGED <<pc, poll, reconciled, backoff, threw, drain, counters, lifecycle, reg, jobs, faults>>

LeaveLoop ==
    /\ pc = "list" /\ aborted
    /\ pc' = "hook"
    /\ UNCHANGED <<poll, reconciled, backoff, aborted, threw, drain, counters, lifecycle, reg, jobs, faults>>

\* The drain hook ran or timed out; `pending` is taken from launches.
HookDone ==
    /\ pc = "hook"
    /\ pc' = IF Launches = {} THEN "stopped" ELSE "draining"
    /\ UNCHANGED <<poll, reconciled, backoff, aborted, threw, drain, counters, lifecycle, reg, jobs, faults>>

DrainSettled ==
    /\ pc \in {"draining", "reapWait"} /\ Launches = {}
    /\ pc' = "stopped"
    /\ UNCHANGED <<poll, reconciled, backoff, aborted, threw, drain, counters, lifecycle, reg, jobs, faults>>

\* The next lifecycle of `left` is force-reaped, or the wait for them begins.
ReapNext(left, d) ==
    IF left = {}
    THEN pc' = "reapWait" /\ drain' = [d EXCEPT !.remaining = {}, !.current = {}]
    ELSE \E s \in left :
           pc' = "reapStop" /\ drain' = [d EXCEPT !.remaining = left \ {s}, !.current = {s}]

\* Mutant: Promise.allSettled without the race against the deadline.
DrainWithoutDeadline == DrainSettled

DrainDeadline ==
    /\ pc = "draining" /\ Launches # {}
    /\ ReapNext(Launches, drain)
    /\ UNCHANGED <<poll, reconciled, backoff, aborted, threw, counters, lifecycle, reg, jobs, faults>>

\* await lifecycle.stop?.(): undefined before onControl; may fail and be logged.
ReapStop ==
    /\ pc = "reapStop"
    /\ pc' = "reapDelete"
    /\ \E s \in drain.current :
         \/ /\ phase[s] = "up" /\ NoFault
            /\ Kill(s)
            /\ drain' = [drain EXCEPT !.stopped = @ \union {s}]
         \/ /\ IF phase[s] = "up" THEN Fault ELSE NoFault
            /\ UNCHANGED <<drain, lifecycle, reg>>
    /\ UNCHANGED <<poll, reconciled, backoff, aborted, threw, counters, jobs>>

\* Mutant: stopped runners are taken to be deregistered.
ReapDeleteSkipped ==
    /\ pc = "reapDelete"
    /\ ReapNext(drain.remaining, drain)
    /\ UNCHANGED <<poll, reconciled, backoff, aborted, threw, counters, lifecycle, reg, jobs, faults>>

\* if (lifecycle.runnerId) deleteRunner: an id is known once the JIT response is in.
ReapDelete ==
    /\ pc = "reapDelete"
    /\ \E s \in drain.current :
         IF phase[s] \in {"requesting", "created", "free"}
         THEN NoFault /\ UNCHANGED <<lifecycle, reg>>
         ELSE \/ Delete(s) /\ NoFault
              \/ Fault /\ UNCHANGED <<lifecycle, reg>>
    /\ ReapNext(drain.remaining, drain)
    /\ UNCHANGED <<poll, reconciled, backoff, aborted, threw, counters, jobs>>

\* The five seconds granted to force-reaped lifecycles are over.
ReapTimer ==
    /\ pc = "reapWait" /\ Launches # {}
    /\ pc' = "stopped"
    /\ UNCHANGED <<poll, reconciled, backoff, aborted, threw, drain, counters, lifecycle, reg, jobs, faults>>

-----------------------------------------------------------------------------
(* GitHub and the repositories' owner.                                     *)

\* The repository and flavor whose jobs a count is reading.
Scanned == IF pc = "counting"
           THEN {k \in Keys : IsFirst(k[1], poll.todo) /\ k[2] = poll.flavor} ELSE {}

JobArrives(k) ==
    /\ queued[k] < MaxQueued /\ arrivals < MaxJobs
    /\ queued' = [queued EXCEPT ![k] = @ + 1]
    /\ arrivals' = arrivals + 1
    /\ scan' = IF k \in Scanned THEN [scan EXCEPT !.seen = @ + 1] ELSE scan
    /\ UNCHANGED <<pc, poll, reconciled, backoff, aborted, threw, drain, counters, lifecycle, reg,
                   private, faults>>

\* A job leaves the queue: one a count in progress found there at its start, or
\* one that arrived since.
Dequeue(k) ==
    /\ queued[k] > 0
    /\ queued' = [queued EXCEPT ![k] = @ - 1]
    /\ IF k \in Scanned
       THEN \E old \in BOOLEAN :
              /\ IF old THEN scan.kept > 0 ELSE queued[k] > scan.kept
              /\ scan' = [scan EXCEPT !.kept = IF old THEN @ - 1 ELSE @]
       ELSE UNCHANGED scan
    /\ UNCHANGED <<private, arrivals>>

JobCancelled(k) ==
    /\ Dequeue(k)
    /\ UNCHANGED <<pc, poll, reconciled, backoff, aborted, threw, drain, counters, lifecycle, reg, faults>>

RunnerConnects(s) ==
    /\ phase[s] = "up" /\ reg[s] = "offline"
    /\ reg' = [reg EXCEPT ![s] = "online"]
    /\ UNCHANGED <<pc, poll, reconciled, backoff, aborted, threw, drain, counters, lifecycle, jobs, faults>>

AssignJob(s) ==
    /\ phase[s] = "up" /\ reg[s] = "online" /\ Dequeue(Key(s))
    /\ reg' = [reg EXCEPT ![s] = "busy"]
    /\ UNCHANGED <<pc, poll, reconciled, backoff, aborted, threw, drain, counters, lifecycle, faults>>

JobEnds(s) ==
    /\ phase[s] = "up" /\ reg[s] = "busy"
    /\ reg' = [reg EXCEPT ![s] = "used"]
    /\ UNCHANGED <<pc, poll, reconciled, backoff, aborted, threw, drain, counters, lifecycle, jobs, faults>>

\* A repository is made public or transferred.
TurnsPublic(r) ==
    /\ r \in private /\ Fault
    /\ private' = private \ {r}
    /\ UNCHANGED <<pc, poll, reconciled, backoff, aborted, threw, drain, counters, lifecycle, reg,
                   queued, arrivals, scan>>

-----------------------------------------------------------------------------
Loop ==
    \/ ListRepos \/ DetectFlavors \/ SweepList \/ SweepDelete \/ SweepDone
    \/ CountAsk \/ CountFails \/ CountReply \/ RecheckAsk \/ RecheckDenied \/ RecheckAborted \/ Claim
    \/ ClaimTimer \/ PollTimer \/ CapWaitAborted
    \/ LeaveLoop \/ HookDone \/ DrainSettled \/ DrainDeadline
    \/ ReapStop \/ ReapDelete \/ ReapTimer

Lifecycle(s) ==
    \/ JitCreated(s) \/ JitReturns(s) \/ JitFails(s)
    \/ LaunchUp(s) \/ StartSeen(s) \/ IdleTimeout(s) \/ ResourceDies(s)
    \/ LaunchSucceeds(s) \/ LaunchFails(s) \/ Deregister(s)

Environment ==
    \/ Abort
    \/ \E r \in Repos : BackoffEnds(r) \/ TurnsPublic(r)
    \/ \E k \in Keys : JobArrives(k) \/ JobCancelled(k)
    \/ \E s \in Slots : RunnerConnects(s) \/ AssignJob(s) \/ JobEnds(s)

Next == Loop \/ Environment \/ \E s \in Slots : Lifecycle(s)

Spec == Init /\ [][Next]_vars

\* The drain must end whatever the launches do: only the loop's own awaits are
\* fair, each being a timer, a request bounded by its timeout, or a stop().
LoopSpec == Spec /\ WF_vars(Loop)

\* The sweep deletes the registration of a runner that is still booting, or the
\* idle watchdog ends a runner before it connected or got the job queued for it.
Unlucky ==
    \E s \in Slots :
        \/ phase[s] \in InFlight /\ reg[s] = "offline" /\ pc = "sweepDelete" /\ reg'[s] = "none"
        \/ phase[s] = "up" /\ phase'[s] = "killed"
           /\ (reg[s] = "offline" \/ (reg[s] = "online" /\ queued[Key(s)] > 0))

\* Requests and timers fire, launch() settles once its runner is done, GitHub
\* hands a queued job to an idle matching runner, jobs end, and a runner is not
\* Unlucky again and again for ever.
LifecyclesFair ==
    /\ <>[][~Unlucky]_vars
    /\ \A r \in Repos : WF_vars(BackoffEnds(r))
    /\ \A s \in Slots :
         /\ WF_vars(JitCreated(s)) /\ WF_vars(JitReturns(s)) /\ WF_vars(LaunchUp(s))
         /\ WF_vars(RunnerConnects(s)) /\ WF_vars(AssignJob(s)) /\ WF_vars(JobEnds(s))
         /\ WF_vars(StartSeen(s)) /\ WF_vars(IdleTimeout(s))
         /\ WF_vars(LaunchSucceeds(s)) /\ WF_vars(LaunchFails(s)) /\ WF_vars(Deregister(s))

-----------------------------------------------------------------------------
(* Properties.                                                             *)

SlotsOf(f) == {s \in Launches : flavor[s] = f}
Waiting == {s \in Slots : runnerUnassigned[s]}
WaitingLike(s) == {t \in Waiting : Key(t) = Key(s)}

PollType ==
    [repos : SUBSET Repos, flavors : SUBSET Flavors, todo : SUBSET Repos, stale : SUBSET Slots,
     flavor : 0..NumFlavors, demand : Nat, unmet : SUBSET Repos, seen : [Repos -> Nat],
     target : 0..NumRepos]
DrainType == [remaining : SUBSET Slots, current : SUBSET Slots, stopped : SUBSET Slots]

CountersOK ==
    /\ active \in Nat
    /\ activeByFlavor \in [Flavors -> Nat]
    /\ unassignedByFlavor \in [Flavors -> Nat]
    /\ unassigned \in [Keys -> Nat]

LifecycleOK ==
    /\ phase \in [Slots -> Phases]
    /\ repo \in [Slots -> 0..NumRepos]
    /\ flavor \in [Slots -> 0..NumFlavors]
    /\ runnerUnassigned \in [Slots -> BOOLEAN]
    /\ reg \in [Slots -> Registrations]

\* flavor and target are set where the loop reads them.
ScopeOK ==
    /\ pc \in {"count", "counting", "recheck", "rechecked"} => poll.flavor \in Flavors
    /\ pc \in {"recheck", "rechecked"} => poll.target \in Repos

\* The type of every variable.
TypeOK ==
    /\ pc \in Awaits /\ poll \in PollType /\ ScopeOK /\ drain \in DrainType
    /\ CountersOK /\ LifecycleOK
    /\ reconciled \in BOOLEAN /\ aborted \in BOOLEAN /\ threw \in BOOLEAN
    /\ backoff \subseteq Repos /\ private \subseteq Repos
    /\ queued \in [Keys -> 0..MaxQueued]
    /\ scan \in [kept : Nat, seen : Nat]
    /\ arrivals \in 0..MaxJobs /\ faults \in 0..MaxFaults

\* The three counters and the semaphore say what the lifecycles are doing: a
\* slot is held exactly while a lifecycle is in launches, a runner is unassigned
\* exactly until its start is seen or it settles.  So no release is missed or
\* doubled and Math.max(0, ...) never hides a decrement too many.
CountersAgree ==
    /\ active = Cardinality(Launches)
    /\ \A f \in Flavors :
         /\ activeByFlavor[f] = Cardinality(SlotsOf(f))
         /\ unassignedByFlavor[f] = Cardinality({s \in Waiting : flavor[s] = f})
    /\ \A k \in Keys : unassigned[k] = Cardinality({s \in Waiting : Key(s) = k})

\* The global cap, --max and every flavor's cap hold at once, although each is
\* checked before the await of isStillPrivate and the runner starts after it.
WithinLimits ==
    /\ Cardinality(Launches) <= MaxConcurrent
    /\ Cardinality(Launches) <= MaxActiveJobs
    /\ \A f \in Flavors : Cardinality(SlotsOf(f)) <= FlavorCap[f]

\* Only lifecycles in launches wait for a job, and each has a key.
Consistent ==
    /\ Waiting \subseteq Launches
    /\ \A s \in Launches : Key(s) \in Keys

\* The limits still hold when the answer to the re-check is in, although
\* runners may have started or settled since they were looked at.
RoomAtRecheck ==
    pc \in {"recheck", "rechecked"} =>
        /\ activeByFlavor[poll.flavor] < FlavorCap[poll.flavor]
        /\ unassigned[<<poll.target, poll.flavor>>] < poll.seen[poll.target]

DampedPoll ==
    pc \in {"count", "counting"} =>
        /\ poll.unmet \intersect poll.todo = {}
        /\ \A r \in poll.unmet : unassigned[<<r, poll.flavor>>] < poll.seen[r]

\* The limits and the damping in inductive form.
IndInv ==
    /\ TypeOK /\ CountersAgree /\ WithinLimits
    /\ Consistent /\ RoomAtRecheck /\ DampedPoll

Minted(s) == phase[s] \notin InFlight /\ phase'[s] \in InFlight

\* Demand counted in one poll is damped by the runners earlier polls started:
\* with a runner that is minted, a repository and flavor has no more runners
\* waiting for a job than jobs that were queued there in the course of this
\* poll's count, however jobs and runners come and go while the requests of
\* countQueuedMatchingJobs and isStillPrivate are awaited.  (poll.seen only
\* records that number of jobs; no guard reads it.)
DampedByDemand ==
    [][\A s \in Slots :
          Minted(s) => Cardinality(WaitingLike(s)') <= poll.seen[repo'[s]]]_vars

\* Shutdown stops minting, even when the signal arrives between the decision to
\* mint and the mint.
DrainNeverMints == [][\A s \in Slots : Minted(s) => ~aborted]_vars

\* A repository that turned public after the poll listed it, or after its jobs
\* were counted, gets no runner: whatever is minted, GitHub called the target
\* private after the decision to mint for it, and only that answer's own delay
\* lies between.
MintsOnlyPrivate ==
    [][/\ \A s \in Slots : Minted(s) => pc = "rechecked" /\ repo'[s] = poll.target
       /\ pc # "rechecked" /\ pc' = "rechecked" =>
            pc = "recheck" /\ poll'.target = poll.target /\ poll.target \in private]_vars

\* No sweep, deregistration or failure path takes the runner of a running job
\* away, and neither does the idle watchdog once the start line was seen: that
\* takes a fault or the drain's deadline.  Before that line is seen the watchdog
\* may end the runner, nothing else.
SparesRunningJobs ==
    [][\A s \in Slots : reg[s] = "busy" /\ reg'[s] \notin {"busy", "used"} =>
          \/ faults' # faults \/ pc = "reapStop"
          \/ runnerUnassigned[s] /\ phase[s] = "up" /\ phase'[s] = "killed"]_vars

\* No path leaks a registration by itself: barring failures and what an earlier
\* process left, GitHub holds none for a runner whose lifecycle is over (the one
\* the deadline is reaping at this moment excepted).
NothingLeftBehind ==
    faults = 0 /\ MaxOrphans = 0 =>
        \A s \in Slots \ Launches : reg[s] = "none" \/ s \in drain.current

\* Every lifecycle whose stop() the deadline called is off GitHub when the
\* dispatcher reports dispatcher_stopped, unless something failed.
ReapedAreGone ==
    pc = "stopped" /\ faults = 0 => \A s \in drain.stopped : reg[s] \in {"none", "used"}

\* The drain ends, even when no launch ever settles.
StopsEventually == aborted ~> pc = "stopped"

\* While launches settle, every queued job of an eligible repository leaves the
\* queue, unless shutdown comes first: no wake-up is lost at the cap, no slot
\* leaks, no backoff or damping counter starves a repository or a flavor.
DemandServed ==
    LifecyclesFair =>
        \A k \in Keys : queued[k] > 0 ~> (queued[k] = 0 \/ aborted \/ k[1] \notin private)

\* The pool of runners the loop and the lifecycles together implement.
Pool == INSTANCE RunnerPool WITH
    Limit <- IF MaxConcurrent < MaxActiveJobs THEN MaxConcurrent ELSE MaxActiveJobs,
    starting <- Waiting,
    working <- Launches \ Waiting,
    kind <- [s \in Slots |-> IF s \in Launches THEN flavor[s] ELSE 0],
    open <- ~aborted

\* The dispatcher implements the abstract pool.
ImplementsPool == Pool!Spec
=============================================================================
