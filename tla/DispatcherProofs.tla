-------------------------- MODULE DispatcherProofs --------------------------
(***************************************************************************)
(* Theorems about Dispatcher, for every number of repositories, flavors,   *)
(* runners and jobs and every value of the limits.                         *)
(***************************************************************************)
EXTENDS Dispatcher, FiniteSetTheorems, TLAPS

LEMMA FirstIsMember ==
    ASSUME NEW x, NEW S, IsFirst(x, S)
    PROVE  x \in S
BY DEF IsFirst

LEMMA NoPollType == NoPoll \in PollType
BY SizesAssumption DEF NoPoll, PollType, Repos, Flavors

LEMMA NoDrainType == NoDrain \in DrainType
BY DEF NoDrain, DrainType

\* What every action of the loop establishes about the loop's own variables.
LoopOK == pc \in Awaits /\ poll \in PollType /\ ScopeOK

LEMMA WaitType ==
    ASSUME WaitForNextPoll
    PROVE  LoopOK'
BY NoPollType DEF WaitForNextPoll, LoopOK, ScopeOK, Awaits

LEMMA HookType ==
    ASSUME pc' = "hook", poll' = NoPoll
    PROVE  LoopOK'
BY NoPollType DEF LoopOK, ScopeOK, Awaits

LEMMA NextFlavorType ==
    ASSUME TypeOK, NEW p \in PollType, NEW f, NextFlavor(p, f)
    PROVE  LoopOK'
<1>1. CASE WaitForNextPoll
  BY <1>1, WaitType
<1>2. CASE \E g \in Flavors :
             /\ pc' = "count"
             /\ poll' = [NoPoll EXCEPT !.repos = p.repos, !.flavors = p.flavors,
                                       !.todo = p.repos, !.flavor = g]
  <2>1. PICK g \in Flavors :
             /\ pc' = "count"
             /\ poll' = [NoPoll EXCEPT !.repos = p.repos, !.flavors = p.flavors,
                                       !.todo = p.repos, !.flavor = g]
    BY <1>2
  <2>2. g \in 0..NumFlavors
    BY SizesAssumption DEF Flavors
  <2>3. p.repos \in SUBSET Repos /\ p.flavors \in SUBSET Flavors
    BY DEF PollType
  <2>4. poll' \in PollType /\ poll'.flavor = g
    BY <2>1, <2>2, <2>3, NoPollType DEF PollType
  <2> QED
    BY <2>1, <2>4 DEF Awaits, LoopOK, ScopeOK
<1>3. {g \in p.flavors : g > f} \subseteq Flavors
  BY DEF PollType
<1> QED
  BY <1>1, <1>2, <1>3, FirstIsMember DEF NextFlavor

LEMMA DecideType ==
    ASSUME TypeOK, poll.flavor \in Flavors, NEW d, NEW u \in SUBSET Repos,
           NEW v \in [Repos -> Nat], Decide(d, u, v)
    PROVE  LoopOK'
<1>1. poll \in PollType
  BY DEF TypeOK
<1>2. CASE NextFlavor(poll, poll.flavor)
  BY <1>1, <1>2, NextFlavorType
<1>3. CASE \E r \in Repos :
             /\ pc' = "recheck"
             /\ poll' = [NoPoll EXCEPT !.repos = poll.repos, !.flavors = poll.flavors,
                                       !.flavor = poll.flavor, !.target = r,
                                       !.seen[r] = v[r]]
  <2>1. PICK r \in Repos :
             /\ pc' = "recheck"
             /\ poll' = [NoPoll EXCEPT !.repos = poll.repos, !.flavors = poll.flavors,
                                       !.flavor = poll.flavor, !.target = r,
                                       !.seen[r] = v[r]]
    BY <1>3
  <2>2. r \in 0..NumRepos
    BY SizesAssumption DEF Repos
  <2>3. /\ poll.repos \in SUBSET Repos /\ poll.flavors \in SUBSET Flavors
        /\ poll.flavor \in 0..NumFlavors
    BY <1>1 DEF PollType
  <2>4. [NoPoll.seen EXCEPT ![r] = v[r]] \in [Repos -> Nat]
    BY NoPollType DEF PollType
  <2>5. poll' \in PollType /\ poll'.flavor = poll.flavor /\ poll'.target = r
    BY <2>1, <2>2, <2>3, <2>4, NoPollType DEF PollType
  <2> QED
    BY <2>1, <2>5 DEF Awaits, LoopOK, ScopeOK
<1>4. u \ backoff \subseteq Repos
  OBVIOUS
<1> QED
  BY <1>2, <1>3, <1>4 DEF Decide

LEMMA CountedType ==
    ASSUME TypeOK, poll.flavor \in Flavors, NEW r, NEW d \in Nat, NEW u \in SUBSET Repos,
           NEW v \in [Repos -> Nat], Counted(r, d, u, v)
    PROVE  LoopOK'
<1>1. poll \in PollType
  BY DEF TypeOK
<1>2. CASE Decide(d, u, v)
  BY <1>2, DecideType
<1>3. CASE /\ pc' = "count"
           /\ poll' = [poll EXCEPT !.todo = poll.todo \ {r}, !.demand = d, !.unmet = u, !.seen = v]
  <2>2. poll.todo \ {r} \in SUBSET Repos
    BY <1>1 DEF PollType
  <2>3. poll' \in PollType /\ poll'.flavor = poll.flavor
    BY <1>1, <1>3, <2>2 DEF PollType
  <2> QED
    BY <1>3, <2>3 DEF Awaits, LoopOK, ScopeOK
<1> QED
  BY <1>2, <1>3 DEF Counted

-----------------------------------------------------------------------------
(* Type correctness.                                                       *)

LEMMA FaultsType ==
    ASSUME TypeOK, Fault \/ NoFault
    PROVE  faults' \in 0..MaxFaults
BY SizesAssumption DEF TypeOK, Fault, NoFault

LEMMA DecrementType ==
    ASSUME TypeOK, NEW s \in Slots, DecrementUnassignedOnce(s)
    PROVE  /\ unassignedByFlavor' \in [Flavors -> Nat]
           /\ unassigned' \in [Keys -> Nat]
           /\ runnerUnassigned' \in [Slots -> BOOLEAN]
<1>1. \A n \in Nat : Decremented(n) \in Nat
  BY DEF Decremented
<1>2. unassignedByFlavor' \in [Flavors -> Nat]
  BY <1>1 DEF TypeOK, CountersOK, DecrementUnassignedOnce
<1>3. unassigned' \in [Keys -> Nat]
  BY <1>1 DEF TypeOK, CountersOK, DecrementUnassignedOnce
<1> QED
  BY <1>2, <1>3 DEF TypeOK, LifecycleOK, DecrementUnassignedOnce

LEMMA DeleteType ==
    ASSUME TypeOK, NEW s \in Slots, Delete(s)
    PROVE  LifecycleOK'
<1>1. reg' \in [Slots -> Registrations]
  BY DEF TypeOK, LifecycleOK, Delete, Removed, Registrations
<1>2. phase' \in [Slots -> Phases]
  BY DEF TypeOK, LifecycleOK, Delete, Phases
<1>3. repo' \in [Slots -> 0..NumRepos] /\ flavor' \in [Slots -> 0..NumFlavors]
  BY SizesAssumption DEF TypeOK, LifecycleOK, Delete
<1> QED
  BY <1>1, <1>2, <1>3 DEF TypeOK, LifecycleOK, Delete

LEMMA KillType ==
    ASSUME TypeOK, NEW s \in Slots, Kill(s)
    PROVE  LifecycleOK'
BY DEF TypeOK, LifecycleOK, Kill, Lost, Registrations, Phases, InFlight

LEMMA ReapNextType ==
    ASSUME TypeOK, NEW left \in SUBSET Slots, NEW d \in DrainType, ReapNext(left, d)
    PROVE  pc' \in Awaits /\ drain' \in DrainType
<1>1. CASE pc' = "reapWait" /\ drain' = [d EXCEPT !.remaining = {}, !.current = {}]
  BY <1>1 DEF Awaits, DrainType
<1>2. CASE \E s \in left :
             pc' = "reapStop" /\ drain' = [d EXCEPT !.remaining = left \ {s}, !.current = {s}]
  BY <1>2 DEF Awaits, DrainType
<1> QED
  BY <1>1, <1>2 DEF ReapNext

LEMMA InitType == Init => TypeOK
<1> SUFFICES ASSUME Init PROVE TypeOK
  OBVIOUS
<1>1. pc \in Awaits /\ poll \in PollType /\ ScopeOK /\ drain \in DrainType
  BY NoPollType, NoDrainType DEF Init, Awaits, ScopeOK
<1>2. CountersOK
  BY DEF Init, CountersOK
<1>3. LifecycleOK
  BY DEF Init, LifecycleOK, Phases, InFlight, Registrations
<1> QED
  <2>1. /\ backoff \subseteq Repos /\ private \subseteq Repos
        /\ reconciled \in BOOLEAN /\ aborted \in BOOLEAN /\ threw \in BOOLEAN
    BY DEF Init
  <2>2. queued \in [Keys -> 0..MaxQueued]
    BY SizesAssumption DEF Init
  <2>3. /\ scan \in [kept : Nat, seen : Nat]
        /\ arrivals \in 0..MaxJobs /\ faults \in 0..MaxFaults
    BY SizesAssumption DEF Init, NoScan
  <2> QED
    BY <1>1, <1>2, <1>3, <2>1, <2>2, <2>3 DEF TypeOK

\* The actions of one poll.
LEMMA PollStepType ==
    ASSUME TypeOK,
           \/ ListRepos \/ DetectFlavors \/ SweepList \/ SweepDelete \/ SweepDone
           \/ CountAsk \/ CountFails \/ CountReply \/ RecheckAsk \/ RecheckDenied \/ RecheckAborted \/ Claim
    PROVE  TypeOK'
<1> USE DEF counters, lifecycle, jobs
<1>0. poll \in PollType /\ drain \in DrainType
  BY DEF TypeOK
<1>1. CASE ListRepos
  <2>1. faults' \in 0..MaxFaults
    BY <1>1, FaultsType DEF ListRepos
  <2>2. LoopOK'
    <3>1. CASE pc' = "detect" /\ poll' = [NoPoll EXCEPT !.repos = private]
      BY <3>1, NoPollType DEF TypeOK, LoopOK, ScopeOK, PollType, Awaits
    <3> QED
      BY <1>1, <3>1, WaitType DEF ListRepos
  <2> QED
    BY <1>1, <2>1, <2>2 DEF ListRepos, TypeOK, CountersOK, LifecycleOK, LoopOK
<1>2. CASE DetectFlavors
  <2>1. PICK usable \in SUBSET Flavors :
          /\ IF usable = Flavors THEN NoFault ELSE Fault
          /\ LET p == [poll EXCEPT !.flavors = usable] IN
             \/ pc' = "sweepList" /\ poll' = [p EXCEPT !.todo = p.repos]
             \/ /\ reconciled
                /\ IF aborted THEN pc' = "hook" /\ poll' = NoPoll ELSE NextFlavor(p, 0)
    BY <1>2 DEF DetectFlavors
  <2>2. faults' \in 0..MaxFaults
    BY <2>1, FaultsType
  <2> DEFINE p == [poll EXCEPT !.flavors = usable]
  <2>3. p \in PollType /\ [p EXCEPT !.todo = p.repos] \in PollType
    BY <1>0 DEF PollType
  <2>4. LoopOK'
    <3>1. CASE pc' = "sweepList" /\ poll' = [p EXCEPT !.todo = p.repos]
      BY <3>1, <2>3 DEF Awaits, LoopOK, ScopeOK
    <3>3. CASE NextFlavor(p, 0)
      BY <3>3, <2>3, NextFlavorType
    <3> QED
      BY <2>1, <3>1, HookType, <3>3
  <2> QED
    BY <1>2, <2>2, <2>4 DEF DetectFlavors, TypeOK, CountersOK, LifecycleOK, LoopOK
<1>3. CASE SweepList
  <2>1. PICK r \in poll.todo :
          LET stale == {s \in Slots : repo[s] = r /\ flavor[s] \in poll.flavors /\ reg[s] = "offline"}
              next(picked) == [poll EXCEPT !.todo = @ \ {r}, !.stale = picked]
          IN \/ /\ NoFault
                /\ pc' = IF stale = {} THEN "sweepList" ELSE "sweepDelete"
                /\ poll' = next(stale)
             \/ Fault /\ pc' = pc /\ poll' = next({})
    BY <1>3 DEF SweepList
  <2>2. faults' \in 0..MaxFaults
    BY <2>1, FaultsType
  <2>3. pc' \in {"sweepList", "sweepDelete"}
    BY <1>3, <2>1 DEF SweepList
  <2>4. \A picked \in SUBSET Slots : [poll EXCEPT !.todo = @ \ {r}, !.stale = picked] \in PollType
    BY <1>0 DEF PollType
  <2>5. poll' \in PollType
    BY <2>1, <2>4
  <2>6. LoopOK'
    BY <2>3, <2>5 DEF LoopOK, ScopeOK, Awaits
  <2> QED
    BY <1>3, <2>2, <2>6 DEF SweepList, TypeOK, CountersOK, LifecycleOK, LoopOK
<1>4. CASE SweepDelete
  <2>1. PICK s \in poll.stale :
          /\ \/ Delete(s) /\ NoFault
             \/ Fault /\ UNCHANGED <<lifecycle, reg>>
          /\ poll' = [poll EXCEPT !.stale = @ \ {s}]
          /\ pc' = IF poll.stale = {s} THEN "sweepList" ELSE pc
    BY <1>4 DEF SweepDelete
  <2>2. s \in Slots
    BY <1>0 DEF PollType
  <2>3. faults' \in 0..MaxFaults
    BY <2>1, FaultsType
  <2>4. pc' \in {"sweepList", "sweepDelete"} /\ poll' \in PollType
    BY <1>0, <1>4, <2>1 DEF SweepDelete, PollType
  <2>5. LifecycleOK'
    <3>1. CASE Delete(s)
      BY <2>2, <3>1, DeleteType
    <3>2. CASE UNCHANGED <<lifecycle, reg>>
      BY <3>2 DEF TypeOK, LifecycleOK
    <3> QED
      BY <2>1, <3>1, <3>2
  <2>6. LoopOK'
    BY <2>4 DEF LoopOK, ScopeOK, Awaits
  <2> QED
    BY <1>4, <2>3, <2>5, <2>6 DEF SweepDelete, TypeOK, CountersOK, LoopOK
<1>5. CASE SweepDone
  <2>1. LoopOK'
    BY <1>0, <1>5, HookType, NextFlavorType DEF SweepDone
  <2> QED
    BY <1>5, <2>1 DEF SweepDone, TypeOK, CountersOK, LifecycleOK, LoopOK
<1>6. CASE CountAsk
  <2>1. PICK r \in poll.todo :
          scan' = [kept |-> queued[<<r, poll.flavor>>], seen |-> queued[<<r, poll.flavor>>]]
    BY <1>6 DEF CountAsk
  <2>2. poll.flavor \in Flavors /\ r \in Repos
    BY <1>0, <1>6 DEF CountAsk, TypeOK, ScopeOK, PollType
  <2>3. queued[<<r, poll.flavor>>] \in Nat
    BY <2>2, SizesAssumption DEF TypeOK, Keys
  <2>4. scan' \in [kept : Nat, seen : Nat]
    BY <2>1, <2>3
  <2>5. LoopOK'
    BY <1>0, <1>6, <2>2 DEF CountAsk, LoopOK, ScopeOK, Awaits
  <2> QED
    BY <1>6, <2>4, <2>5 DEF CountAsk, TypeOK, CountersOK, LifecycleOK, LoopOK
<1>14. CASE CountFails
  <2>1. PICK r \in poll.todo : Counted(r, poll.demand, poll.unmet, poll.seen)
    BY <1>14 DEF CountFails
  <2>2. faults' \in 0..MaxFaults
    BY <1>14, FaultsType DEF CountFails
  <2>3. /\ poll.flavor \in Flavors /\ poll.demand \in Nat /\ poll.unmet \in SUBSET Repos
        /\ poll.seen \in [Repos -> Nat]
    BY <1>0, <1>14 DEF CountFails, TypeOK, ScopeOK, PollType
  <2>4. LoopOK'
    BY <2>1, <2>3, CountedType
  <2>5. scan' \in [kept : Nat, seen : Nat]
    BY <1>14 DEF CountFails, NoScan
  <2> QED
    BY <1>14, <2>2, <2>4, <2>5 DEF CountFails, TypeOK, CountersOK, LifecycleOK, LoopOK
<1>7. CASE CountReply
  <2>1. PICK r \in poll.todo, n \in scan.kept..scan.seen :
          Counted(r, poll.demand + n, IF Unmet(n, r) THEN poll.unmet \union {r} ELSE poll.unmet,
                  [poll.seen EXCEPT ![r] = scan.seen])
    BY <1>7 DEF CountReply
  <2>2. n \in Nat /\ scan.seen \in Nat /\ r \in Repos
    BY <1>0, <2>1 DEF TypeOK, PollType
  <2>3. /\ poll.flavor \in Flavors /\ poll.demand + n \in Nat
        /\ (IF Unmet(n, r) THEN poll.unmet \union {r} ELSE poll.unmet) \in SUBSET Repos
        /\ [poll.seen EXCEPT ![r] = scan.seen] \in [Repos -> Nat]
    BY <1>0, <1>7, <2>2 DEF CountReply, TypeOK, ScopeOK, PollType
  <2>4. LoopOK'
    BY <2>1, <2>3, CountedType
  <2>5. scan' \in [kept : Nat, seen : Nat]
    BY <1>7 DEF CountReply, NoScan
  <2> QED
    BY <1>7, <2>4, <2>5 DEF CountReply, TypeOK, CountersOK, LifecycleOK, LoopOK
<1>8. CASE RecheckDenied
  <2>1. LoopOK' /\ faults' \in 0..MaxFaults
    BY <1>0, <1>8, NextFlavorType, FaultsType DEF RecheckDenied
  <2> QED
    BY <1>8, <2>1 DEF RecheckDenied, TypeOK, CountersOK, LifecycleOK, LoopOK
<1>9. CASE RecheckAborted
  <2>1. LoopOK'
    BY <1>9, HookType DEF RecheckAborted
  <2> QED
    BY <1>9, <2>1 DEF RecheckAborted, TypeOK, CountersOK, LifecycleOK, LoopOK
<1>10. CASE Claim
  <2>1. CASE WaitForNextPoll /\ UNCHANGED <<counters, lifecycle>>
    BY <1>10, <2>1, WaitType DEF Claim, TypeOK, CountersOK, LifecycleOK, LoopOK
  <2>2. CASE /\ \E s \in Slots : Mint(s, poll.target, poll.flavor)
             /\ pc' = "claimedWait" /\ poll' = NoPoll
    <3>1. PICK s \in Slots : Mint(s, poll.target, poll.flavor)
      BY <2>2
    <3>2. poll.target \in Repos /\ poll.flavor \in Flavors
      BY <1>10 DEF Claim, TypeOK, ScopeOK
    <3>3. CountersOK'
      BY <3>1, <3>2 DEF Mint, TypeOK, CountersOK, Keys
    <3>4. repo' \in [Slots -> 0..NumRepos] /\ flavor' \in [Slots -> 0..NumFlavors]
      BY <1>0, <3>1 DEF Mint, TypeOK, LifecycleOK, PollType
    <3>5. LifecycleOK'
      BY <1>10, <3>1, <3>4 DEF Claim, Mint, TypeOK, LifecycleOK, Phases, InFlight
    <3>6. LoopOK'
      BY <2>2, NoPollType DEF LoopOK, ScopeOK, Awaits
    <3> QED
      BY <1>10, <3>3, <3>5, <3>6 DEF Claim, TypeOK, LoopOK
  <2> QED
    BY <1>10, <2>1, <2>2 DEF Claim
<1>11. CASE RecheckAsk
  BY <1>11 DEF RecheckAsk, TypeOK, CountersOK, LifecycleOK, ScopeOK, Awaits
<1> QED
  BY <1>1, <1>2, <1>3, <1>4, <1>5, <1>6, <1>7, <1>8, <1>9, <1>10, <1>11, <1>14

\* Waits and drain: the rest of the loop.
LEMMA DrainStepType ==
    ASSUME TypeOK,
           \/ ClaimTimer \/ PollTimer \/ CapWaitAborted
           \/ LeaveLoop \/ HookDone \/ DrainSettled \/ DrainDeadline
           \/ ReapStop \/ ReapDelete \/ ReapTimer
    PROVE  TypeOK'
<1> USE DEF counters, lifecycle, jobs
<1>0. poll \in PollType /\ drain \in DrainType
  BY DEF TypeOK
<1>1. CASE \/ ClaimTimer \/ PollTimer \/ CapWaitAborted
           \/ LeaveLoop \/ HookDone \/ DrainSettled \/ ReapTimer
  <2>1. pc' \in {"capWait", "list", "hook", "stopped", "draining"} /\ poll' = poll
    BY <1>1 DEF ClaimTimer, PollTimer, CapWaitAborted, LeaveLoop, HookDone, DrainSettled, ReapTimer
  <2>2. LoopOK'
    BY <1>0, <2>1 DEF LoopOK, ScopeOK, Awaits
  <2>3. UNCHANGED <<reconciled, backoff, aborted, threw, drain, counters, lifecycle, reg, jobs, faults>>
    BY <1>1 DEF ClaimTimer, PollTimer, CapWaitAborted, LeaveLoop, HookDone, DrainSettled, ReapTimer
  <2> QED
    BY <2>2, <2>3 DEF TypeOK, CountersOK, LifecycleOK, LoopOK
<1>2. ASSUME NEW left \in SUBSET Slots, ReapNext(left, drain), poll' = poll
      PROVE  LoopOK' /\ drain' \in DrainType
  <2>1. pc' \in Awaits /\ drain' \in DrainType
    BY <1>0, <1>2, ReapNextType
  <2>2. pc' \in {"reapWait", "reapStop"}
    BY <1>2 DEF ReapNext
  <2> QED
    BY <1>0, <1>2, <2>1, <2>2 DEF LoopOK, ScopeOK
<1>3. CASE DrainDeadline
  <2>1. Launches \in SUBSET Slots
    BY DEF Launches
  <2>2. LoopOK' /\ drain' \in DrainType
    BY <1>2, <1>3, <2>1 DEF DrainDeadline
  <2> QED
    BY <1>3, <2>2 DEF DrainDeadline, TypeOK, CountersOK, LifecycleOK, LoopOK
<1>4. CASE ReapStop
  <2>1. PICK s \in drain.current :
         \/ /\ phase[s] = "up" /\ NoFault
            /\ Kill(s)
            /\ drain' = [drain EXCEPT !.stopped = @ \union {s}]
         \/ /\ IF phase[s] = "up" THEN Fault ELSE NoFault
            /\ UNCHANGED <<drain, lifecycle, reg>>
    BY <1>4 DEF ReapStop
  <2>2. s \in Slots
    BY <1>0 DEF DrainType
  <2>3. faults' \in 0..MaxFaults
    BY <2>1, FaultsType
  <2>4. drain' \in DrainType
    BY <1>0, <2>1, <2>2 DEF DrainType
  <2>5. LifecycleOK'
    <3>1. CASE Kill(s)
      BY <2>2, <3>1, KillType
    <3>2. CASE UNCHANGED <<lifecycle, reg>>
      BY <3>2 DEF TypeOK, LifecycleOK
    <3> QED
      BY <2>1, <3>1, <3>2
  <2>6. LoopOK'
    BY <1>0, <1>4 DEF ReapStop, LoopOK, ScopeOK, Awaits
  <2> QED
    BY <1>4, <2>3, <2>4, <2>5, <2>6 DEF ReapStop, TypeOK, CountersOK, LoopOK
<1>5. CASE ReapDelete
  <2>1. PICK s \in drain.current :
         IF phase[s] \in {"requesting", "created", "free"}
         THEN NoFault /\ UNCHANGED <<lifecycle, reg>>
         ELSE \/ Delete(s) /\ NoFault
              \/ Fault /\ UNCHANGED <<lifecycle, reg>>
    BY <1>5 DEF ReapDelete
  <2>2. s \in Slots /\ drain.remaining \in SUBSET Slots
    BY <1>0 DEF DrainType
  <2>3. faults' \in 0..MaxFaults
    BY <2>1, FaultsType
  <2>4. LoopOK' /\ drain' \in DrainType
    BY <1>2, <1>5, <2>2 DEF ReapDelete
  <2>5. LifecycleOK'
    <3>1. CASE Delete(s)
      BY <2>2, <3>1, DeleteType
    <3>2. CASE UNCHANGED <<lifecycle, reg>>
      BY <3>2 DEF TypeOK, LifecycleOK
    <3> QED
      BY <2>1, <3>1, <3>2
  <2> QED
    BY <1>5, <2>3, <2>4, <2>5 DEF ReapDelete, TypeOK, CountersOK, LoopOK
<1> QED
  BY <1>1, <1>3, <1>4, <1>5

LEMMA SettleType ==
    ASSUME TypeOK, active > 0, NEW s \in Slots, NEW left \in Registrations, NEW known \in BOOLEAN,
           flavor[s] \in Flavors, Settle(s, left, known), poll' = poll
    PROVE  LoopOK' /\ CountersOK' /\ LifecycleOK'
<1>1. LoopOK'
  BY DEF Settle, Notify, LoopOK, TypeOK, ScopeOK, Awaits
<1>2. \A n \in Nat : Decremented(n) \in Nat
  BY DEF Decremented
<1>3. activeByFlavor' \in [Flavors -> Nat] /\ active' \in Nat
  BY <1>2 DEF Settle, Release, TypeOK, CountersOK
<1>4. CountersOK'
  BY <1>3, DecrementType DEF Settle, CountersOK
<1>5. phase' \in [Slots -> Phases]
  BY DEF Settle, TypeOK, LifecycleOK, Phases
<1>6. repo' \in [Slots -> 0..NumRepos] /\ flavor' \in [Slots -> 0..NumFlavors]
  BY SizesAssumption DEF Settle, TypeOK, LifecycleOK
<1>7. LifecycleOK'
  BY <1>5, <1>6, DecrementType DEF Settle, TypeOK, LifecycleOK
<1> QED
  BY <1>1, <1>4, <1>7

-----------------------------------------------------------------------------
(* Counters and limits.  A step is quiet, or mints, or sees a start, or    *)
(* settles: each kind is treated once.                                     *)

WaitingOf(f) == {s \in Waiting : flavor[s] = f}
WaitingFor(k) == {s \in Waiting : Key(s) = k}

\* What the counters have to satisfy, apart from the loop's variables.
Agreement == CountersAgree /\ WithinLimits /\ Consistent

\* No lifecycle enters or leaves launches, and no counter moves.
Quiet ==
    /\ UNCHANGED <<counters, runnerUnassigned>>
    /\ \A s \in Slots : phase'[s] \in InFlight <=> phase[s] \in InFlight
    /\ \A s \in Launches : repo'[s] = repo[s] /\ flavor'[s] = flavor[s]

LEMMA FiniteSlots ==
    /\ IsFiniteSet(Launches) /\ IsFiniteSet(Waiting)
    /\ \A f : IsFiniteSet(SlotsOf(f)) /\ IsFiniteSet(WaitingOf(f))
    /\ \A k : IsFiniteSet(WaitingFor(k))
<1>1. \A S \in SUBSET Slots : IsFiniteSet(S)
  BY FS_Subset, SizesAssumption
<1> QED
  BY <1>1 DEF Launches, Waiting, SlotsOf, WaitingOf, WaitingFor

LEMMA QuietAgreement ==
    ASSUME Agreement, Quiet
    PROVE  Agreement'
<1>1. Launches' = Launches /\ Waiting' = Waiting
  BY DEF Quiet, Launches, Waiting
<1>2. \A s \in Launches : Key(s)' = Key(s) /\ flavor'[s] = flavor[s]
  BY DEF Quiet, Key
<1>3. \A f : SlotsOf(f)' = SlotsOf(f)
  BY <1>1, <1>2 DEF SlotsOf
<1>4. Waiting \subseteq Launches
  BY DEF Agreement, Consistent
<1>5. \A f : WaitingOf(f)' = WaitingOf(f)
  BY <1>1, <1>2, <1>4 DEF WaitingOf
<1>6. \A k : WaitingFor(k)' = WaitingFor(k)
  BY <1>1, <1>2, <1>4 DEF WaitingFor
<1>7. CountersAgree'
  BY <1>1, <1>3, <1>5, <1>6 DEF Agreement, CountersAgree, WaitingOf, WaitingFor, Quiet, counters
<1>8. WithinLimits'
  BY <1>1, <1>3 DEF Agreement, WithinLimits
<1>10. Consistent'
  BY <1>1, <1>2 DEF Agreement, Consistent
<1> QED
  BY <1>7, <1>8, <1>10 DEF Agreement

\* The decrement is exact: the runner it is for is counted.
LEMMA DecrementExact ==
    ASSUME TypeOK, Agreement, NEW s \in Launches, runnerUnassigned[s],
           DecrementUnassignedOnce(s)
    PROVE  /\ \A f \in Flavors : unassignedByFlavor'[f] = Cardinality(WaitingOf(f) \ {s})
           /\ \A k \in Keys : unassigned'[k] = Cardinality(WaitingFor(k) \ {s})
<1>1. s \in Slots /\ s \in Waiting
  BY DEF Launches, Waiting
<1>2. flavor[s] \in Flavors /\ Key(s) \in Keys
  BY DEF Agreement, Consistent, Key, Keys
<1>3. ASSUME NEW f \in Flavors
      PROVE  unassignedByFlavor'[f] = Cardinality(WaitingOf(f) \ {s})
  <2>1. unassignedByFlavor[f] = Cardinality(WaitingOf(f)) /\ unassignedByFlavor[f] \in Nat
    BY DEF Agreement, CountersAgree, WaitingOf, TypeOK, CountersOK
  <2>2. Cardinality(WaitingOf(f) \ {s})
          = IF flavor[s] = f THEN Cardinality(WaitingOf(f)) - 1 ELSE Cardinality(WaitingOf(f))
    <3>1. s \in WaitingOf(f) <=> flavor[s] = f
      BY <1>1 DEF WaitingOf
    <3> QED
      BY <3>1, FS_RemoveElement, FiniteSlots
  <2>3. Cardinality(WaitingOf(f) \ {s}) \in Nat
    BY FS_RemoveElement, FS_CardinalityType, FiniteSlots
  <2>4. unassignedByFlavor'[f]
          = IF flavor[s] = f THEN Decremented(unassignedByFlavor[f]) ELSE unassignedByFlavor[f]
    BY <1>2 DEF DecrementUnassignedOnce, TypeOK, CountersOK
  <2> QED
    BY <2>1, <2>2, <2>3, <2>4 DEF Decremented
<1>4. ASSUME NEW k \in Keys
      PROVE  unassigned'[k] = Cardinality(WaitingFor(k) \ {s})
  <2>1. unassigned[k] = Cardinality(WaitingFor(k)) /\ unassigned[k] \in Nat
    BY DEF Agreement, CountersAgree, WaitingFor, TypeOK, CountersOK
  <2>2. Cardinality(WaitingFor(k) \ {s})
          = IF Key(s) = k THEN Cardinality(WaitingFor(k)) - 1 ELSE Cardinality(WaitingFor(k))
    <3>1. s \in WaitingFor(k) <=> Key(s) = k
      BY <1>1 DEF WaitingFor
    <3> QED
      BY <3>1, FS_RemoveElement, FiniteSlots
  <2>3. Cardinality(WaitingFor(k) \ {s}) \in Nat
    BY FS_RemoveElement, FS_CardinalityType, FiniteSlots
  <2>4. unassigned'[k] = IF Key(s) = k THEN Decremented(unassigned[k]) ELSE unassigned[k]
    BY <1>2 DEF DecrementUnassignedOnce, TypeOK, CountersOK
  <2> QED
    BY <2>1, <2>2, <2>3, <2>4 DEF Decremented
<1> QED
  BY <1>3, <1>4

\* A start is seen: launches stay, one runner less waits.
LEMMA StartAgreement ==
    ASSUME TypeOK, Agreement, NEW s \in Launches, runnerUnassigned[s],
           DecrementUnassignedOnce(s), UNCHANGED <<active, activeByFlavor, phase, repo, flavor>>
    PROVE  Agreement'
<1>1. Launches' = Launches /\ Waiting' = Waiting \ {s}
  BY DEF Launches, Waiting, DecrementUnassignedOnce, TypeOK, LifecycleOK
<1>2. \A t \in Slots : Key(t)' = Key(t)
  BY DEF Key
<1>3. \A f : SlotsOf(f)' = SlotsOf(f) /\ WaitingOf(f)' = WaitingOf(f) \ {s}
  BY <1>1 DEF SlotsOf, WaitingOf
<1>4. \A k : WaitingFor(k)' = WaitingFor(k) \ {s}
  BY <1>1, <1>2 DEF WaitingFor, Waiting
<1>5. CountersAgree'
  BY <1>1, <1>3, <1>4, DecrementExact DEF Agreement, CountersAgree, WaitingOf, WaitingFor
<1>6. WithinLimits'
  BY <1>1, <1>3 DEF Agreement, WithinLimits
<1>8. Consistent'
  BY <1>1, <1>2 DEF Agreement, Consistent, Launches
<1> QED
  BY <1>5, <1>6, <1>8 DEF Agreement

\* A lifecycle settles: it leaves launches and, if it still waited, the waiting.
LEMMA SettleAgreement ==
    ASSUME TypeOK, Agreement, NEW s \in Launches, NEW left, NEW known,
           Settle(s, left, known)
    PROVE  Agreement'
<1>1. s \in Slots /\ flavor[s] \in Flavors /\ Key(s) \in Keys
  BY DEF Launches, Agreement, Consistent, Key, Keys
<1>2. Launches' = Launches \ {s}
  BY DEF Launches, Settle, TypeOK, LifecycleOK, InFlight
<1>3. Waiting' = Waiting \ {s}
  BY DEF Waiting, Settle, DecrementUnassignedOnce, TypeOK, LifecycleOK
<1>4. \A t \in Slots \ {s} : flavor'[t] = flavor[t] /\ Key(t)' = Key(t)
  BY DEF Settle, Key, TypeOK, LifecycleOK
<1>5. \A f : SlotsOf(f)' = SlotsOf(f) \ {s}
  BY <1>2, <1>4 DEF SlotsOf, Launches
<1>6. \A f : WaitingOf(f)' = WaitingOf(f) \ {s}
  BY <1>3, <1>4 DEF WaitingOf, Waiting
<1>7. \A k : WaitingFor(k)' = WaitingFor(k) \ {s}
  BY <1>3, <1>4 DEF WaitingFor, Waiting
<1>8. active' = Cardinality(Launches')
  <2>1. Cardinality(Launches \ {s}) = Cardinality(Launches) - 1
    BY FS_RemoveElement, FiniteSlots
  <2> QED
    BY <1>2, <2>1 DEF Settle, Release, Agreement, CountersAgree
<1>9. \A f \in Flavors : activeByFlavor'[f] = Cardinality(SlotsOf(f)')
  <2> SUFFICES ASSUME NEW f \in Flavors
               PROVE  activeByFlavor'[f] = Cardinality(SlotsOf(f) \ {s})
    BY <1>5
  <2>1. activeByFlavor[f] = Cardinality(SlotsOf(f)) /\ activeByFlavor[f] \in Nat
    BY DEF Agreement, CountersAgree, TypeOK, CountersOK
  <2>2. Cardinality(SlotsOf(f) \ {s})
          = IF flavor[s] = f THEN Cardinality(SlotsOf(f)) - 1 ELSE Cardinality(SlotsOf(f))
    <3>1. s \in SlotsOf(f) <=> flavor[s] = f
      BY DEF SlotsOf
    <3> QED
      BY <3>1, FS_RemoveElement, FiniteSlots
  <2>3. Cardinality(SlotsOf(f) \ {s}) \in Nat
    BY FS_RemoveElement, FS_CardinalityType, FiniteSlots
  <2>4. activeByFlavor'[f]
          = IF flavor[s] = f THEN Decremented(activeByFlavor[f]) ELSE activeByFlavor[f]
    BY <1>1 DEF Settle, Release, TypeOK, CountersOK
  <2> QED
    BY <2>1, <2>2, <2>3, <2>4 DEF Decremented
<1>10. /\ \A f \in Flavors : unassignedByFlavor'[f] = Cardinality(WaitingOf(f)')
       /\ \A k \in Keys : unassigned'[k] = Cardinality(WaitingFor(k)')
  <2>1. CASE runnerUnassigned[s]
    BY <1>6, <1>7, <2>1, DecrementExact DEF Settle
  <2>2. CASE ~runnerUnassigned[s]
    <3>1. UNCHANGED <<unassignedByFlavor, unassigned>>
      BY <2>2 DEF Settle, DecrementUnassignedOnce
    <3>2. s \notin Waiting
      BY <2>2 DEF Waiting
    <3>3. \A f : WaitingOf(f)' = WaitingOf(f)
      BY <1>6, <3>2 DEF WaitingOf
    <3>4. \A k : WaitingFor(k)' = WaitingFor(k)
      BY <1>7, <3>2 DEF WaitingFor
    <3> QED
      BY <3>1, <3>3, <3>4 DEF Agreement, CountersAgree, WaitingOf, WaitingFor
  <2> QED
    BY <2>1, <2>2
<1>11. CountersAgree'
  BY <1>8, <1>9, <1>10 DEF CountersAgree, WaitingOf, WaitingFor
<1>12. WithinLimits'
  <2>1. Cardinality(Launches') <= Cardinality(Launches)
    BY <1>2, FS_Subset, FiniteSlots
  <2>2. \A f : Cardinality(SlotsOf(f)') <= Cardinality(SlotsOf(f))
    BY <1>5, FS_Subset, FiniteSlots
  <2>3. Cardinality(Launches') \in Nat /\ Cardinality(Launches) \in Nat
    BY <1>2, FS_RemoveElement, FS_CardinalityType, FiniteSlots
  <2>4. \A f : Cardinality(SlotsOf(f)') \in Nat /\ Cardinality(SlotsOf(f)) \in Nat
    BY <1>5, FS_RemoveElement, FS_CardinalityType, FiniteSlots
  <2>5. \A f \in Flavors : Cardinality(SlotsOf(f)') <= FlavorCap[f]
    BY <2>2, <2>4, SizesAssumption DEF Agreement, WithinLimits
  <2>6. Cardinality(Launches') <= MaxConcurrent /\ Cardinality(Launches') <= MaxActiveJobs
    BY <2>1, <2>3, SizesAssumption DEF Agreement, WithinLimits
  <2> QED
    BY <2>5, <2>6 DEF WithinLimits
<1>14. Consistent'
  BY <1>2, <1>3, <1>4 DEF Agreement, Consistent, Launches
<1> QED
  BY <1>11, <1>12, <1>14 DEF Agreement

\* A mint: one lifecycle more, which waits, for a flavor and a key with room.
LEMMA MintAgreement ==
    ASSUME TypeOK, Agreement, NEW s \in Slots, NEW r \in Repos, NEW f \in Flavors,
           Mint(s, r, f), Free # 0, ~AtHardCap,
           activeByFlavor[f] < FlavorCap[f]
    PROVE  Agreement'
<1>1. s \notin Launches /\ s \notin Waiting
  BY DEF Mint, Launches, InFlight, Agreement, Consistent
<1>2. Launches' = Launches \union {s}
  BY DEF Launches, Mint, TypeOK, LifecycleOK, InFlight
<1>3. Waiting' = Waiting \union {s}
  BY DEF Waiting, Mint, TypeOK, LifecycleOK
<1>4. \A t \in Slots \ {s} : flavor'[t] = flavor[t] /\ Key(t)' = Key(t)
  BY DEF Mint, Key, TypeOK, LifecycleOK
<1>5. flavor'[s] = f /\ Key(s)' = <<r, f>> /\ <<r, f>> \in Keys
  BY DEF Mint, Key, Keys, TypeOK, LifecycleOK
<1>6. \A g : SlotsOf(g)' = IF g = f THEN SlotsOf(g) \union {s} ELSE SlotsOf(g)
  BY <1>1, <1>2, <1>4, <1>5 DEF SlotsOf, Launches
<1>7. \A g : WaitingOf(g)' = IF g = f THEN WaitingOf(g) \union {s} ELSE WaitingOf(g)
  BY <1>1, <1>3, <1>4, <1>5 DEF WaitingOf, Waiting
<1>8. \A k : WaitingFor(k)' = IF k = <<r, f>> THEN WaitingFor(k) \union {s} ELSE WaitingFor(k)
  BY <1>1, <1>3, <1>4, <1>5 DEF WaitingFor, Waiting
<1>9. /\ \A g : s \notin SlotsOf(g) /\ s \notin WaitingOf(g)
      /\ \A k : s \notin WaitingFor(k)
  BY <1>1 DEF SlotsOf, WaitingOf, WaitingFor
<1>10. /\ Cardinality(Launches') = Cardinality(Launches) + 1
       /\ \A g : Cardinality(SlotsOf(g)')
                   = IF g = f THEN Cardinality(SlotsOf(g)) + 1 ELSE Cardinality(SlotsOf(g))
       /\ \A g : Cardinality(WaitingOf(g)')
                   = IF g = f THEN Cardinality(WaitingOf(g)) + 1 ELSE Cardinality(WaitingOf(g))
       /\ \A k : Cardinality(WaitingFor(k)')
                   = IF k = <<r, f>> THEN Cardinality(WaitingFor(k)) + 1 ELSE Cardinality(WaitingFor(k))
  BY <1>1, <1>2, <1>6, <1>7, <1>8, <1>9, FS_AddElement, FiniteSlots
<1>11. /\ active = Cardinality(Launches) /\ active \in Nat
       /\ \A g \in Flavors : activeByFlavor[g] = Cardinality(SlotsOf(g)) /\ activeByFlavor[g] \in Nat
       /\ \A g \in Flavors : unassignedByFlavor[g] = Cardinality(WaitingOf(g))
       /\ \A k \in Keys : unassigned[k] = Cardinality(WaitingFor(k)) /\ unassigned[k] \in Nat
  BY DEF Agreement, CountersAgree, WaitingOf, WaitingFor, TypeOK, CountersOK
<1>12. CountersAgree'
  <2>1. active' = Cardinality(Launches')
    BY <1>10, <1>11 DEF Mint
  <2>2. \A g \in Flavors : activeByFlavor'[g] = Cardinality(SlotsOf(g)')
    BY <1>10, <1>11 DEF Mint, TypeOK, CountersOK
  <2>3. \A g \in Flavors : unassignedByFlavor'[g] = Cardinality(WaitingOf(g)')
    BY <1>10, <1>11 DEF Mint, TypeOK, CountersOK
  <2>4. \A k \in Keys : unassigned'[k] = Cardinality(WaitingFor(k)')
    BY <1>10, <1>11 DEF Mint, TypeOK, CountersOK
  <2> QED
    BY <2>1, <2>2, <2>3, <2>4 DEF CountersAgree, WaitingOf, WaitingFor
<1>13. WithinLimits'
  <2>1. Cardinality(Launches') <= MaxConcurrent /\ Cardinality(Launches') <= MaxActiveJobs
    BY <1>10, <1>11, SizesAssumption DEF Free, AtHardCap, Agreement, WithinLimits
  <2>2. \A g \in Flavors : Cardinality(SlotsOf(g)') <= FlavorCap[g]
    BY <1>10, <1>11, SizesAssumption DEF Agreement, WithinLimits
  <2> QED
    BY <2>1, <2>2 DEF WithinLimits
<1>15. Consistent'
  BY <1>2, <1>3, <1>4, <1>5 DEF Agreement, Consistent, Launches
<1> QED
  BY <1>12, <1>13, <1>15 DEF Agreement

-----------------------------------------------------------------------------
(* Type correctness of the other actions; it needs the agreement, which    *)
(* says that the semaphore is never released below zero.                   *)

LEMMA LaunchCounted ==
    ASSUME TypeOK, Agreement, NEW s \in Launches
    PROVE  active > 0 /\ s \in Slots /\ flavor[s] \in Flavors /\ repo[s] \in Repos
<1>1. Cardinality(Launches) # 0 /\ Cardinality(Launches) \in Nat
  BY FS_EmptySet, FS_CardinalityType, FiniteSlots
<1>2. active > 0
  BY <1>1 DEF Agreement, CountersAgree
<1>3. s \in Slots /\ <<repo[s], flavor[s]>> \in Keys
  BY DEF Launches, Agreement, Consistent, Key
<1> QED
  BY <1>2, <1>3 DEF Keys

LEMMA LifecycleType ==
    ASSUME TypeOK, Agreement, NEW s \in Slots, Lifecycle(s)
    PROVE  TypeOK'
<1> USE DEF counters, lifecycle, jobs
<1>0. reg[s] \in Registrations /\ "none" \in Registrations
  BY DEF TypeOK, LifecycleOK, Registrations
<1>1. ASSUME NEW left \in Registrations, NEW known \in BOOLEAN, Settle(s, left, known),
             s \in Launches, Fault \/ NoFault,
             UNCHANGED <<poll, reconciled, backoff, aborted, threw, drain, jobs>>
      PROVE  TypeOK'
  <2>1. LoopOK' /\ CountersOK' /\ LifecycleOK'
    BY <1>1, LaunchCounted, SettleType
  <2>2. faults' \in 0..MaxFaults
    BY <1>1, FaultsType
  <2> QED
    BY <1>1, <2>1, <2>2 DEF TypeOK, LoopOK
<1>2. CASE JitCreated(s)
  <2>1. LifecycleOK'
    BY <1>2 DEF JitCreated, TypeOK, LifecycleOK, Phases, InFlight, Registrations
  <2> QED
    BY <1>2, <2>1 DEF JitCreated, TypeOK, CountersOK, ScopeOK
<1>3. CASE JitReturns(s)
  <2>1. LifecycleOK'
    BY <1>3 DEF JitReturns, TypeOK, LifecycleOK, Phases, InFlight
  <2> QED
    BY <1>3, <2>1 DEF JitReturns, TypeOK, CountersOK, ScopeOK
<1>4. CASE JitFails(s)
  <2>1. s \in Launches
    BY <1>4 DEF JitFails, Launches, InFlight
  <2> QED
    BY <1>0, <1>1, <1>4, <2>1 DEF JitFails
<1>5. CASE LaunchUp(s)
  <2>1. LifecycleOK'
    BY <1>5 DEF LaunchUp, TypeOK, LifecycleOK, Phases, InFlight
  <2> QED
    BY <1>5, <2>1 DEF LaunchUp, TypeOK, CountersOK, ScopeOK
<1>6. CASE StartSeen(s)
  <2>1. CountersOK' /\ LifecycleOK'
    BY <1>6, DecrementType DEF StartSeen, TypeOK, CountersOK, LifecycleOK
  <2> QED
    BY <1>6, <2>1 DEF StartSeen, TypeOK, ScopeOK
<1>7. CASE IdleTimeout(s)
  <2>1. LifecycleOK' /\ faults' \in 0..MaxFaults
    BY <1>7, KillType, FaultsType DEF IdleTimeout
  <2> QED
    BY <1>7, <2>1 DEF IdleTimeout, TypeOK, CountersOK, ScopeOK
<1>8. CASE ResourceDies(s)
  <2>1. LifecycleOK' /\ faults' \in 0..MaxFaults
    BY <1>8, KillType, FaultsType DEF ResourceDies
  <2> QED
    BY <1>8, <2>1 DEF ResourceDies, TypeOK, CountersOK, ScopeOK
<1>9. CASE LaunchSucceeds(s)
  <2>1. s \in Launches
    BY <1>9 DEF LaunchSucceeds, Launches, InFlight
  <2> QED
    BY <1>0, <1>1, <1>9, <2>1 DEF LaunchSucceeds, NoFault
<1>10. CASE LaunchFails(s)
  <2>1. s \in Launches
    BY <1>10 DEF LaunchFails, Launches, InFlight
  <2>2. LifecycleOK'
    BY <1>10 DEF LaunchFails, TypeOK, LifecycleOK, Phases, InFlight
  <2>3. backoff' \subseteq Repos
    BY <1>10, <2>1, LaunchCounted DEF LaunchFails, TypeOK
  <2>4. faults' \in 0..MaxFaults
    BY <1>10, FaultsType DEF LaunchFails
  <2> QED
    BY <1>10, <2>2, <2>3, <2>4 DEF LaunchFails, TypeOK, CountersOK, ScopeOK
<1>11. CASE Deregister(s)
  <2>1. s \in Launches
    BY <1>11 DEF Deregister, Launches, InFlight
  <2> QED
    BY <1>0, <1>1, <1>11, <2>1 DEF Deregister
<1> QED
  BY <1>2, <1>3, <1>4, <1>5, <1>6, <1>7, <1>8, <1>9, <1>10, <1>11 DEF Lifecycle

LEMMA DequeueType ==
    ASSUME TypeOK, NEW k, Dequeue(k)
    PROVE  queued' \in [Keys -> 0..MaxQueued] /\ scan' \in [kept : Nat, seen : Nat]
<1>1. queued' \in [Keys -> 0..MaxQueued]
  <2>1. CASE k \in Keys
    BY <2>1, SizesAssumption DEF Dequeue, TypeOK
  <2>2. CASE k \notin Keys
    BY <2>2 DEF Dequeue, TypeOK
  <2> QED
    BY <2>1, <2>2
<1>2. CASE UNCHANGED scan
  BY <1>1, <1>2 DEF TypeOK
<1>3. CASE scan.kept > 0 /\ scan' = [scan EXCEPT !.kept = @ - 1]
  BY <1>1, <1>3 DEF TypeOK
<1>4. CASE scan' = [scan EXCEPT !.kept = @]
  BY <1>1, <1>4 DEF TypeOK
<1> QED
  BY <1>2, <1>3, <1>4 DEF Dequeue

LEMMA EnvironmentType ==
    ASSUME TypeOK, Environment
    PROVE  TypeOK'
<1> USE DEF counters, lifecycle, jobs
<1>1. CASE Abort
  BY <1>1 DEF Abort, TypeOK, CountersOK, LifecycleOK, ScopeOK
<1>2. CASE \E r \in Repos : BackoffEnds(r)
  BY <1>2 DEF BackoffEnds, TypeOK, CountersOK, LifecycleOK, ScopeOK
<1>3. CASE \E r \in Repos : TurnsPublic(r)
  <2>1. faults' \in 0..MaxFaults /\ private' \subseteq Repos
    BY <1>3, FaultsType DEF TurnsPublic, TypeOK
  <2> QED
    BY <1>3, <2>1 DEF TurnsPublic, TypeOK, CountersOK, LifecycleOK, ScopeOK
<1>4. CASE \E k \in Keys : JobArrives(k)
  <2>1. queued' \in [Keys -> 0..MaxQueued] /\ arrivals' \in 0..MaxJobs
    BY <1>4, SizesAssumption DEF JobArrives, TypeOK
  <2>2. scan' \in [kept : Nat, seen : Nat]
    BY <1>4 DEF JobArrives, TypeOK
  <2> QED
    BY <1>4, <2>1, <2>2 DEF JobArrives, TypeOK, CountersOK, LifecycleOK, ScopeOK
<1>5. CASE \E k \in Keys : JobCancelled(k)
  <2>1. PICK k \in Keys : Dequeue(k)
    BY <1>5 DEF JobCancelled
  <2>2. queued' \in [Keys -> 0..MaxQueued] /\ scan' \in [kept : Nat, seen : Nat]
    BY <2>1, DequeueType
  <2> QED
    BY <1>5, <2>2 DEF JobCancelled, Dequeue, TypeOK, CountersOK, LifecycleOK, ScopeOK
<1>6. CASE \E s \in Slots : RunnerConnects(s) \/ JobEnds(s)
  <2>1. reg' \in [Slots -> Registrations]
    BY <1>6 DEF RunnerConnects, JobEnds, TypeOK, LifecycleOK, Registrations
  <2> QED
    BY <1>6, <2>1 DEF RunnerConnects, JobEnds, TypeOK, CountersOK, LifecycleOK, ScopeOK
<1>7. CASE \E s \in Slots : AssignJob(s)
  <2>1. PICK s \in Slots : AssignJob(s)
    BY <1>7
  <2>2. reg' \in [Slots -> Registrations]
    BY <2>1 DEF AssignJob, TypeOK, LifecycleOK, Registrations
  <2>3. queued' \in [Keys -> 0..MaxQueued] /\ scan' \in [kept : Nat, seen : Nat]
    BY <2>1, DequeueType DEF AssignJob
  <2> QED
    BY <2>1, <2>2, <2>3 DEF AssignJob, Dequeue, TypeOK, CountersOK, LifecycleOK, ScopeOK
<1> QED
  BY <1>1, <1>2, <1>3, <1>4, <1>5, <1>6, <1>7 DEF Environment

LEMMA NextType ==
    ASSUME TypeOK, Agreement, Next
    PROVE  TypeOK'
BY PollStepType, DrainStepType, LifecycleType, EnvironmentType DEF Next, Loop

-----------------------------------------------------------------------------
(* Every step is of one of the four kinds.                                 *)

\* deleteRunner never disturbs a lifecycle that is in flight.
LEMMA DeleteQuiet ==
    ASSUME TypeOK, NEW s \in Slots, Delete(s), UNCHANGED counters
    PROVE  Quiet
<1>1. CASE Removed(reg[s]) = "none" /\ phase[s] \notin InFlight
  <2>1. s \notin Launches
    BY <1>1 DEF Launches
  <2>2. \A t \in Launches : repo'[t] = repo[t] /\ flavor'[t] = flavor[t]
    BY <1>1, <2>1 DEF Delete, Launches, TypeOK, LifecycleOK
  <2>3. \A t \in Slots : phase'[t] \in InFlight <=> phase[t] \in InFlight
    BY <1>1 DEF Delete, TypeOK, LifecycleOK, InFlight
  <2> QED
    BY <2>2, <2>3 DEF Delete, Quiet
<1>2. CASE ~(Removed(reg[s]) = "none" /\ phase[s] \notin InFlight)
  BY <1>2 DEF Delete, Quiet
<1> QED
  BY <1>1, <1>2

\* Nor does a stop or a watchdog end the lifecycle itself.
LEMMA KillQuiet ==
    ASSUME TypeOK, NEW s \in Slots, phase[s] = "up", Kill(s), UNCHANGED counters
    PROVE  Quiet
BY DEF Kill, Quiet, TypeOK, LifecycleOK, InFlight

LEMMA SteadyQuiet ==
    ASSUME UNCHANGED <<counters, lifecycle>>
    PROVE  Quiet
BY DEF Quiet, lifecycle

LEMMA LoopKinds ==
    ASSUME TypeOK, Loop
    PROVE  Quiet \/ (Claim /\ ~Quiet)
<1>1. CASE \/ ListRepos \/ DetectFlavors \/ SweepList \/ SweepDone \/ CountAsk
           \/ CountFails \/ CountReply \/ RecheckAsk \/ RecheckDenied \/ RecheckAborted
  BY <1>1, SteadyQuiet
     DEF ListRepos, DetectFlavors, SweepList, SweepDone, CountAsk, CountFails, CountReply,
         RecheckAsk, RecheckDenied, RecheckAborted
<1>2. CASE \/ ClaimTimer \/ PollTimer \/ CapWaitAborted \/ LeaveLoop \/ HookDone
           \/ DrainSettled \/ DrainDeadline \/ ReapTimer
  BY <1>2, SteadyQuiet
     DEF ClaimTimer, PollTimer, CapWaitAborted, LeaveLoop, HookDone, DrainSettled,
         DrainDeadline, ReapTimer
<1>3. CASE SweepDelete
  <2>1. PICK s \in Slots : Delete(s) \/ UNCHANGED <<lifecycle, reg>>
    BY <1>3 DEF SweepDelete, TypeOK, PollType
  <2> QED
    BY <1>3, <2>1, DeleteQuiet, SteadyQuiet DEF SweepDelete
<1>4. CASE ReapDelete
  <2>1. PICK s \in drain.current : Delete(s) \/ UNCHANGED <<lifecycle, reg>>
    BY <1>4 DEF ReapDelete
  <2>2. s \in Slots
    BY DEF TypeOK, DrainType
  <2> QED
    BY <1>4, <2>1, <2>2, DeleteQuiet, SteadyQuiet DEF ReapDelete
<1>5. CASE ReapStop
  <2>1. PICK s \in Slots : (phase[s] = "up" /\ Kill(s)) \/ UNCHANGED <<lifecycle, reg>>
    BY <1>5 DEF ReapStop, TypeOK, DrainType
  <2> QED
    BY <1>5, <2>1, KillQuiet, SteadyQuiet DEF ReapStop
<1>6. CASE Claim
  BY <1>6
<1> QED
  BY <1>1, <1>2, <1>3, <1>4, <1>5, <1>6 DEF Loop

LEMMA EnvironmentQuiet ==
    ASSUME Environment
    PROVE  Quiet /\ pc' = pc /\ poll' = poll
<1>1. UNCHANGED <<counters, lifecycle, pc, poll>>
  BY DEF Environment, Abort, BackoffEnds, TurnsPublic, JobArrives, JobCancelled,
         RunnerConnects, AssignJob, JobEnds
<1> QED
  BY <1>1, SteadyQuiet

\* What a step of a lifecycle is.
Starts(s) ==
    /\ runnerUnassigned[s] /\ DecrementUnassignedOnce(s)
    /\ UNCHANGED <<active, activeByFlavor, phase, repo, flavor, pc>>
Settles(s) == \E left \in Registrations, known \in BOOLEAN : Settle(s, left, known)

LEMMA LifecycleKinds ==
    ASSUME TypeOK, NEW s \in Slots, Lifecycle(s)
    PROVE  /\ s \in Launches /\ poll' = poll
           /\ (Quiet /\ pc' = pc) \/ Starts(s) \/ Settles(s)
<1>0. reg[s] \in Registrations /\ "none" \in Registrations
  BY DEF TypeOK, LifecycleOK, Registrations
<1>1. s \in Launches /\ poll' = poll
  BY DEF Lifecycle, JitCreated, JitReturns, JitFails, LaunchUp, StartSeen, IdleTimeout,
         ResourceDies, LaunchSucceeds, LaunchFails, Deregister, Launches, InFlight
<1>2. CASE JitCreated(s) \/ JitReturns(s) \/ LaunchUp(s) \/ LaunchFails(s)
  <2>1. /\ UNCHANGED <<counters, repo, flavor, runnerUnassigned, pc>>
        /\ phase[s] \in InFlight
        /\ \E p \in InFlight : phase' = [phase EXCEPT ![s] = p]
    BY <1>2 DEF JitCreated, JitReturns, LaunchUp, LaunchFails, InFlight
  <2> QED
    BY <1>1, <2>1 DEF Quiet, TypeOK, LifecycleOK
<1>3. CASE IdleTimeout(s) \/ ResourceDies(s)
  BY <1>1, <1>3, KillQuiet DEF IdleTimeout, ResourceDies
<1>4. CASE StartSeen(s)
  BY <1>1, <1>4 DEF StartSeen, Starts
<1>5. CASE JitFails(s) \/ LaunchSucceeds(s) \/ Deregister(s)
  BY <1>0, <1>1, <1>5 DEF JitFails, LaunchSucceeds, Deregister, Settles
<1> QED
  BY <1>1, <1>2, <1>3, <1>4, <1>5 DEF Lifecycle

LEMMA ClaimAgreement ==
    ASSUME TypeOK, Agreement, RoomAtRecheck, Claim
    PROVE  Agreement'
<1>1. CASE UNCHANGED <<counters, lifecycle>>
  BY <1>1, SteadyQuiet, QuietAgreement
<1>2. CASE Free # 0 /\ ~AtHardCap /\ \E s \in Slots : Mint(s, poll.target, poll.flavor)
  <2>1. poll.target \in Repos /\ poll.flavor \in Flavors
    BY DEF Claim, TypeOK, ScopeOK
  <2>2. activeByFlavor[poll.flavor] < FlavorCap[poll.flavor]
    BY DEF Claim, RoomAtRecheck
  <2> QED
    BY <1>2, <2>1, <2>2, MintAgreement
<1> QED
  BY <1>1, <1>2 DEF Claim

LEMMA NextAgreement ==
    ASSUME TypeOK, Agreement, RoomAtRecheck, Next
    PROVE  Agreement'
<1>1. CASE Loop
  BY <1>1, LoopKinds, QuietAgreement, ClaimAgreement
<1>2. CASE Environment
  BY <1>2, EnvironmentQuiet, QuietAgreement
<1>3. ASSUME NEW s \in Slots, Lifecycle(s) PROVE Agreement'
  <2>1. s \in Launches /\ (Quiet \/ Starts(s) \/ Settles(s))
    BY <1>3, LifecycleKinds
  <2>2. CASE Starts(s)
    BY <2>1, <2>2, StartAgreement DEF Starts
  <2>3. CASE Settles(s)
    BY <2>1, <2>3, SettleAgreement DEF Settles
  <2> QED
    BY <2>1, <2>2, <2>3, QuietAgreement
<1> QED
  BY <1>1, <1>2, <1>3 DEF Next

-----------------------------------------------------------------------------
(* What the loop saw before the await of isStillPrivate holds after it.    *)

\* The counters the loop compared, which only a mint raises.
Shrinks ==
    /\ \A f \in Flavors : activeByFlavor'[f] <= activeByFlavor[f]
    /\ \A k \in Keys : unassigned'[k] <= unassigned[k]

LEMMA DecrementShrinks ==
    ASSUME TypeOK, NEW s \in Slots, DecrementUnassignedOnce(s)
    PROVE  \A k \in Keys : unassigned'[k] <= unassigned[k]
<1>1. \A n \in Nat : Decremented(n) <= n
  BY DEF Decremented
<1>2. CASE runnerUnassigned[s]
  <2>1. unassigned' = [unassigned EXCEPT ![Key(s)] = Decremented(@)]
    BY <1>2 DEF DecrementUnassignedOnce
  <2> QED
    BY <1>1, <2>1 DEF TypeOK, CountersOK
<1>3. CASE ~runnerUnassigned[s]
  BY <1>3 DEF DecrementUnassignedOnce, TypeOK, CountersOK
<1> QED
  BY <1>2, <1>3

LEMMA SettleShrinks ==
    ASSUME TypeOK, NEW s \in Slots, NEW left, NEW known, Settle(s, left, known)
    PROVE  Shrinks
<1>1. \A n \in Nat : Decremented(n) <= n
  BY DEF Decremented
<1>2. activeByFlavor' = [activeByFlavor EXCEPT ![flavor[s]] = Decremented(@)]
  BY DEF Settle, Release
<1>3. \A f \in Flavors : activeByFlavor'[f] <= activeByFlavor[f]
  BY <1>1, <1>2 DEF TypeOK, CountersOK
<1> QED
  BY <1>3, DecrementShrinks DEF Settle, Shrinks

\* Neither invariant is disturbed while the loop is at its await.
LEMMA AwaitKeepsRoom ==
    ASSUME TypeOK, RoomAtRecheck, DampedPoll, Shrinks,
           poll' = poll, pc' = pc \/ pc' = "list", CountersOK'
    PROVE  RoomAtRecheck' /\ DampedPoll'
<1>1. poll \in PollType
  BY DEF TypeOK
<1>2. RoomAtRecheck'
  <2> SUFFICES ASSUME pc \in {"recheck", "rechecked"}, pc' = pc
               PROVE  /\ activeByFlavor'[poll.flavor] < FlavorCap[poll.flavor]
                      /\ unassigned'[<<poll.target, poll.flavor>>] < poll.seen[poll.target]
    BY DEF RoomAtRecheck
  <2>1. poll.flavor \in Flavors /\ <<poll.target, poll.flavor>> \in Keys
    BY DEF TypeOK, ScopeOK, Keys
  <2>2. /\ activeByFlavor[poll.flavor] \in Nat /\ activeByFlavor'[poll.flavor] \in Nat
        /\ unassigned[<<poll.target, poll.flavor>>] \in Nat
        /\ unassigned'[<<poll.target, poll.flavor>>] \in Nat
        /\ FlavorCap[poll.flavor] \in Nat /\ poll.seen[poll.target] \in Nat
    BY <1>1, <2>1, SizesAssumption DEF TypeOK, CountersOK, PollType, Keys
  <2> QED
    BY <2>1, <2>2 DEF RoomAtRecheck, Shrinks
<1>3. DampedPoll'
  <2> SUFFICES ASSUME pc \in {"count", "counting"}, pc' = pc, NEW r \in poll.unmet
               PROVE  unassigned'[<<r, poll.flavor>>] < poll.seen[r]
    BY DEF DampedPoll
  <2>1. <<r, poll.flavor>> \in Keys
    BY <1>1 DEF TypeOK, ScopeOK, PollType, Keys
  <2>2. /\ unassigned[<<r, poll.flavor>>] \in Nat /\ unassigned'[<<r, poll.flavor>>] \in Nat
        /\ poll.seen[r] \in Nat
    BY <1>1, <2>1 DEF TypeOK, CountersOK, PollType, Keys
  <2> QED
    BY <2>1, <2>2 DEF DampedPoll, Shrinks
<1> QED
  BY <1>2, <1>3

LEMMA NextFlavorRoom ==
    ASSUME NEW p, NEW f, NextFlavor(p, f)
    PROVE  RoomAtRecheck' /\ DampedPoll'
<1>1. CASE WaitForNextPoll
  BY <1>1 DEF WaitForNextPoll, RoomAtRecheck, DampedPoll
<1>2. CASE \E g : /\ pc' = "count"
                  /\ poll' = [NoPoll EXCEPT !.repos = p.repos, !.flavors = p.flavors,
                                            !.todo = p.repos, !.flavor = g]
  <2>1. pc' = "count" /\ poll'.unmet = {}
    BY <1>2 DEF NoPoll
  <2> QED
    BY <2>1 DEF RoomAtRecheck, DampedPoll
<1> QED
  BY <1>1, <1>2 DEF NextFlavor

LEMMA CountedRoom ==
    ASSUME TypeOK, poll.flavor \in Flavors, NEW r, NEW d, NEW u \in SUBSET Repos,
           NEW v \in [Repos -> Nat], \A t \in u : unassigned[<<t, poll.flavor>>] < v[t],
           u \intersect (poll.todo \ {r}) = {},
           UNCHANGED counters, Counted(r, d, u, v)
    PROVE  RoomAtRecheck' /\ DampedPoll'
<1> USE DEF counters
<1>1. poll \in PollType
  BY DEF TypeOK
<1>2. CASE NextFlavor(poll, poll.flavor)
  BY <1>2, NextFlavorRoom
<1>3. CASE /\ pc' = "count"
           /\ poll' = [poll EXCEPT !.todo = poll.todo \ {r}, !.demand = d, !.unmet = u, !.seen = v]
  <2>1. pc' = "count" /\ poll'.unmet = u /\ poll'.flavor = poll.flavor /\ poll'.seen = v
        /\ poll'.todo = poll.todo \ {r}
    BY <1>1, <1>3 DEF PollType
  <2> QED
    BY <2>1 DEF RoomAtRecheck, DampedPoll
<1>4. CASE /\ ToMint(d, poll.flavor)
           /\ \E t \in u :
                /\ pc' = "recheck"
                /\ poll' = [NoPoll EXCEPT !.repos = poll.repos, !.flavors = poll.flavors,
                                          !.flavor = poll.flavor, !.target = t,
                                          !.seen[t] = v[t]]
  <2>1. PICK t \in u :
                /\ pc' = "recheck"
                /\ poll' = [NoPoll EXCEPT !.repos = poll.repos, !.flavors = poll.flavors,
                                          !.flavor = poll.flavor, !.target = t,
                                          !.seen[t] = v[t]]
    BY <1>4
  <2>2. poll'.flavor = poll.flavor /\ poll'.target = t /\ poll'.seen[t] = v[t]
    BY <2>1 DEF NoPoll
  <2>3. activeByFlavor[poll.flavor] < FlavorCap[poll.flavor]
    BY <1>4 DEF ToMint
  <2> QED
    BY <2>1, <2>2, <2>3 DEF RoomAtRecheck, DampedPoll
<1> QED
  BY <1>2, <1>3, <1>4 DEF Counted, Decide

LEMMA NextRoom ==
    ASSUME IndInv, Next, TypeOK'
    PROVE  RoomAtRecheck' /\ DampedPoll'
<1>0. TypeOK /\ Agreement /\ RoomAtRecheck /\ DampedPoll /\ poll \in PollType /\ CountersOK'
  BY DEF IndInv, TypeOK, Agreement
<1>1. ASSUME UNCHANGED counters, poll' = poll, pc' = pc \/ pc' = "list"
      PROVE  RoomAtRecheck' /\ DampedPoll'
  <2>1. Shrinks
    BY <1>0, <1>1 DEF counters, Shrinks, TypeOK, CountersOK
  <2> QED
    BY <1>0, <1>1, <2>1, AwaitKeepsRoom
<1>2. CASE Environment
  BY <1>1, <1>2, EnvironmentQuiet DEF Quiet
<1>3. ASSUME NEW s \in Slots, Lifecycle(s) PROVE RoomAtRecheck' /\ DampedPoll'
  <2>1. CASE Quiet /\ pc' = pc /\ poll' = poll
    BY <1>1, <2>1 DEF Quiet
  <2>2. CASE Starts(s) /\ poll' = poll
    <3>1. Shrinks
      BY <1>0, <2>2, DecrementShrinks DEF Starts, Shrinks, TypeOK, CountersOK
    <3> QED
      BY <1>0, <2>2, <3>1, AwaitKeepsRoom DEF Starts
  <2>3. CASE Settles(s) /\ poll' = poll
    <3>1. Shrinks /\ (pc' = pc \/ pc' = "list")
      BY <1>0, <2>3, SettleShrinks DEF Settles, Settle, Notify
    <3> QED
      BY <1>0, <2>3, <3>1, AwaitKeepsRoom
  <2> QED
    BY <1>0, <1>3, <2>1, <2>2, <2>3, LifecycleKinds
<1>4. ASSUME pc' \notin {"count", "counting", "recheck", "rechecked"}
      PROVE  RoomAtRecheck' /\ DampedPoll'
  BY <1>4 DEF RoomAtRecheck, DampedPoll
<1>5. CASE \/ ClaimTimer \/ PollTimer \/ CapWaitAborted \/ LeaveLoop \/ HookDone
           \/ DrainSettled \/ DrainDeadline \/ ReapStop \/ ReapDelete \/ ReapTimer
           \/ RecheckAborted
  <2>1. pc' \notin {"count", "counting", "recheck", "rechecked"}
    BY <1>5 DEF ClaimTimer, PollTimer, CapWaitAborted, LeaveLoop, HookDone, DrainSettled,
                DrainDeadline, ReapStop, ReapDelete, ReapTimer, ReapNext, RecheckAborted
  <2> QED
    BY <1>4, <2>1
<1>6. CASE ListRepos \/ SweepList \/ SweepDelete \/ Claim
  <2>1. pc' \notin {"count", "counting", "recheck", "rechecked"}
    BY <1>6 DEF ListRepos, SweepList, SweepDelete, Claim, WaitForNextPoll
  <2> QED
    BY <1>4, <2>1
<1>7. CASE DetectFlavors \/ SweepDone \/ RecheckDenied
  <2>1. pc' \in {"hook", "sweepList"} \/ \E p, f : NextFlavor(p, f)
    BY <1>7 DEF DetectFlavors, SweepDone, RecheckDenied
  <2> QED
    BY <1>4, <2>1, NextFlavorRoom
<1>10. CASE RecheckAsk
  BY <1>0, <1>10 DEF RecheckAsk, RoomAtRecheck, DampedPoll, counters
<1>8. CASE CountAsk
  BY <1>0, <1>8 DEF CountAsk, RoomAtRecheck, DampedPoll, counters
<1>11. CASE CountFails
  <2>1. PICK r \in poll.todo : Counted(r, poll.demand, poll.unmet, poll.seen)
    BY <1>11 DEF CountFails
  <2>2. /\ poll.flavor \in Flavors /\ poll.unmet \in SUBSET Repos /\ UNCHANGED counters
        /\ poll.seen \in [Repos -> Nat]
        /\ \A t \in poll.unmet : unassigned[<<t, poll.flavor>>] < poll.seen[t]
        /\ poll.unmet \intersect (poll.todo \ {r}) = {}
    BY <1>0, <1>11 DEF CountFails, TypeOK, ScopeOK, PollType, DampedPoll
  <2> QED
    BY <1>0, <2>1, <2>2, CountedRoom
<1>9. CASE CountReply
  <2>1. PICK r \in poll.todo, n \in scan.kept..scan.seen :
          Counted(r, poll.demand + n, IF Unmet(n, r) THEN poll.unmet \union {r} ELSE poll.unmet,
                  [poll.seen EXCEPT ![r] = scan.seen])
    BY <1>9 DEF CountReply
  <2> DEFINE u == IF Unmet(n, r) THEN poll.unmet \union {r} ELSE poll.unmet
  <2> DEFINE v == [poll.seen EXCEPT ![r] = scan.seen]
  <2>2. /\ poll.flavor \in Flavors /\ u \in SUBSET Repos /\ UNCHANGED counters
        /\ poll.seen \in [Repos -> Nat] /\ r \in Repos
    BY <1>0, <1>9 DEF CountReply, TypeOK, ScopeOK, PollType
  <2>3. n \in Nat /\ scan.seen \in Nat /\ n <= scan.seen /\ <<r, poll.flavor>> \in Keys
    BY <1>0, <2>1, <2>2 DEF TypeOK, Keys
  <2>4. v \in [Repos -> Nat] /\ v[r] = scan.seen
    BY <2>2, <2>3
  <2>5. Unmet(n, r) => unassigned[<<r, poll.flavor>>] < v[r]
    BY <1>0, <2>3, <2>4 DEF Unmet, TypeOK, CountersOK
  <2>6. \A t \in poll.unmet : t # r => unassigned[<<t, poll.flavor>>] < v[t]
    BY <1>0, <1>9, <2>2 DEF CountReply, DampedPoll, PollType
  <2>7. r \notin poll.unmet /\ u \intersect (poll.todo \ {r}) = {}
    BY <1>0, <1>9, <2>1 DEF CountReply, DampedPoll
  <2>8. \A t \in u : unassigned[<<t, poll.flavor>>] < v[t]
    BY <2>5, <2>6, <2>7
  <2> QED
    BY <1>0, <2>1, <2>2, <2>4, <2>7, <2>8, CountedRoom
<1> QED
  BY <1>2, <1>3, <1>5, <1>6, <1>7, <1>8, <1>9, <1>10, <1>11 DEF Next, Loop

-----------------------------------------------------------------------------
(* The theorems.                                                           *)

LEMMA InitAgreement == Init => Agreement
<1> SUFFICES ASSUME Init PROVE Agreement
  OBVIOUS
<1>1. Launches = {} /\ Waiting = {}
  BY DEF Init, Launches, Waiting, InFlight
<1>2. \A f : SlotsOf(f) = {} /\ WaitingOf(f) = {}
  BY <1>1 DEF SlotsOf, WaitingOf
<1>3. \A k : WaitingFor(k) = {}
  BY <1>1 DEF WaitingFor
<1>4. Cardinality({}) = 0
  BY FS_EmptySet
<1>5. CountersAgree
  BY <1>1, <1>2, <1>3, <1>4 DEF Init, CountersAgree, WaitingOf, WaitingFor
<1>6. WithinLimits
  BY <1>1, <1>2, <1>4, SizesAssumption DEF WithinLimits
<1>8. Consistent
  BY <1>1 DEF Consistent
<1> QED
  BY <1>5, <1>6, <1>8 DEF Agreement

\* The invariant is inductive: the counters say what the lifecycles do, and
\* what the loop looked at before an await still holds after it.
THEOREM Inductive == Spec => []IndInv
<1>1. Init => IndInv
  BY InitType, InitAgreement DEF Init, IndInv, Agreement, RoomAtRecheck, DampedPoll
<1>2. IndInv /\ [Next]_vars => IndInv'
  <2> SUFFICES ASSUME IndInv, [Next]_vars PROVE IndInv'
    OBVIOUS
  <2>1. CASE Next
    <3>1. TypeOK /\ Agreement /\ RoomAtRecheck
      BY DEF IndInv, Agreement
    <3>2. TypeOK' /\ Agreement'
      BY <2>1, <3>1, NextType, NextAgreement
    <3> QED
      BY <2>1, <3>2, NextRoom DEF IndInv, Agreement
  <2>2. CASE UNCHANGED vars
    <3>1. UNCHANGED <<pc, poll, reconciled, backoff, aborted, threw, drain, counters,
                      lifecycle, reg, jobs, faults>>
      BY <2>2 DEF vars
    <3>2. Quiet /\ TypeOK /\ Agreement
      BY <3>1, SteadyQuiet DEF IndInv, Agreement
    <3>3. TypeOK'
      BY <3>1, <3>2 DEF TypeOK, ScopeOK, CountersOK, LifecycleOK, counters, lifecycle, jobs
    <3>4. Agreement'
      BY <3>2, QuietAgreement
    <3>5. RoomAtRecheck' /\ DampedPoll'
      BY <3>1 DEF IndInv, RoomAtRecheck, DampedPoll, counters
    <3> QED
      BY <3>3, <3>4, <3>5 DEF IndInv, Agreement
  <2> QED
    BY <2>1, <2>2
<1> QED
  BY <1>1, <1>2, PTL DEF Spec

\* Every variable keeps its type; the semaphore is never released below zero.
THEOREM TypeCorrect == Spec => []TypeOK
BY Inductive, PTL DEF IndInv

\* No path of any lifecycle, in any interleaving with the loop and the drain,
\* misses or repeats a release or a decrement.
THEOREM CountersCorrect == Spec => []CountersAgree
BY Inductive, PTL DEF IndInv

\* --max, MAX_ACTIVE_JOBS and the cap of each flavor hold for every number of
\* repositories, flavors, runners and jobs.
THEOREM LimitsHold == Spec => []WithinLimits
BY Inductive, PTL DEF IndInv

-----------------------------------------------------------------------------
(* Steps of the specification.                                             *)

\* Only a claim that passed the re-check mints.
LEMMA OnlyClaimMints ==
    ASSUME TypeOK, Agreement, Next, NEW s \in Slots, Minted(s)
    PROVE  /\ ~aborted /\ pc = "rechecked" /\ repo'[s] = poll.target
           /\ Mint(s, poll.target, poll.flavor) /\ Claim
<1>1. ~Quiet
  BY DEF Quiet, Minted
<1>2. ASSUME NEW t \in Slots, Lifecycle(t) PROVE FALSE
  <2>1. t \in Launches /\ (Starts(t) \/ Settles(t))
    BY <1>1, <1>2, LifecycleKinds
  <2>2. ~Starts(t)
    BY DEF Starts, Minted
  <2>3. ~Settles(t)
    BY <2>1 DEF Settles, Settle, Minted, TypeOK, LifecycleOK, Launches, InFlight
  <2> QED
    BY <2>1, <2>2, <2>3
<1>3. Claim
  BY <1>1, <1>2, LoopKinds, EnvironmentQuiet DEF Next
<1>4. ~(UNCHANGED <<counters, lifecycle>>)
  BY <1>1, SteadyQuiet
<1>5. PICK t \in Slots : Mint(t, poll.target, poll.flavor)
  BY <1>3, <1>4 DEF Claim
<1>6. t = s
  BY <1>5 DEF Mint, Minted, TypeOK, LifecycleOK
<1> QED
  BY <1>3, <1>5, <1>6 DEF Claim, Mint, TypeOK, LifecycleOK

\* With every runner that is minted, a repository and flavor has no more runners
\* waiting than jobs were queued in the course of the count that led to it.
THEOREM Damped == Spec => DampedByDemand
<1>1. ASSUME IndInv, Next, NEW s \in Slots, Minted(s)
      PROVE  Cardinality(WaitingLike(s)') <= poll.seen[repo'[s]]
  <2>1. TypeOK /\ Agreement /\ RoomAtRecheck
    BY <1>1 DEF IndInv, Agreement
  <2>2. /\ pc = "rechecked" /\ repo'[s] = poll.target
        /\ Mint(s, poll.target, poll.flavor)
    BY <1>1, <2>1, OnlyClaimMints
  <2>3. poll.target \in Repos /\ poll.flavor \in Flavors
    BY <2>1, <2>2 DEF TypeOK, ScopeOK
  <2> DEFINE k == <<poll.target, poll.flavor>>
  <2>4. k \in Keys /\ Key(s)' = k
    BY <2>1, <2>2, <2>3 DEF Mint, Key, Keys, TypeOK, LifecycleOK
  <2>5. unassigned'[k] = unassigned[k] + 1
    BY <2>1, <2>2, <2>4 DEF Mint, TypeOK, CountersOK
  <2>6. Agreement'
    BY <1>1, <2>1, NextAgreement
  <2>7. Cardinality(WaitingLike(s)') = unassigned'[k]
    BY <2>4, <2>6 DEF Agreement, CountersAgree, WaitingLike
  <2>8. unassigned[k] < poll.seen[poll.target]
    BY <2>2 , <2>1 DEF RoomAtRecheck
  <2>9. unassigned[k] \in Nat /\ poll.seen[poll.target] \in Nat
    BY <2>1, <2>3, <2>4 DEF TypeOK, CountersOK, PollType
  <2> QED
    BY <2>2, <2>5, <2>7, <2>8, <2>9
<1>2. IndInv /\ [Next]_vars =>
        [\A s \in Slots :
            Minted(s) => Cardinality(WaitingLike(s)') <= poll.seen[repo'[s]]]_vars
  BY <1>1
<1> QED
  BY <1>2, Inductive, PTL DEF Spec, DampedByDemand

\* No interleaving of the signal with a poll mints a runner after the signal.
THEOREM DrainMintsNothing == Spec => DrainNeverMints
<1>1. IndInv /\ [Next]_vars => [\A s \in Slots : Minted(s) => ~aborted]_vars
  BY OnlyClaimMints DEF IndInv, Agreement
<1> QED
  BY <1>1, Inductive, PTL DEF Spec, DrainNeverMints

\* GitHub's answer is the only way to the claim.
LEMMA AnswerOnly ==
    ASSUME TypeOK, Next, pc # "rechecked", pc' = "rechecked"
    PROVE  pc = "recheck" /\ poll' = poll /\ poll.target \in private
<1>1. \A p, f : NextFlavor(p, f) => pc' # "rechecked"
  BY DEF NextFlavor, WaitForNextPoll
<1>2. \A r, d, u, v : Counted(r, d, u, v) => pc' # "rechecked"
  BY <1>1 DEF Counted, Decide
<1>3. CASE Loop
  BY <1>1, <1>2, <1>3
     DEF Loop, ListRepos, DetectFlavors, SweepList, SweepDelete, SweepDone, CountAsk, CountFails, CountReply,
         RecheckAsk, RecheckDenied, RecheckAborted, Claim, ClaimTimer, PollTimer, CapWaitAborted,
         LeaveLoop, HookDone, DrainSettled, DrainDeadline, ReapStop, ReapDelete, ReapTimer,
         ReapNext, WaitForNextPoll
<1>4. CASE Environment
  BY <1>4, EnvironmentQuiet
<1>5. ASSUME NEW s \in Slots, Lifecycle(s) PROVE FALSE
  BY <1>5, LifecycleKinds DEF Starts, Settles, Settle, Notify
<1> QED
  BY <1>3, <1>4, <1>5 DEF Next

\* The repository is private when its runner is decided on, not only when listed.
THEOREM OnlyPrivateMinted == Spec => MintsOnlyPrivate
<1>1. IndInv /\ [Next]_vars =>
        [/\ \A s \in Slots : Minted(s) => pc = "rechecked" /\ repo'[s] = poll.target
         /\ pc # "rechecked" /\ pc' = "rechecked" =>
              pc = "recheck" /\ poll'.target = poll.target /\ poll.target \in private]_vars
  BY OnlyClaimMints, AnswerOnly DEF IndInv, Agreement
<1> QED
  BY <1>1, Inductive, PTL DEF Spec, MintsOnlyPrivate

-----------------------------------------------------------------------------
(* The dispatcher implements the abstract pool.                            *)

PoolKind == [s \in Slots |-> IF s \in Launches THEN flavor[s] ELSE 0]
PoolVars == <<Waiting, Launches \ Waiting, PoolKind, ~aborted>>

LEMMA QuietStutters ==
    ASSUME Agreement, Quiet, aborted' = aborted
    PROVE  PoolVars' = PoolVars
<1>1. Launches' = Launches /\ Waiting' = Waiting
  BY DEF Quiet, Launches, Waiting
<1>2. PoolKind' = PoolKind
  BY <1>1 DEF Quiet, PoolKind
<1> QED
  BY <1>1, <1>2 DEF PoolVars

\* The pool's copy of FiniteSets is the same.
LEMMA SameCardinality == \A S : Pool!Cardinality(S) = Cardinality(S)
BY DEF Pool!Cardinality, Cardinality

LEMMA MintIsStart ==
    ASSUME TypeOK, Agreement, NEW s \in Slots, NEW r \in Repos, NEW f \in Flavors,
           Mint(s, r, f), Free # 0, ~AtHardCap, activeByFlavor[f] < FlavorCap[f],
           ~aborted, aborted' = aborted
    PROVE  Pool!Next
<1>1. s \notin Launches /\ s \notin Waiting /\ Waiting \subseteq Launches
  BY DEF Mint, Launches, InFlight, Agreement, Consistent
<1>2. Launches' = Launches \union {s}
  BY DEF Launches, Mint, TypeOK, LifecycleOK, InFlight
<1>3. Waiting' = Waiting \union {s}
  BY DEF Waiting, Mint, TypeOK, LifecycleOK
<1>4. Pool!Runners = Launches
  BY <1>1 DEF Pool!Runners
<1>5. Pool!OfKind(f) = SlotsOf(f)
  BY <1>4 DEF Pool!OfKind, SlotsOf, Launches
<1>6. Cardinality(Launches) < IF MaxConcurrent < MaxActiveJobs THEN MaxConcurrent ELSE MaxActiveJobs
  <2>1. active = Cardinality(Launches) /\ active \in Nat
    BY DEF Agreement, CountersAgree, TypeOK, CountersOK
  <2> QED
    BY <2>1, SizesAssumption DEF Free, AtHardCap, Agreement, WithinLimits
<1>7. Cardinality(SlotsOf(f)) < FlavorCap[f]
  BY DEF Agreement, CountersAgree
<1>8. PoolKind' = [PoolKind EXCEPT ![s] = f]
  <2>1. flavor'[s] = f /\ \A t \in Slots \ {s} : flavor'[t] = flavor[t]
    BY DEF Mint, TypeOK, LifecycleOK
  <2> QED
    BY <1>2, <2>1 DEF PoolKind
<1>9. Launches' \ Waiting' = Launches \ Waiting
  BY <1>1, <1>2, <1>3
<1>10. s \in Slots \ Pool!Runners
  BY <1>1, <1>4
<1>11. Pool!Start(s, f)
  BY <1>3, <1>4, <1>5, <1>6, <1>7, <1>8, <1>9, <1>10, SameCardinality DEF Pool!Start, PoolKind
<1> QED
  BY <1>11 DEF Pool!Next

LEMMA StartsIsBegin ==
    ASSUME TypeOK, Agreement, NEW s \in Launches, Starts(s), aborted' = aborted
    PROVE  Pool!Begin(s)
<1>1. Launches' = Launches /\ Waiting' = Waiting \ {s} /\ s \in Waiting
  BY DEF Starts, Launches, Waiting, DecrementUnassignedOnce, TypeOK, LifecycleOK
<1>2. PoolKind' = PoolKind
  BY <1>1 DEF PoolKind, Starts
<1>3. Launches \ (Waiting \ {s}) = (Launches \ Waiting) \union {s}
  OBVIOUS
<1> QED
  BY <1>1, <1>2, <1>3 DEF Pool!Begin, PoolKind

LEMMA SettlesIsFinish ==
    ASSUME TypeOK, Agreement, NEW s \in Launches, Settles(s), aborted' = aborted
    PROVE  Pool!Finish(s)
<1>1. Launches' = Launches \ {s}
  BY DEF Settles, Settle, Launches, TypeOK, LifecycleOK, InFlight
<1>2. Waiting' = Waiting \ {s}
  BY DEF Settles, Settle, Waiting, DecrementUnassignedOnce, TypeOK, LifecycleOK
<1>3. PoolKind' = [PoolKind EXCEPT ![s] = 0]
  <2>1. \A t \in Slots \ {s} : flavor'[t] = flavor[t]
    BY DEF Settles, Settle, TypeOK, LifecycleOK
  <2> QED
    BY <1>1, <2>1 DEF PoolKind, Launches
<1>4. s \in Pool!Runners
  BY DEF Pool!Runners
<1>5. (Launches \ {s}) \ (Waiting \ {s}) = (Launches \ Waiting) \ {s}
  OBVIOUS
<1> QED
  BY <1>1, <1>2, <1>3, <1>4, <1>5 DEF Pool!Finish, PoolKind

LEMMA SignalOnly ==
    ASSUME Next, aborted' # aborted
    PROVE  Abort
BY DEF Next, Loop, Environment, Lifecycle,
       ListRepos, DetectFlavors, SweepList, SweepDelete, SweepDone, CountAsk, CountFails, CountReply,
       RecheckAsk, RecheckDenied, RecheckAborted, Claim, ClaimTimer, PollTimer, CapWaitAborted,
       LeaveLoop, HookDone, DrainSettled, DrainDeadline, ReapStop, ReapDelete, ReapTimer,
       JitCreated, JitReturns, JitFails, LaunchUp, StartSeen, IdleTimeout, ResourceDies,
       LaunchSucceeds, LaunchFails, Deregister, BackoffEnds, TurnsPublic, JobArrives,
       JobCancelled, RunnerConnects, AssignJob, JobEnds

\* Whatever the polling, the re-checks and GitHub do, the runners of one host
\* are a pool that respects its limits and only shrinks after the signal.
THEOREM PoolImplemented == Spec => ImplementsPool
<1>1. Init => Pool!Init
  <2> SUFFICES ASSUME Init PROVE Pool!Init
    OBVIOUS
  <2>1. Launches = {} /\ Waiting = {} /\ ~aborted
    BY DEF Init, Launches, Waiting, InFlight
  <2> QED
    BY <2>1 DEF Pool!Init
<1>2. IndInv /\ [Next]_vars => [Pool!Next]_(Pool!vars)
  <2> SUFFICES ASSUME IndInv, [Next]_vars
               PROVE  Pool!Next \/ PoolVars' = PoolVars
    BY DEF PoolVars, PoolKind, Pool!vars
  <2>0. TypeOK /\ Agreement /\ RoomAtRecheck
    BY DEF IndInv, Agreement
  <2>1. CASE Quiet /\ aborted' = aborted
    BY <2>0, <2>1, QuietStutters
  <2>2. CASE Next /\ aborted' # aborted
    <3>1. Abort
      BY <2>2, SignalOnly
    <3>2. UNCHANGED <<Launches, Waiting, PoolKind>>
      BY <3>1 DEF Abort, lifecycle, Launches, Waiting, PoolKind
    <3>3. Pool!Close
      BY <3>1, <3>2 DEF Abort, Pool!Close, PoolKind
    <3> QED
      BY <3>3 DEF Pool!Next
  <2>3. CASE Claim /\ ~Quiet
    <3>1. ~(UNCHANGED <<counters, lifecycle>>)
      BY <2>3, SteadyQuiet
    <3>2. /\ Free # 0 /\ ~AtHardCap /\ ~aborted /\ aborted' = aborted
          /\ \E s \in Slots : Mint(s, poll.target, poll.flavor)
      BY <2>3, <3>1 DEF Claim
    <3>3. poll.target \in Repos /\ poll.flavor \in Flavors
      BY <2>0, <2>3 DEF Claim, TypeOK, ScopeOK
    <3>4. activeByFlavor[poll.flavor] < FlavorCap[poll.flavor]
      BY <2>0, <2>3 DEF Claim, RoomAtRecheck
    <3>5. PICK s \in Slots : Mint(s, poll.target, poll.flavor)
      BY <3>2
    <3> QED
      BY <2>0, <3>2, <3>3, <3>4, <3>5, MintIsStart
  <2>4. ASSUME NEW s \in Slots, Lifecycle(s), ~Quiet, aborted' = aborted
        PROVE  Pool!Next
    <3>1. s \in Launches /\ (Starts(s) \/ Settles(s))
      BY <2>0, <2>4, LifecycleKinds
    <3>2. Pool!Begin(s) \/ Pool!Finish(s)
      BY <2>0, <2>4, <3>1, StartsIsBegin, SettlesIsFinish
    <3> QED
      BY <3>2 DEF Pool!Next
  <2>5. CASE UNCHANGED vars
    <3>1. UNCHANGED <<counters, lifecycle, aborted>>
      BY <2>5 DEF vars
    <3> QED
      BY <2>1, <3>1, SteadyQuiet
  <2> QED
    BY <2>0, <2>1, <2>2, <2>3, <2>4, <2>5, LoopKinds, EnvironmentQuiet DEF Next
<1> QED
  BY <1>1, <1>2, Inductive, PTL DEF Spec, ImplementsPool, Pool!Spec

-----------------------------------------------------------------------------
(* Running jobs.                                                           *)

\* GitHub sees a runner as connected only while its resource is up.
Connected == \A s \in Slots : reg[s] \in {"online", "busy"} => phase[s] = "up"

\* A step that may take the runner s of a running job away.
Excused(s) ==
    \/ faults' # faults \/ pc = "reapStop"
    \/ runnerUnassigned[s] /\ phase[s] = "up" /\ phase'[s] = "killed"

Keeps ==
    /\ Connected'
    /\ \A s \in Slots : reg[s] = "busy" /\ reg'[s] \notin {"busy", "used"} => Excused(s)

LEMMA SteadyKeeps ==
    ASSUME Connected, UNCHANGED <<phase, reg>>
    PROVE  Keeps
BY DEF Connected, Keeps

LEMMA DeleteKeeps ==
    ASSUME TypeOK, Connected, NEW s \in Slots, Delete(s)
    PROVE  Keeps
<1>1. \A t \in Slots : reg'[t] \in {"online", "busy"} => reg'[t] = reg[t] /\ phase'[t] = phase[t]
  BY DEF Delete, Removed, TypeOK, LifecycleOK, Connected, InFlight
<1>2. \A t \in Slots : reg[t] = "busy" => reg'[t] = "busy"
  BY DEF Delete, Removed, TypeOK, LifecycleOK
<1> QED
  BY <1>1, <1>2 DEF Keeps, Connected

LEMMA KillKeeps ==
    ASSUME TypeOK, Connected, NEW s \in Slots, Kill(s), reg[s] = "busy" => Excused(s)
    PROVE  Keeps
<1>1. /\ reg'[s] \notin {"online", "busy"}
      /\ \A t \in Slots \ {s} : reg'[t] = reg[t] /\ phase'[t] = phase[t]
  BY DEF Kill, Lost, TypeOK, LifecycleOK
<1> QED
  BY <1>1 DEF Keeps, Connected

LEMMA SettleKeeps ==
    ASSUME TypeOK, Connected, NEW s \in Slots, NEW left, NEW known, Settle(s, left, known),
           phase[s] # "up" \/ reg[s] = "used", left \notin {"online", "busy"}
    PROVE  Keeps
<1>1. /\ reg'[s] \notin {"online", "busy"} /\ reg[s] # "busy"
      /\ \A t \in Slots \ {s} : reg'[t] = reg[t] /\ phase'[t] = phase[t]
  BY DEF Settle, TypeOK, LifecycleOK, Connected
<1> QED
  BY <1>1 DEF Keeps, Connected

LEMMA LoopKeeps ==
    ASSUME TypeOK, Connected, Loop
    PROVE  Keeps
<1>1. CASE \/ ListRepos \/ DetectFlavors \/ SweepList \/ SweepDone \/ CountAsk
           \/ CountFails \/ CountReply \/ RecheckAsk \/ RecheckDenied \/ RecheckAborted \/ ClaimTimer \/ PollTimer \/ CapWaitAborted
           \/ LeaveLoop \/ HookDone \/ DrainSettled \/ DrainDeadline \/ ReapTimer
  BY <1>1, SteadyKeeps
     DEF ListRepos, DetectFlavors, SweepList, SweepDone, CountAsk, CountFails, CountReply,
         RecheckAsk, RecheckDenied, RecheckAborted, ClaimTimer, PollTimer, CapWaitAborted,
         LeaveLoop, HookDone, DrainSettled, DrainDeadline, ReapTimer, lifecycle
<1>2. CASE SweepDelete
  <2>1. PICK s \in Slots : Delete(s) \/ UNCHANGED <<lifecycle, reg>>
    BY <1>2 DEF SweepDelete, TypeOK, PollType
  <2> QED
    BY <2>1, DeleteKeeps, SteadyKeeps DEF lifecycle
<1>3. CASE ReapDelete
  <2>1. PICK s \in drain.current : Delete(s) \/ UNCHANGED <<lifecycle, reg>>
    BY <1>3 DEF ReapDelete
  <2>2. s \in Slots
    BY DEF TypeOK, DrainType
  <2> QED
    BY <2>1, <2>2, DeleteKeeps, SteadyKeeps DEF lifecycle
<1>4. CASE ReapStop
  <2>1. PICK s \in Slots : Kill(s) \/ UNCHANGED <<lifecycle, reg>>
    BY <1>4 DEF ReapStop, TypeOK, DrainType
  <2> QED
    BY <1>4, <2>1, KillKeeps, SteadyKeeps DEF ReapStop, Excused, lifecycle
<1>5. CASE Claim
  <2>1. CASE UNCHANGED lifecycle
    BY <1>5, <2>1, SteadyKeeps DEF Claim, lifecycle
  <2>2. CASE \E s \in Slots : Mint(s, poll.target, poll.flavor)
    BY <1>5, <2>2 DEF Claim, Mint, TypeOK, LifecycleOK, Keeps, Connected
  <2> QED
    BY <1>5, <2>1, <2>2 DEF Claim
<1> QED
  BY <1>1, <1>2, <1>3, <1>4, <1>5 DEF Loop

LEMMA LifecycleKeeps ==
    ASSUME TypeOK, Connected, NEW s \in Slots, Lifecycle(s)
    PROVE  Keeps
<1>0. faults \in Nat
  BY SizesAssumption DEF TypeOK
<1>1. CASE JitCreated(s)
  BY <1>1 DEF JitCreated, TypeOK, LifecycleOK, Keeps, Connected
<1>2. CASE JitReturns(s) \/ LaunchUp(s) \/ LaunchFails(s)
  BY <1>2 DEF JitReturns, LaunchUp, LaunchFails, TypeOK, LifecycleOK, Keeps, Connected
<1>3. CASE JitFails(s)
  BY <1>3, SettleKeeps DEF JitFails, Connected
<1>4. CASE StartSeen(s)
  BY <1>4, SteadyKeeps DEF StartSeen
<1>5. CASE IdleTimeout(s) \/ ResourceDies(s)
  <2>1. CASE IdleTimeout(s)
    <3>1. phase'[s] = "killed"
      BY <2>1 DEF IdleTimeout, Kill, TypeOK, LifecycleOK
    <3> QED
      BY <2>1, <3>1, KillKeeps DEF IdleTimeout, Excused
  <2>2. CASE ResourceDies(s)
    BY <1>0, <2>2, KillKeeps DEF ResourceDies, Fault, Excused
  <2> QED
    BY <1>5, <2>1, <2>2
<1>6. CASE LaunchSucceeds(s)
  BY <1>6, SettleKeeps DEF LaunchSucceeds, Connected
<1>7. CASE Deregister(s)
  BY <1>7, SettleKeeps DEF Deregister, Connected
<1> QED
  BY <1>1, <1>2, <1>3, <1>4, <1>5, <1>6, <1>7 DEF Lifecycle

LEMMA EnvironmentKeeps ==
    ASSUME TypeOK, Connected, Environment
    PROVE  Keeps
<1>1. CASE \E s \in Slots : RunnerConnects(s) \/ AssignJob(s) \/ JobEnds(s)
  BY <1>1 DEF RunnerConnects, AssignJob, JobEnds, TypeOK, LifecycleOK, Keeps, Connected, lifecycle
<1>2. CASE UNCHANGED <<lifecycle, reg>>
  BY <1>2, SteadyKeeps DEF lifecycle
<1> QED
  BY <1>1, <1>2 DEF Environment, Abort, BackoffEnds, TurnsPublic, JobArrives, JobCancelled

\* No sweep, deregistration or failure path takes the runner of a running job
\* away.  A fault or the drain's deadline does, and, while the job's start line has
\* not been seen, the idle watchdog, which is cancelled by that line only.
THEOREM RunningJobsSpared == Spec => SparesRunningJobs
<1>1. Init => Connected
  BY DEF Init, Connected
<1>2. TypeOK /\ Connected /\ [Next]_vars =>
        /\ Connected'
        /\ [\A s \in Slots : reg[s] = "busy" /\ reg'[s] \notin {"busy", "used"} =>
               \/ faults' # faults \/ pc = "reapStop"
               \/ runnerUnassigned[s] /\ phase[s] = "up" /\ phase'[s] = "killed"]_vars
  <2> SUFFICES ASSUME TypeOK, Connected, [Next]_vars
               PROVE  Connected' /\ (Keeps \/ UNCHANGED vars)
    BY DEF Keeps, Excused
  <2>1. CASE Next
    BY <2>1, LoopKeeps, EnvironmentKeeps, LifecycleKeeps DEF Next, Keeps
  <2>2. CASE UNCHANGED vars
    BY <2>2 DEF vars, lifecycle, Connected
  <2> QED
    BY <2>1, <2>2
<1> QED
  BY <1>1, <1>2, TypeCorrect, PTL DEF Spec, SparesRunningJobs

-----------------------------------------------------------------------------
(* What the drain leaves behind.  The places of the drain are entered only *)
(* after the abort, so nothing is minted into a slot the deadline stopped; *)
(* a failure is never forgotten, so in a run without one every lifecycle   *)
(* that ended with its registration in place was stopped by the deadline,  *)
(* which deletes that registration next.                                   *)

DrainPlaces == {"draining", "reapStop", "reapDelete", "reapWait", "stopped"}
ReapPlaces == {"reapStop", "reapDelete", "reapWait", "stopped"}

\* The drain follows the abort, reaps one lifecycle at a time, and keeps its
\* variables empty before and after.
DrainOrder ==
    /\ pc \in DrainPlaces \union {"hook"} => aborted
    /\ drain.current # {} <=> pc \in {"reapStop", "reapDelete"}
    /\ drain.stopped # {} => pc \in ReapPlaces
    /\ \A s, t \in drain.current : s = t

\* A stopped lifecycle never runs again; a settled one left an offline runner.
StoppedAreOver ==
    /\ \A s \in drain.stopped : phase[s] \in {"killed", "deregistering", "settled", "free"}
    /\ \A s \in Slots : phase[s] = "settled" => reg[s] = "offline"

\* The deadline has stopped s and is about to delete its registration.
Reaping(s) == pc = "reapDelete" /\ s \in drain.current

\* What holds as long as nothing has failed.
StoppedAreGone == \A s \in drain.stopped : reg[s] \in {"none", "used"} \/ Reaping(s)
FreedAreGone == \A s \in drain.stopped : phase[s] = "free" => reg[s] = "none"
OnlyStoppedStay ==
    \A s \in Slots : (phase[s] = "killed" /\ ~runnerUnassigned[s]) \/ phase[s] = "settled"
                     => s \in drain.stopped
FreeAreUnused == MaxOrphans = 0 => \A s \in Slots : phase[s] = "free" => reg[s] = "none"

Faultless == StoppedAreGone /\ FreedAreGone /\ OnlyStoppedStay /\ FreeAreUnused

\* The inductive invariant of the drain.
Tidy == Connected /\ DrainOrder /\ StoppedAreOver /\ (faults = 0 => Faultless)

LEMMA NothingFailed ==
    ASSUME TypeOK, NoFault \/ Fault, faults' = 0
    PROVE  faults = 0 /\ ~Fault
BY SizesAssumption DEF TypeOK, NoFault, Fault

LEMMA ConnectedStays ==
    ASSUME TypeOK, Connected, Next
    PROVE  Connected'
BY LoopKeeps, EnvironmentKeeps, LifecycleKeeps DEF Next, Keeps

\* Steps outside the drain, with the lifecycles and GitHub as they were.
LEMMA SteadyTidy ==
    ASSUME TypeOK, Tidy, Connected', UNCHANGED <<lifecycle, reg, drain>>,
           NoFault \/ Fault, aborted => aborted',
           pc' \in DrainPlaces \union {"hook"} => aborted,
           \/ pc' = pc
           \/ pc \notin ReapPlaces /\ pc' \notin {"reapStop", "reapDelete"}
           \/ pc \notin {"reapStop", "reapDelete"} /\ pc' = "stopped"
    PROVE  Tidy'
<1>1. DrainOrder'
  BY DEF Tidy, DrainOrder, DrainPlaces, ReapPlaces
<1>2. StoppedAreOver'
  BY DEF Tidy, StoppedAreOver, lifecycle
<1>3. ASSUME faults' = 0 PROVE Faultless'
  <2>1. faults = 0
    BY <1>3, NothingFailed
  <2>2. StoppedAreGone'
    BY <2>1 DEF Tidy, DrainOrder, Faultless, StoppedAreGone, Reaping, ReapPlaces
  <2> QED
    BY <2>1, <2>2 DEF Tidy, Faultless, FreedAreGone, OnlyStoppedStay, FreeAreUnused, lifecycle
<1> QED
  BY <1>1, <1>2, <1>3 DEF Tidy

\* The loop's own awaits, up to the decision to leave it.
LEMMA WaitPlace ==
    WaitForNextPoll => pc' \in {"capWait", "pollWait"} /\ (pc' = "capWait" => AtHardCap)
BY DEF WaitForNextPoll

LEMMA NextFlavorPlace ==
    ASSUME NEW p, NEW f, NextFlavor(p, f)
    PROVE  pc' \in {"capWait", "pollWait", "count"} /\ (pc' = "capWait" => AtHardCap)
BY WaitPlace DEF NextFlavor

LEMMA CountedPlace ==
    ASSUME NEW r, NEW d, NEW u, NEW v, Counted(r, d, u, v)
    PROVE  /\ pc' \in {"capWait", "pollWait", "count", "recheck"}
           /\ pc' = "capWait" => AtHardCap
<1>1. CASE Decide(d, u, v)
  BY <1>1, NextFlavorPlace DEF Decide
<1>2. CASE pc' = "count"
  BY <1>2
<1> QED
  BY <1>1, <1>2 DEF Counted

LEMMA PollTidy ==
    ASSUME TypeOK, Tidy, Connected',
           \/ ListRepos \/ DetectFlavors \/ SweepList \/ SweepDone \/ CountAsk
           \/ CountFails \/ CountReply \/ RecheckAsk \/ RecheckDenied \/ RecheckAborted
           \/ ClaimTimer \/ PollTimer \/ CapWaitAborted \/ LeaveLoop
    PROVE  Tidy'
<1>1. /\ UNCHANGED <<lifecycle, reg, drain, aborted>>
      /\ NoFault \/ Fault
  BY DEF ListRepos, DetectFlavors, SweepList, SweepDone, CountAsk, CountFails, CountReply, RecheckAsk,
         RecheckDenied, RecheckAborted, ClaimTimer, PollTimer, CapWaitAborted, LeaveLoop, NoFault
<1>2. pc \notin DrainPlaces /\ pc' \notin DrainPlaces
  <2>1. CASE ListRepos \/ RecheckDenied
    BY <2>1, WaitPlace, NextFlavorPlace DEF ListRepos, RecheckDenied, DrainPlaces
  <2>2. CASE DetectFlavors \/ SweepDone
    BY <2>2, NextFlavorPlace DEF DetectFlavors, SweepDone, DrainPlaces
  <2>3. CASE CountAsk \/ CountFails \/ CountReply
    BY <2>3, CountedPlace DEF CountAsk, CountFails, CountReply, DrainPlaces
  <2>4. CASE \/ SweepList \/ RecheckAsk \/ RecheckAborted
             \/ ClaimTimer \/ PollTimer \/ CapWaitAborted \/ LeaveLoop
    BY <2>4 DEF SweepList, RecheckAsk, RecheckAborted, ClaimTimer, PollTimer, CapWaitAborted,
                LeaveLoop, DrainPlaces
  <2> QED
    BY <2>1, <2>2, <2>3, <2>4
<1>3. pc' = "hook" => aborted
  <2>1. CASE ListRepos \/ RecheckDenied
    BY <2>1, WaitPlace, NextFlavorPlace DEF ListRepos, RecheckDenied
  <2>2. CASE DetectFlavors \/ SweepDone
    BY <2>2, NextFlavorPlace DEF DetectFlavors, SweepDone
  <2>3. CASE CountAsk \/ CountFails \/ CountReply
    BY <2>3, CountedPlace DEF CountAsk, CountFails, CountReply
  <2>4. CASE \/ SweepList \/ RecheckAsk \/ RecheckAborted
             \/ ClaimTimer \/ PollTimer \/ CapWaitAborted \/ LeaveLoop
    BY <2>4 DEF SweepList, RecheckAsk, RecheckAborted, ClaimTimer, PollTimer, CapWaitAborted,
                LeaveLoop
  <2> QED
    BY <2>1, <2>2, <2>3, <2>4
<1> QED
  BY <1>1, <1>2, <1>3, SteadyTidy DEF DrainPlaces, ReapPlaces

LEMMA WaitsTidy ==
    ASSUME TypeOK, Tidy, Connected', HookDone \/ DrainSettled \/ ReapTimer
    PROVE  Tidy'
<1>1. /\ UNCHANGED <<lifecycle, reg, drain, aborted>> /\ NoFault
      /\ pc \in {"hook", "draining", "reapWait"} /\ pc' \in {"draining", "stopped"}
      /\ pc = "reapWait" => pc' = "stopped"
  BY DEF HookDone, DrainSettled, ReapTimer, NoFault
<1>2. aborted
  BY <1>1 DEF Tidy, DrainOrder, DrainPlaces
<1> QED
  BY <1>1, <1>2, SteadyTidy DEF DrainPlaces, ReapPlaces

\* What picking the next lifecycle to reap does to the order of the drain.
LEMMA ReapNextOrder ==
    ASSUME NEW left, NEW d, d.stopped = drain.stopped, d \in DrainType, aborted, aborted' = aborted,
           ReapNext(left, d)
    PROVE  /\ DrainOrder' /\ drain'.stopped = drain.stopped
           /\ pc' \in {"reapStop", "reapWait"}
<1>1. CASE left = {}
  BY <1>1 DEF ReapNext, DrainOrder, DrainType, ReapPlaces
<1>2. CASE \E s \in left : pc' = "reapStop"
                           /\ drain' = [d EXCEPT !.remaining = left \ {s}, !.current = {s}]
  BY <1>2 DEF DrainOrder, DrainType, ReapPlaces
<1> QED
  BY <1>1, <1>2 DEF ReapNext

LEMMA DeadlineTidy ==
    ASSUME TypeOK, Tidy, Connected', DrainDeadline
    PROVE  Tidy'
<1>1. /\ UNCHANGED <<phase, runnerUnassigned, reg, aborted, faults>> /\ aborted
      /\ drain.stopped = {} /\ ReapNext(Launches, drain)
  BY DEF DrainDeadline, lifecycle, Tidy, DrainOrder, DrainPlaces, ReapPlaces
<1>2. DrainOrder' /\ drain'.stopped = {}
  BY <1>1, ReapNextOrder DEF TypeOK
<1>3. StoppedAreOver'
  BY <1>1, <1>2 DEF Tidy, StoppedAreOver
<1>4. ASSUME faults' = 0 PROVE Faultless'
  BY <1>1, <1>2, <1>4 DEF Tidy, Faultless, StoppedAreGone, FreedAreGone, OnlyStoppedStay, FreeAreUnused
<1> QED
  BY <1>2, <1>3, <1>4 DEF Tidy

\* Before the abort nothing is stopped.
LEMMA NothingStopped ==
    ASSUME Tidy, ~aborted
    PROVE  drain.stopped = {} /\ drain.current = {} /\ pc \notin DrainPlaces
BY DEF Tidy, DrainOrder, ReapPlaces, DrainPlaces

\* What deleteRunner does to the slots.
LEMMA DeleteEffect ==
    ASSUME TypeOK, Connected, NEW s \in Slots, Delete(s)
    PROVE  /\ runnerUnassigned' = runnerUnassigned
           /\ \A t \in Slots \ {s} : phase'[t] = phase[t] /\ reg'[t] = reg[t]
           /\ phase'[s] \in {phase[s], "free"}
           /\ phase'[s] = "settled" => reg'[s] = reg[s] /\ reg[s] \notin {"offline", "online"}
           /\ phase[s] # "up" => reg'[s] \in {"none", "used"}
           /\ reg[s] = "none" => reg'[s] = "none"
           /\ phase'[s] = "free" => phase[s] = "free" \/ reg'[s] = "none"
<1>1. /\ phase[s] \in Phases /\ reg[s] \in Registrations
      /\ \A t \in Slots \ {s} : phase'[t] = phase[t] /\ reg'[t] = reg[t]
      /\ reg'[s] = Removed(reg[s]) /\ runnerUnassigned' = runnerUnassigned
      /\ phase'[s] = IF Removed(reg[s]) = "none" /\ phase[s] \notin InFlight
                     THEN "free" ELSE phase[s]
  BY DEF Delete, TypeOK, LifecycleOK
<1>2. phase[s] # "up" => reg[s] \in {"none", "offline", "used"}
  BY <1>1 DEF Connected, Registrations
<1> QED
  BY <1>1, <1>2 DEF Removed, InFlight

LEMMA SweepDeleteTidy ==
    ASSUME TypeOK, Tidy, Connected', SweepDelete
    PROVE  Tidy'
<1>0. /\ UNCHANGED <<aborted, drain>> /\ ~aborted /\ pc' \in {"sweepList", "sweepDelete"}
      /\ NoFault \/ Fault
  BY DEF SweepDelete
<1>1. /\ drain.stopped = {} /\ drain.current = {} /\ drain'.stopped = {} /\ drain'.current = {}
  BY <1>0, NothingStopped
<1>2. DrainOrder'
  BY <1>0, <1>1 DEF DrainOrder, DrainPlaces
<1>3. PICK s \in Slots : Delete(s) \/ UNCHANGED <<phase, runnerUnassigned, reg>>
  BY DEF SweepDelete, TypeOK, PollType, lifecycle
<1>4. /\ \A t \in Slots : phase'[t] = "settled" => phase[t] = "settled" /\ reg'[t] = reg[t]
      /\ \A t \in Slots : phase'[t] = "killed" => phase[t] = "killed"
      /\ \A t \in Slots : phase'[t] = "free" =>
             reg'[t] = "none" \/ (phase[t] = "free" /\ (reg[t] = "none" => reg'[t] = "none"))
      /\ runnerUnassigned' = runnerUnassigned
  BY <1>3, DeleteEffect DEF Tidy
<1>5. StoppedAreOver'
  BY <1>1, <1>4 DEF Tidy, StoppedAreOver
<1>6. ASSUME faults' = 0 PROVE Faultless'
  <2>1. faults = 0
    BY <1>0, <1>6, NothingFailed
  <2> QED
    BY <1>1, <1>4, <2>1
       DEF Tidy, Faultless, StoppedAreGone, FreedAreGone, OnlyStoppedStay, FreeAreUnused
<1> QED
  BY <1>2, <1>5, <1>6 DEF Tidy

LEMMA ReapStopTidy ==
    ASSUME TypeOK, Tidy, Connected', ReapStop
    PROVE  Tidy'
<1>0. aborted /\ aborted' = aborted /\ pc = "reapStop" /\ pc' = "reapDelete" /\ (NoFault \/ Fault)
  BY DEF ReapStop, Tidy, DrainOrder, DrainPlaces
<1>1. PICK s \in drain.current :
         \/ /\ phase[s] = "up" /\ NoFault /\ Kill(s)
            /\ drain' = [drain EXCEPT !.stopped = @ \union {s}]
         \/ UNCHANGED <<drain, phase, runnerUnassigned, reg>>
  BY DEF ReapStop, lifecycle
<1>2. s \in Slots /\ drain'.current = drain.current
  BY <1>1 DEF TypeOK, DrainType
<1>3. DrainOrder'
  BY <1>0, <1>2 DEF Tidy, DrainOrder, ReapPlaces
<1>4. CASE UNCHANGED <<drain, phase, runnerUnassigned, reg>>
  <2>1. StoppedAreOver'
    BY <1>4 DEF Tidy, StoppedAreOver
  <2>2. ASSUME faults' = 0 PROVE Faultless'
    <3>1. faults = 0
      BY <1>0, <2>2, NothingFailed
    <3> QED
      BY <1>0, <1>4, <3>1
         DEF Tidy, Faultless, StoppedAreGone, Reaping, FreedAreGone, OnlyStoppedStay, FreeAreUnused
  <2> QED
    BY <1>3, <2>1, <2>2 DEF Tidy
<1>5. CASE phase[s] = "up" /\ NoFault /\ Kill(s) /\ drain' = [drain EXCEPT !.stopped = @ \union {s}]
  <2>1. /\ phase'[s] = "killed" /\ runnerUnassigned' = runnerUnassigned
        /\ \A t \in Slots \ {s} : phase'[t] = phase[t] /\ reg'[t] = reg[t]
        /\ drain'.stopped = drain.stopped \union {s} /\ drain.stopped \subseteq Slots
    BY <1>2, <1>5 DEF Kill, TypeOK, LifecycleOK, DrainType
  <2>2. StoppedAreOver'
    BY <2>1 DEF Tidy, StoppedAreOver
  <2>3. ASSUME faults' = 0 PROVE Faultless'
    <3>1. faults = 0
      BY <1>5, <2>3 DEF NoFault
    <3>2. StoppedAreGone'
      BY <1>0, <1>2, <2>1, <3>1 DEF Tidy, Faultless, StoppedAreGone, Reaping
    <3>3. FreedAreGone' /\ OnlyStoppedStay' /\ FreeAreUnused'
      BY <2>1, <3>1 DEF Tidy, Faultless, FreedAreGone, OnlyStoppedStay, FreeAreUnused
    <3> QED
      BY <3>2, <3>3 DEF Faultless
  <2> QED
    BY <1>3, <2>2, <2>3 DEF Tidy
<1> QED
  BY <1>1, <1>4, <1>5

LEMMA ReapDeleteTidy ==
    ASSUME TypeOK, Tidy, Connected', ReapDelete
    PROVE  Tidy'
<1>0. aborted /\ aborted' = aborted /\ pc = "reapDelete" /\ ReapNext(drain.remaining, drain)
  BY DEF ReapDelete, Tidy, DrainOrder, DrainPlaces
<1>1. DrainOrder' /\ drain'.stopped = drain.stopped
  BY <1>0, ReapNextOrder DEF TypeOK
<1>2. PICK s \in drain.current :
         \/ Delete(s) /\ NoFault
         \/ UNCHANGED <<phase, runnerUnassigned, reg>>
            /\ (Fault \/ (NoFault /\ phase[s] \in {"requesting", "created", "free"}))
  BY DEF ReapDelete, lifecycle
<1>3. /\ s \in Slots /\ drain.stopped \subseteq Slots
      /\ \A t \in drain.current : t = s
  BY <1>2 DEF TypeOK, DrainType, Tidy, DrainOrder
<1>4. CASE Delete(s) /\ NoFault
  <2>1. /\ runnerUnassigned' = runnerUnassigned
        /\ \A t \in Slots \ {s} : phase'[t] = phase[t] /\ reg'[t] = reg[t]
        /\ phase'[s] \in {phase[s], "free"} /\ phase'[s] # "settled"
        /\ phase[s] # "up" => reg'[s] \in {"none", "used"}
        /\ reg[s] = "none" => reg'[s] = "none"
        /\ phase'[s] = "free" => phase[s] = "free" \/ reg'[s] = "none"
    BY <1>3, <1>4, DeleteEffect DEF Tidy, StoppedAreOver
  <2>2. StoppedAreOver'
    BY <1>1, <1>3, <2>1 DEF Tidy, StoppedAreOver
  <2>3. ASSUME faults' = 0 PROVE Faultless'
    <3>1. faults = 0 /\ Faultless
      BY <1>4, <2>3 DEF NoFault, Tidy
    <3>2. s \in drain.stopped => phase[s] # "up"
      BY DEF Tidy, StoppedAreOver
    <3>3. StoppedAreGone'
      BY <1>1, <1>3, <2>1, <3>1, <3>2 DEF Faultless, StoppedAreGone, Reaping
    <3>4. FreedAreGone' /\ OnlyStoppedStay' /\ FreeAreUnused'
      BY <1>1, <1>3, <2>1, <3>1 DEF Faultless, FreedAreGone, OnlyStoppedStay, FreeAreUnused
    <3> QED
      BY <3>3, <3>4 DEF Faultless
  <2> QED
    BY <1>1, <2>2, <2>3 DEF Tidy
<1>5. CASE UNCHANGED <<phase, runnerUnassigned, reg>>
           /\ (Fault \/ (NoFault /\ phase[s] \in {"requesting", "created", "free"}))
  <2>1. StoppedAreOver'
    BY <1>1, <1>5 DEF Tidy, StoppedAreOver
  <2>2. ASSUME faults' = 0 PROVE Faultless'
    <3>1. faults = 0 /\ Faultless /\ phase[s] \in {"requesting", "created", "free"}
      BY <1>5, <2>2, NothingFailed DEF Tidy
    <3>2. s \in drain.stopped => reg[s] = "none"
      BY <3>1 DEF Tidy, StoppedAreOver, Faultless, FreedAreGone
    <3>3. StoppedAreGone'
      BY <1>1, <1>3, <1>5, <3>1, <3>2 DEF Faultless, StoppedAreGone, Reaping
    <3> QED
      BY <1>1, <1>5, <3>1, <3>3 DEF Faultless, FreedAreGone, OnlyStoppedStay, FreeAreUnused
  <2> QED
    BY <1>1, <2>1, <2>2 DEF Tidy
<1> QED
  BY <1>2, <1>4, <1>5

LEMMA ClaimTidy ==
    ASSUME TypeOK, Tidy, Connected', Claim
    PROVE  Tidy'
<1>0. /\ UNCHANGED <<aborted, drain, reg, faults>> /\ ~aborted
      /\ pc' \in {"capWait", "pollWait", "claimedWait"}
  BY WaitPlace DEF Claim
<1>1. drain.stopped = {} /\ drain.current = {}
  BY <1>0, NothingStopped
<1>2. DrainOrder'
  BY <1>0, <1>1 DEF DrainOrder, DrainPlaces
<1>3. CASE UNCHANGED lifecycle
  BY <1>0, <1>1, <1>2, <1>3
     DEF Tidy, StoppedAreOver, Faultless, StoppedAreGone, FreedAreGone, OnlyStoppedStay,
         FreeAreUnused, lifecycle
<1>4. ASSUME NEW s \in Slots, Mint(s, poll.target, poll.flavor) PROVE Tidy'
  <2>1. /\ phase'[s] = "requesting"
        /\ \A t \in Slots \ {s} : phase'[t] = phase[t] /\ runnerUnassigned'[t] = runnerUnassigned[t]
    BY <1>4 DEF Mint, TypeOK, LifecycleOK
  <2> QED
    BY <1>0, <1>1, <1>2, <2>1
       DEF Tidy, StoppedAreOver, Faultless, StoppedAreGone, FreedAreGone, OnlyStoppedStay, FreeAreUnused
<1> QED
  BY <1>3, <1>4 DEF Claim

\* A step of one slot that leaves the drain alone: what it has to respect.
LEMMA SlotTidy ==
    ASSUME TypeOK, Tidy, Connected', NEW s \in Slots, UNCHANGED <<drain, aborted>>,
           pc' = pc \/ (pc = "capWait" /\ pc' = "list"), NoFault \/ Fault,
           \A t \in Slots \ {s} : /\ phase'[t] = phase[t] /\ reg'[t] = reg[t]
                                  /\ runnerUnassigned'[t] = runnerUnassigned[t],
           s \in drain.stopped => phase'[s] \in {"killed", "deregistering", "settled", "free"},
           phase'[s] = "settled" => reg'[s] = "offline",
           faults' = 0 =>
               /\ s \in drain.stopped => reg'[s] \in {"none", reg[s]}
               /\ phase'[s] = "free" => reg'[s] = "none"
               /\ (phase'[s] = "killed" /\ ~runnerUnassigned'[s]) \/ phase'[s] = "settled"
                  => s \in drain.stopped
    PROVE  Tidy'
<1>1. drain.stopped \subseteq Slots
  BY DEF TypeOK, DrainType
<1>2. DrainOrder'
  BY DEF Tidy, DrainOrder, DrainPlaces, ReapPlaces
<1>3. StoppedAreOver'
  BY <1>1 DEF Tidy, StoppedAreOver
<1>4. ASSUME faults' = 0 PROVE Faultless'
  <2>1. faults = 0 /\ Faultless
    BY <1>4, NothingFailed DEF Tidy
  <2>2. StoppedAreGone'
    BY <1>1, <1>4, <2>1 DEF Faultless, StoppedAreGone, Reaping
  <2>3. FreedAreGone' /\ OnlyStoppedStay' /\ FreeAreUnused'
    BY <1>1, <1>4, <2>1 DEF Faultless, FreedAreGone, OnlyStoppedStay, FreeAreUnused
  <2> QED
    BY <2>2, <2>3 DEF Faultless
<1> QED
  BY <1>2, <1>3, <1>4 DEF Tidy

\* The finally of a lifecycle.
LEMMA SettleTidy ==
    ASSUME TypeOK, Tidy, Connected', NEW s \in Slots, NEW left, NEW known \in BOOLEAN,
           Settle(s, left, known), UNCHANGED <<drain, aborted>>, NoFault \/ Fault,
           known \/ s \notin drain.stopped,
           known => left \in {"none", "offline"},
           faults' = 0 => /\ left # "none" => known /\ s \in drain.stopped
                          /\ s \in drain.stopped => left \in {"none", reg[s]}
    PROVE  Tidy'
<1>1. /\ phase'[s] = IF known /\ left # "none" THEN "settled" ELSE "free"
      /\ reg'[s] = left
      /\ \A t \in Slots \ {s} : /\ phase'[t] = phase[t] /\ reg'[t] = reg[t]
                                /\ runnerUnassigned'[t] = runnerUnassigned[t]
  BY DEF Settle, DecrementUnassignedOnce, TypeOK, LifecycleOK
<1>2. pc' = pc \/ (pc = "capWait" /\ pc' = "list")
  BY DEF Settle, Notify
<1>3. s \in drain.stopped => phase'[s] \in {"killed", "deregistering", "settled", "free"}
  BY <1>1
<1>4. phase'[s] = "settled" => reg'[s] = "offline"
  BY <1>1
<1>5. ASSUME faults' = 0
      PROVE  /\ s \in drain.stopped => reg'[s] \in {"none", reg[s]}
             /\ phase'[s] = "free" => reg'[s] = "none"
             /\ (phase'[s] = "killed" /\ ~runnerUnassigned'[s]) \/ phase'[s] = "settled"
                => s \in drain.stopped
  BY <1>1, <1>5
<1> QED
  BY <1>1, <1>2, <1>3, <1>4, <1>5, SlotTidy

LEMMA LifecycleTidy ==
    ASSUME TypeOK, Tidy, Connected', NEW s \in Slots, Lifecycle(s)
    PROVE  Tidy'
<1>0. /\ phase[s] \in Phases /\ reg[s] \in Registrations
      /\ s \in drain.stopped => phase[s] \in {"killed", "deregistering", "settled", "free"}
      /\ phase[s] # "up" => reg[s] \in {"none", "offline", "used"}
  BY DEF TypeOK, LifecycleOK, Tidy, StoppedAreOver, Connected, Registrations
<1>1. CASE JitCreated(s) \/ JitReturns(s) \/ LaunchUp(s) \/ LaunchFails(s)
  <2>1. /\ UNCHANGED <<drain, aborted, runnerUnassigned, pc>> /\ (NoFault \/ Fault)
        /\ s \in drain.stopped => phase'[s] = "deregistering" /\ reg'[s] = reg[s]
        /\ phase'[s] \in {"created", "launching", "up", "deregistering"}
        /\ \A t \in Slots \ {s} : phase'[t] = phase[t] /\ reg'[t] = reg[t]
    BY <1>0, <1>1 DEF JitCreated, JitReturns, LaunchUp, LaunchFails, NoFault, TypeOK, LifecycleOK
  <2> QED
    BY <2>1, SlotTidy
<1>2. CASE JitFails(s)
  <2>1. /\ Settle(s, reg[s], FALSE) /\ UNCHANGED <<drain, aborted>> /\ Fault
        /\ s \notin drain.stopped
    BY <1>0, <1>2 DEF JitFails
  <2>2. faults' # 0
    BY <2>1, NothingFailed
  <2> QED
    BY <2>1, <2>2, SettleTidy
<1>3. CASE StartSeen(s)
  <2>1. /\ UNCHANGED <<drain, aborted, phase, reg, pc, faults>> /\ phase[s] = "up"
        /\ \A t \in Slots \ {s} : runnerUnassigned'[t] = runnerUnassigned[t]
    BY <1>3 DEF StartSeen, DecrementUnassignedOnce, TypeOK, LifecycleOK
  <2> QED
    BY <1>0, <2>1, SlotTidy DEF NoFault
<1>4. CASE IdleTimeout(s) \/ ResourceDies(s)
  <2>1. /\ UNCHANGED <<drain, aborted, pc, runnerUnassigned>> /\ phase[s] = "up"
        /\ Fault \/ (NoFault /\ runnerUnassigned[s])
        /\ phase'[s] = "killed"
        /\ \A t \in Slots \ {s} : phase'[t] = phase[t] /\ reg'[t] = reg[t]
    BY <1>4 DEF IdleTimeout, ResourceDies, Kill, TypeOK, LifecycleOK
  <2>2. faults' = 0 => runnerUnassigned[s]
    BY <2>1, NothingFailed
  <2> QED
    BY <1>0, <2>1, <2>2, SlotTidy
<1>5. CASE LaunchSucceeds(s)
  <2> DEFINE left == IF reg[s] = "used" THEN "none" ELSE reg[s]
  <2>1. /\ Settle(s, left, TRUE) /\ UNCHANGED <<drain, aborted>> /\ NoFault
        /\ left \in {"none", "offline"} /\ left \in {"none", reg[s]}
    BY <1>0, <1>5 DEF LaunchSucceeds, NoFault
  <2>2. faults' = 0 /\ left # "none" => s \in drain.stopped
    BY <1>5 DEF LaunchSucceeds, Tidy, Faultless, OnlyStoppedStay
  <2> HIDE DEF left
  <2> QED
    BY <2>1, <2>2, SettleTidy
<1>6. CASE Deregister(s)
  <2>1. PICK left \in {"none", "offline"} :
           /\ Settle(s, left, TRUE) /\ UNCHANGED <<drain, aborted>>
           /\ Fault \/ (NoFault /\ left = "none")
    BY <1>0, <1>6 DEF Deregister
  <2>2. faults' = 0 => left = "none"
    BY <2>1, NothingFailed
  <2> QED
    BY <2>1, <2>2, SettleTidy
<1> QED
  BY <1>1, <1>2, <1>3, <1>4, <1>5, <1>6 DEF Lifecycle

LEMMA EnvironmentTidy ==
    ASSUME TypeOK, Tidy, Connected', Environment
    PROVE  Tidy'
<1>1. CASE Abort \/ \E r \in Repos : BackoffEnds(r) \/ TurnsPublic(r)
  BY <1>1, SteadyTidy DEF Abort, BackoffEnds, TurnsPublic, NoFault, Tidy, DrainOrder
<1>2. CASE \E k \in Keys : JobArrives(k) \/ JobCancelled(k)
  BY <1>2, SteadyTidy DEF JobArrives, JobCancelled, NoFault, Tidy, DrainOrder
<1>3. ASSUME NEW s \in Slots, RunnerConnects(s) \/ AssignJob(s) \/ JobEnds(s) PROVE Tidy'
  <2>1. /\ UNCHANGED <<drain, aborted, pc, phase, runnerUnassigned, faults>> /\ phase[s] = "up"
        /\ \A t \in Slots \ {s} : reg'[t] = reg[t]
    BY <1>3 DEF RunnerConnects, AssignJob, JobEnds, lifecycle, TypeOK, LifecycleOK
  <2>2. s \notin drain.stopped
    BY <2>1 DEF Tidy, StoppedAreOver
  <2> QED
    BY <2>1, <2>2, SlotTidy DEF NoFault
<1> QED
  BY <1>1, <1>2, <1>3 DEF Environment

\* Without an earlier process's registrations every slot starts unused.
LEMMA InitTidy == Init => Tidy
<1> SUFFICES ASSUME Init PROVE Tidy
  OBVIOUS
<1>1. Connected /\ DrainOrder /\ StoppedAreOver
  BY DEF Init, NoDrain, Connected, DrainOrder, DrainPlaces, StoppedAreOver
<1>2. StoppedAreGone /\ FreedAreGone /\ OnlyStoppedStay
  BY DEF Init, NoDrain, StoppedAreGone, FreedAreGone, OnlyStoppedStay
<1>3. FreeAreUnused
  <2> SUFFICES ASSUME MaxOrphans = 0 PROVE \A s \in Slots : reg[s] = "none"
    BY DEF FreeAreUnused
  <2> DEFINE orphans == {s \in Slots : repo[s] # 0}
  <2>1. IsFiniteSet(orphans)
    BY FS_Subset, SizesAssumption
  <2>2. Cardinality(orphans) = 0
    BY <2>1, FS_CardinalityType DEF Init
  <2>3. orphans = {}
    BY <2>1, <2>2, FS_EmptySet
  <2> QED
    BY <2>3 DEF Init
<1> QED
  BY <1>1, <1>2, <1>3 DEF Tidy, Faultless

LEMMA NextTidy ==
    ASSUME TypeOK, Tidy, [Next]_vars
    PROVE  Tidy'
<1>1. CASE Next
  <2>1. Connected'
    BY <1>1, ConnectedStays DEF Tidy
  <2>2. CASE Loop
    BY <2>1, <2>2, PollTidy, WaitsTidy, DeadlineTidy, SweepDeleteTidy, ReapStopTidy,
       ReapDeleteTidy, ClaimTidy DEF Loop
  <2> QED
    BY <1>1, <2>1, <2>2, LifecycleTidy, EnvironmentTidy DEF Next
<1>2. CASE UNCHANGED vars
  BY <1>2 DEF vars, lifecycle, Tidy, Connected, DrainOrder, StoppedAreOver, Faultless,
              StoppedAreGone, Reaping, FreedAreGone, OnlyStoppedStay, FreeAreUnused
<1> QED
  BY <1>1, <1>2

\* The drain is in order in every reachable state.
THEOREM DrainTidy == Spec => []Tidy
BY InitTidy, NextTidy, TypeCorrect, PTL DEF Spec

\* No path of the dispatcher leaves a registration behind by itself: in a run
\* without failures and without an earlier process's registrations, GitHub
\* holds none for a runner whose lifecycle is over.
THEOREM NothingLeaks == Spec => []NothingLeftBehind
<1>1. TypeOK /\ Tidy => NothingLeftBehind
  <2> SUFFICES ASSUME TypeOK, Tidy, faults = 0, MaxOrphans = 0, NEW s \in Slots \ Launches
               PROVE  reg[s] = "none" \/ s \in drain.current
    BY DEF NothingLeftBehind
  <2>1. phase[s] \in {"free", "settled"}
    BY DEF TypeOK, LifecycleOK, Launches, Phases
  <2> QED
    BY <2>1 DEF Tidy, StoppedAreOver, Faultless, StoppedAreGone, Reaping, OnlyStoppedStay, FreeAreUnused
<1> QED
  BY <1>1, TypeCorrect, DrainTidy, PTL

\* Every runner whose stop() the deadline called is off GitHub when the
\* dispatcher reports that it stopped, unless something failed.
THEOREM ReapedGone == Spec => []ReapedAreGone
<1>1. Tidy => ReapedAreGone
  BY DEF Tidy, Faultless, StoppedAreGone, Reaping, ReapedAreGone
<1> QED
  BY <1>1, DrainTidy, PTL

-----------------------------------------------------------------------------
(* What the liveness properties rest on.  Fairness is outside these proofs; *)
(* that somebody can always move, and that the drain cannot go on for ever, *)
(* are not.                                                                 *)

\* At the cap the loop waits for a notification and nothing else.  As long as it
\* waits, a lifecycle that will send one is in launches.
NotifierLeft == pc = "capWait" => AtHardCap /\ Launches # {}

LEMMA CapIsHeld ==
    ASSUME TypeOK, AtHardCap
    PROVE  Launches # {}
BY FS_EmptySet, SizesAssumption DEF AtHardCap

LEMMA LoopCap ==
    ASSUME TypeOK, Loop, pc' = "capWait"
    PROVE  UNCHANGED lifecycle /\ AtHardCap
<1>1. CASE ListRepos \/ RecheckDenied
  BY <1>1, WaitPlace, NextFlavorPlace DEF ListRepos, RecheckDenied
<1>2. CASE DetectFlavors \/ SweepDone
  BY <1>2, NextFlavorPlace DEF DetectFlavors, SweepDone
<1>3. CASE CountAsk \/ CountFails \/ CountReply
  BY <1>3, CountedPlace DEF CountAsk, CountFails, CountReply
<1>4. CASE Claim
  BY <1>4, WaitPlace DEF Claim
<1>5. CASE ClaimTimer
  BY <1>5 DEF ClaimTimer
<1>6. CASE DrainDeadline \/ ReapDelete
  <2>1. \A left, d : ReapNext(left, d) => pc' \in {"reapWait", "reapStop"}
    BY DEF ReapNext
  <2> QED
    BY <1>6, <2>1 DEF DrainDeadline, ReapDelete
<1>7. CASE \/ SweepList \/ SweepDelete \/ RecheckAsk \/ RecheckAborted \/ PollTimer
           \/ CapWaitAborted \/ LeaveLoop \/ HookDone \/ DrainSettled \/ ReapStop \/ ReapTimer
  BY <1>7 DEF SweepList, SweepDelete, RecheckAsk, RecheckAborted, PollTimer, CapWaitAborted,
              LeaveLoop, HookDone, DrainSettled, ReapStop, ReapTimer
<1> QED
  BY <1>1, <1>2, <1>3, <1>4, <1>5, <1>6, <1>7 DEF Loop

LEMMA NextCap ==
    ASSUME TypeOK, pc = "capWait" => AtHardCap, [Next]_vars, pc' = "capWait"
    PROVE  AtHardCap'
<1>1. Quiet => Launches' = Launches
  BY DEF Quiet, Launches
<1>2. UNCHANGED phase => Launches' = Launches
  BY DEF Launches
<1>3. CASE Loop
  BY <1>2, <1>3, LoopCap DEF lifecycle, AtHardCap
<1>4. CASE Environment
  BY <1>1, <1>4, EnvironmentQuiet DEF AtHardCap
<1>5. ASSUME NEW s \in Slots, Lifecycle(s) PROVE AtHardCap'
  <2>1. CASE Quiet /\ pc' = pc
    BY <1>1, <2>1 DEF AtHardCap
  <2>2. CASE Starts(s)
    BY <1>2, <2>2 DEF Starts, AtHardCap
  <2>3. ~Settles(s)
    BY DEF Settles, Settle, Notify
  <2> QED
    BY <1>5, <2>1, <2>2, <2>3, LifecycleKinds
<1>6. CASE UNCHANGED vars
  BY <1>2, <1>6 DEF vars, lifecycle, AtHardCap
<1> QED
  BY <1>3, <1>4, <1>5, <1>6 DEF Next

\* No wake-up is lost at the cap: whatever settles between the decision to wait
\* and the wait, the loop waits for slotFreed only while a lifecycle that holds
\* the cap can still notify it.
THEOREM NoWakeUpLost == Spec => []NotifierLeft
<1> DEFINE J == pc = "capWait" => AtHardCap
<1>1. Init => J
  BY DEF Init
<1>2. TypeOK /\ J /\ [Next]_vars => J'
  BY NextCap
<1>3. TypeOK /\ J => NotifierLeft
  BY CapIsHeld DEF NotifierLeft
<1> QED
  BY <1>1, <1>2, <1>3, TypeCorrect, PTL DEF Spec

\* How many more steps of its own the drain can take.
DrainSteps ==
    LET left == 2 * Cardinality(drain.remaining)
    IN  CASE pc = "hook" -> 2 * Cardinality(Slots) + 4
          [] pc = "draining" -> 2 * Cardinality(Slots) + 3
          [] pc = "reapStop" -> left + 3
          [] pc = "reapDelete" -> left + 2
          [] pc = "reapWait" -> 1
          [] OTHER -> 0

\* A step of the drain brings its end nearer, and no other step moves it.
DrainAdvance ==
    pc \in DrainPlaces \union {"hook"} =>
        /\ Loop => pc' \in DrainPlaces /\ DrainSteps' < DrainSteps
        /\ ~Loop => UNCHANGED <<pc, drain>>

DrainAdvances == [][DrainAdvance]_vars

LEMMA RemainingCount ==
    ASSUME NEW S \in SUBSET Slots
    PROVE  /\ IsFiniteSet(S) /\ Cardinality(S) \in Nat /\ Cardinality(S) <= Cardinality(Slots)
           /\ \A s \in S : Cardinality(S \ {s}) = Cardinality(S) - 1
BY FS_Subset, FS_CardinalityType, FS_RemoveElement, SizesAssumption

LEMMA ReapNextSteps ==
    ASSUME NEW left \in SUBSET Slots, drain \in DrainType, ReapNext(left, drain)
    PROVE  DrainSteps' \in 0 .. 2 * Cardinality(left) + 1 /\ pc' \in DrainPlaces
<1>0. Cardinality(left) \in Nat
  BY RemainingCount
<1>1. CASE left = {}
  BY <1>0, <1>1 DEF ReapNext, DrainSteps, DrainPlaces
<1>2. ASSUME NEW s \in left, pc' = "reapStop",
             drain' = [drain EXCEPT !.remaining = left \ {s}, !.current = {s}]
      PROVE  DrainSteps' \in 0 .. 2 * Cardinality(left) + 1 /\ pc' \in DrainPlaces
  <2>1. drain'.remaining = left \ {s}
    BY <1>2 DEF DrainType
  <2>2. Cardinality(left \ {s}) = Cardinality(left) - 1
    BY <1>2, RemainingCount
  <2>3. DrainSteps' = 2 * Cardinality(left \ {s}) + 3
    BY <1>2, <2>1 DEF DrainSteps
  <2> QED
    BY <1>0, <1>2, <2>2, <2>3 DEF DrainPlaces
<1> QED
  BY <1>1, <1>2 DEF ReapNext

LEMMA DrainStepAdvances ==
    ASSUME TypeOK, Loop, pc \in DrainPlaces \union {"hook"}
    PROVE  pc' \in DrainPlaces /\ DrainSteps' < DrainSteps
<1>0. /\ drain \in DrainType /\ drain.remaining \in SUBSET Slots
      /\ Cardinality(drain.remaining) \in Nat /\ Cardinality(Slots) \in Nat
      /\ Cardinality(drain.remaining) <= Cardinality(Slots)
      /\ Launches \in SUBSET Slots
  BY RemainingCount DEF TypeOK, DrainType, Launches
<1>1. CASE HookDone \/ DrainSettled \/ ReapTimer
  <2>1. /\ pc = "hook" => pc' \in {"draining", "stopped"}
        /\ pc \in {"draining", "reapWait"} => pc' = "stopped"
        /\ pc \in {"hook", "draining", "reapWait"}
    BY <1>1 DEF HookDone, DrainSettled, ReapTimer
  <2> QED
    BY <1>0, <2>1 DEF DrainSteps, DrainPlaces
<1>2. CASE DrainDeadline
  <2>1. pc = "draining" /\ ReapNext(Launches, drain)
    BY <1>2 DEF DrainDeadline
  <2>2. DrainSteps' \in 0 .. 2 * Cardinality(Launches) + 1 /\ pc' \in DrainPlaces
    BY <1>0, <2>1, ReapNextSteps
  <2>3. Cardinality(Launches) \in Nat /\ Cardinality(Launches) <= Cardinality(Slots)
    BY <1>0, RemainingCount
  <2>4. DrainSteps = 2 * Cardinality(Slots) + 3
    BY <2>1 DEF DrainSteps
  <2> QED
    BY <1>0, <2>2, <2>3, <2>4
<1>3. CASE ReapStop
  <2>1. pc = "reapStop" /\ pc' = "reapDelete" /\ drain'.remaining = drain.remaining
    BY <1>0, <1>3 DEF ReapStop, DrainType
  <2> QED
    BY <1>0, <2>1 DEF DrainSteps, DrainPlaces
<1>4. CASE ReapDelete
  <2>1. pc = "reapDelete" /\ ReapNext(drain.remaining, drain)
    BY <1>4 DEF ReapDelete
  <2>2. DrainSteps' \in 0 .. 2 * Cardinality(drain.remaining) + 1 /\ pc' \in DrainPlaces
    BY <1>0, <2>1, ReapNextSteps
  <2>3. DrainSteps = 2 * Cardinality(drain.remaining) + 2
    BY <2>1 DEF DrainSteps
  <2> QED
    BY <1>0, <2>2, <2>3
<1>5. CASE \/ ListRepos \/ DetectFlavors \/ SweepList \/ SweepDelete \/ SweepDone
           \/ CountAsk \/ CountFails \/ CountReply \/ RecheckAsk \/ RecheckDenied \/ RecheckAborted \/ Claim
           \/ ClaimTimer \/ PollTimer \/ CapWaitAborted \/ LeaveLoop
  BY <1>5 DEF ListRepos, DetectFlavors, SweepList, SweepDelete, SweepDone, CountAsk, CountFails, CountReply,
              RecheckAsk, RecheckDenied, RecheckAborted, Claim, ClaimTimer, PollTimer,
              CapWaitAborted, LeaveLoop, DrainPlaces
<1> QED
  BY <1>1, <1>2, <1>3, <1>4, <1>5 DEF Loop

\* Once the loop is left the drain ends after at most two steps of its own for
\* each slot and four more, whatever the lifecycles, GitHub and the signal do
\* in between.
THEOREM DrainEnds == Spec => DrainAdvances
<1>1. ASSUME TypeOK, Next, ~Loop, pc \in DrainPlaces \union {"hook"}
      PROVE  UNCHANGED <<pc, drain>>
  <2>1. CASE Environment
    BY <2>1 DEF Environment, Abort, BackoffEnds, TurnsPublic, JobArrives, JobCancelled,
                RunnerConnects, AssignJob, JobEnds
  <2>2. ASSUME NEW s \in Slots, Lifecycle(s) PROVE UNCHANGED <<pc, drain>>
    <3>1. drain' = drain
      BY <2>2 DEF Lifecycle, JitCreated, JitReturns, JitFails, LaunchUp, StartSeen, IdleTimeout,
                  ResourceDies, LaunchSucceeds, LaunchFails, Deregister
    <3>2. Starts(s) \/ Settles(s) => pc' = pc
      BY <1>1 DEF Starts, Settles, Settle, Notify, DrainPlaces
    <3> QED
      BY <1>1, <2>2, <3>1, <3>2, LifecycleKinds
  <2> QED
    BY <1>1, <2>1, <2>2 DEF Next
<1>2. TypeOK /\ [Next]_vars => [DrainAdvance]_vars
  BY <1>1, DrainStepAdvances DEF DrainAdvance
<1> QED
  BY <1>2, TypeCorrect, PTL DEF Spec, DrainAdvances

=============================================================================
