----------------------- MODULE ContainerLaunchProofs -----------------------
(***************************************************************************)
(* ContainerLaunch for any number of launches and faults: the inductive    *)
(* invariant, and from it that reapOrphans spares the launches of its own  *)
(* process, that control.stop returns after the teardown, that jobs are    *)
(* kept, and that a launch that is up has a bounded number of steps left.  *)
(***************************************************************************)
EXTENDS ContainerLaunch, TLAPS

LEMMA InitInv == Init => IndInv
BY LaunchAssumption DEF Init, IndInv, TypeOK, ActiveIsOwned, ListedIsOver, TornDown, Owned

\* Every step keeps the types.
LEMMA TypeStep ==
    ASSUME TypeOK, [Next]_vars PROVE TypeOK'
<1>0. Fault => faults' \in 0 .. MaxFaults
  <2>1. faults \in 0 .. MaxFaults BY DEF TypeOK
  <2>2. QED BY <2>1, LaunchAssumption DEF Fault
<1> USE DEF TypeOK
<1>1. ASSUME NEW n \in Names, Launch(n) PROVE TypeOK'
  <2>1. CASE PrepareFails(n) BY <1>0, <2>1 DEF PrepareFails, Goes, reap
  <2>2. CASE Spawn(n) BY <2>2 DEF Spawn, Goes, reap
  <2>3. CASE JobStarts(n) BY <2>3 DEF JobStarts, reap
  <2>4. CASE JobStartThrows(n) BY <1>0, <2>4 DEF JobStartThrows, Settle, Goes, reap
  <2>5. CASE ChildErrors(n) BY <1>0, <2>5 DEF ChildErrors, Settle, Goes, reap
  <2>6. ASSUME NEW ok \in BOOLEAN, ChildCloses(n, ok) PROVE TypeOK'
    <3>1. Outcome(n, ok) \in {"none", "job", "none started", "error"} BY DEF Outcome
    <3>2. QED BY <2>6, <3>1 DEF ChildCloses, Settle, Goes, reap
  <2>7. CASE Timer(n)
    <3>1. CASE IdleFires(n) BY <3>1 DEF IdleFires, Terminate, reap
    <3>2. CASE LifetimeFires(n) BY <3>2 DEF LifetimeFires, Terminate, reap
    <3>3. CASE KillFires(n) BY <3>3 DEF KillFires, reap
    <3>4. CASE ForceFires(n) BY <3>4 DEF ForceFires, Settle, Goes, reap
    <3>5. QED BY <2>7, <3>1, <3>2, <3>3, <3>4 DEF Timer
  <2>8. CASE Teardown(n)
    <3>1. CASE RemoveContainer(n) BY <3>1 DEF RemoveContainer, Goes, reap
    <3>2. CASE RemoveFails(n) BY <1>0, <3>2 DEF RemoveFails, Goes, reap
    <3>3. CASE CleanupDone(n) BY <3>3 DEF CleanupDone, Goes, reap
    <3>4. QED BY <2>8, <3>1, <3>2, <3>3 DEF Teardown
  <2>9. CASE Stop(n) BY <2>9 DEF Stop, Terminate, reap
  <2>10. CASE StopReturns(n) BY <2>10 DEF StopReturns, reap
  <2>11. QED BY <1>1, <2>1, <2>2, <2>3, <2>4, <2>5, <2>6, <2>7, <2>8, <2>9, <2>10 DEF Launch
<1>2. ASSUME NEW n \in Names, Runtime(n) PROVE TypeOK'
  <2>1. CASE ContainerStarts(n) BY <1>0, <2>1 DEF ContainerStarts, launch, reap
  <2>2. CASE NeverCreated(n) BY <2>2 DEF NeverCreated, launch, reap
  <2>3. CASE ContainerExits(n) BY <2>3 DEF ContainerExits, launch, reap
  <2>4. QED BY <1>2, <2>1, <2>2, <2>3 DEF Runtime
<1>3. CASE Reap
  <2>1. CASE ReapList BY <2>1 DEF ReapList, launch
  <2>2. CASE ReapFilter BY <2>2 DEF ReapFilter, launch
  <2>3. CASE ReapDone BY <2>3 DEF ReapDone, launch
  <2>4. ASSUME NEW n \in Names, ReapRemove(n) PROVE TypeOK'
    BY <1>0, <2>4 DEF ReapRemove, launch
  <2>5. QED BY <1>3, <2>1, <2>2, <2>3, <2>4 DEF Reap
<1>4. CASE Crash BY <1>0, <1>4 DEF Crash
<1>5. CASE UNCHANGED vars BY <1>5 DEF vars, launch, reap
<1>6. QED BY <1>1, <1>2, <1>3, <1>4, <1>5 DEF Next

\* What IndInv says of one launch.
Good(m) ==
    /\ m \in active <=> Owned(m)
    /\ m \in listed => phase[m] # "new" /\ (reaper = "removing" => ~Owned(m))
    /\ phase[m] = "new" => ctr[m] = "absent" /\ stop[m] = "no"
    /\ stop[m] = "back" => phase[m] = "done"
    /\ faults = 0 /\ phase[m] \in {"cleaning", "done"} => ctr[m] \notin {"running", "exited"}

LEMMA OneByOne ==
    /\ IndInv => TypeOK /\ \A m \in Names : Good(m)
    /\ TypeOK /\ (\A m \in Names : Good(m)) => IndInv
<1>1. TypeOK => active \subseteq Names /\ listed \subseteq Names BY DEF TypeOK
<1>2. QED BY <1>1 DEF IndInv, ActiveIsOwned, ListedIsOver, TornDown, Good

LEMMA OneByOnePrimed == TypeOK' /\ (\A m \in Names : Good(m)') => IndInv'
<1>1. TypeOK' => active' \subseteq Names /\ listed' \subseteq Names BY DEF TypeOK
<1>2. QED BY <1>1 DEF IndInv, ActiveIsOwned, ListedIsOver, TornDown, Good, Owned

\* A step of a launch keeps what is said of every launch.
LEMMA LaunchKeeps ==
    ASSUME TypeOK, NEW m \in Names, Good(m), NEW n \in Names, Launch(n)
    PROVE  Good(m)'
<1>0. faults \in Nat /\ (Fault => faults' # 0)
  <2>1. faults \in 0 .. MaxFaults BY DEF TypeOK
  <2>2. QED BY <2>1, LaunchAssumption DEF Fault
<1>t. /\ phase \in [Names -> {"new", "up", "settled", "cleaning", "done", "lost"}]
      /\ stop \in [Names -> {"no", "waiting", "back"}]
      /\ ctr \in [Names -> {"absent", "asked", "running", "exited", "gone"}]
  BY DEF TypeOK
<1> USE <1>t DEF Good, Owned
<1>1. CASE PrepareFails(n) BY <1>0, <1>1 DEF PrepareFails, Goes, reap
<1>2. CASE Spawn(n) BY <1>2 DEF Spawn, Goes, reap
<1>3. CASE JobStarts(n) BY <1>3 DEF JobStarts, reap
<1>4. CASE JobStartThrows(n) BY <1>0, <1>4 DEF JobStartThrows, Settle, Goes, reap
<1>5. CASE ChildErrors(n) BY <1>0, <1>5 DEF ChildErrors, Settle, Goes, reap
<1>6. ASSUME NEW ok \in BOOLEAN, ChildCloses(n, ok) PROVE Good(m)'
  <2>1. UNCHANGED <<stop, ctr, active, reaper, listed, faults>>
    BY <1>6 DEF ChildCloses, reap
  <2>2. CASE Settle(n, Outcome(n, ok)) BY <2>1, <2>2 DEF Settle, Goes
  <2>3. CASE phase' = phase BY <2>1, <2>3
  <2>4. QED BY <1>6, <2>2, <2>3 DEF ChildCloses
<1>7. CASE Timer(n)
  <2>1. CASE IdleFires(n) BY <2>1 DEF IdleFires, reap
  <2>2. CASE LifetimeFires(n) BY <2>2 DEF LifetimeFires, reap
  <2>3. CASE KillFires(n) BY <2>3 DEF KillFires, reap
  <2>4. CASE ForceFires(n) BY <2>4 DEF ForceFires, Settle, Goes, reap
  <2>5. QED BY <1>7, <2>1, <2>2, <2>3, <2>4 DEF Timer
<1>8. CASE Teardown(n)
  <2>1. CASE RemoveContainer(n) BY <2>1 DEF RemoveContainer, Goes, reap
  <2>2. CASE RemoveFails(n) BY <1>0, <2>2 DEF RemoveFails, Goes, reap
  <2>3. CASE CleanupDone(n) BY <2>3 DEF CleanupDone, Goes, reap
  <2>4. QED BY <1>8, <2>1, <2>2, <2>3 DEF Teardown
<1>9. CASE Stop(n) BY <1>9 DEF Stop, reap
<1>10. CASE StopReturns(n) BY <1>10 DEF StopReturns, reap
<1>11. QED
  BY <1>1, <1>2, <1>3, <1>4, <1>5, <1>6, <1>7, <1>8, <1>9, <1>10 DEF Launch

\* So do the runtime, reapOrphans and a crash.
LEMMA OthersKeep ==
    ASSUME TypeOK, NEW m \in Names, Good(m),
           (\E n \in Names : Runtime(n)) \/ Reap \/ Crash \/ UNCHANGED vars
    PROVE  Good(m)'
<1>0. faults \in Nat /\ (Fault => faults' # 0)
  <2>1. faults \in 0 .. MaxFaults BY DEF TypeOK
  <2>2. QED BY <2>1, LaunchAssumption DEF Fault
<1>t. /\ phase \in [Names -> {"new", "up", "settled", "cleaning", "done", "lost"}]
      /\ stop \in [Names -> {"no", "waiting", "back"}]
      /\ ctr \in [Names -> {"absent", "asked", "running", "exited", "gone"}]
  BY DEF TypeOK
<1> USE <1>t DEF Good, Owned
<1>1. ASSUME NEW n \in Names, Runtime(n) PROVE Good(m)'
  <2>1. CASE ContainerStarts(n) BY <1>0, <2>1 DEF ContainerStarts, launch, reap
  <2>2. CASE NeverCreated(n) BY <2>2 DEF NeverCreated, launch, reap
  <2>3. CASE ContainerExits(n) BY <2>3 DEF ContainerExits, launch, reap
  <2>4. QED BY <1>1, <2>1, <2>2, <2>3 DEF Runtime
<1>2. CASE Reap
  <2>1. CASE ReapList BY <2>1 DEF ReapList, launch
  <2>2. CASE ReapFilter BY <2>2 DEF ReapFilter, launch
  <2>3. CASE ReapDone BY <2>3 DEF ReapDone, launch
  <2>4. ASSUME NEW n \in Names, ReapRemove(n) PROVE Good(m)'
    BY <1>0, <2>4 DEF ReapRemove, launch
  <2>5. QED BY <1>2, <2>1, <2>2, <2>3, <2>4 DEF Reap
<1>3. CASE Crash BY <1>0, <1>3 DEF Crash
<1>4. CASE UNCHANGED vars BY <1>4 DEF vars, launch, reap
<1>5. QED BY <1>1, <1>2, <1>3, <1>4

LEMMA NextKeeps == IndInv /\ [Next]_vars => IndInv'
<1> SUFFICES ASSUME IndInv, [Next]_vars PROVE IndInv'
  OBVIOUS
<1>1. TypeOK /\ \A m \in Names : Good(m) BY OneByOne
<1>2. TypeOK' BY <1>1, TypeStep
<1>3. ASSUME NEW m \in Names PROVE Good(m)'
  <2>1. CASE \E n \in Names : Launch(n) BY <1>1, <2>1, LaunchKeeps
  <2>2. CASE (\E n \in Names : Runtime(n)) \/ Reap \/ Crash \/ UNCHANGED vars
    BY <1>1, <2>2, OthersKeep
  <2>3. QED BY <2>1, <2>2 DEF Next
<1>4. QED BY <1>2, <1>3, OneByOnePrimed

\* For any launches and faults, active, the reaper's list and the containers
\* agree with where each launch is (container.js, activeRunnerContainers).
THEOREM ContainerInductive == Spec => []IndInv
BY InitInv, NextKeeps, PTL DEF Spec

\* control.stop returns only after the teardown, and leaves no container
\* when nothing failed: the dispatcher may deregister the runner then.
THEOREM StopsAfterTeardown == Spec => []StoppedIsDown
<1>1. IndInv => StoppedIsDown BY DEF IndInv, TornDown, StoppedIsDown
<1>2. QED BY <1>1, ContainerInductive, PTL

SparesStep == \A n \in Names :
    Owned(n) /\ ctr[n] # "gone" /\ ctr'[n] = "gone" => phase[n] = "settled"

\* A step removes the container of a launch of this process only when that
\* launch is at its own rm -f.
LEMMA SparesNext == IndInv /\ [Next]_vars => SparesStep
<1> SUFFICES ASSUME IndInv, [Next]_vars, NEW m \in Names,
                    Owned(m), ctr[m] # "gone", ctr'[m] = "gone"
             PROVE  phase[m] = "settled"
  BY DEF SparesStep
<1>1. TypeOK /\ Good(m) BY OneByOne
<1>t. ctr \in [Names -> {"absent", "asked", "running", "exited", "gone"}]
  BY <1>1 DEF TypeOK
<1>2. ASSUME NEW n \in Names, Launch(n) PROVE phase[m] = "settled"
  <2>1. CASE RemoveContainer(n) BY <1>t, <2>1 DEF RemoveContainer, Goes
  <2>2. CASE Spawn(n) BY <1>t, <2>2 DEF Spawn
  <2>3. CASE ChildErrors(n) BY <1>t, <2>3 DEF ChildErrors
  <2>4. CASE UNCHANGED ctr BY <2>4
  <2>5. QED BY <1>2, <2>1, <2>2, <2>3, <2>4
    DEF Launch, PrepareFails, JobStarts, JobStartThrows, ChildCloses, Timer, IdleFires,
        LifetimeFires, KillFires, ForceFires, Teardown, RemoveFails, CleanupDone, Stop, StopReturns
<1>3. ASSUME NEW n \in Names, Runtime(n) PROVE phase[m] = "settled"
  BY <1>t, <1>3 DEF Runtime, ContainerStarts, NeverCreated, ContainerExits
<1>4. CASE Reap
  <2>1. ASSUME NEW n \in Names, ReapRemove(n) PROVE phase[m] = "settled"
    <3>1. n # m BY <1>1, <2>1 DEF ReapRemove, Good
    <3>2. ctr'[m] = ctr[m] BY <1>t, <2>1, <3>1 DEF ReapRemove
    <3>3. QED BY <3>2
  <2>2. CASE UNCHANGED ctr BY <2>2
  <2>3. QED BY <1>4, <2>1, <2>2 DEF Reap, ReapList, ReapFilter, ReapDone
<1>5. CASE Crash \/ UNCHANGED vars BY <1>5 DEF Crash, vars
<1>6. QED BY <1>2, <1>3, <1>4, <1>5 DEF Next

\* reapOrphans never removes the container of a launch of its own process,
\* however its list, its filter and its removals interleave with launches.
THEOREM LaunchesSpared == Spec => ReapSparesLaunches
<1>1. IndInv /\ [Next]_vars => [SparesStep]_vars BY SparesNext
<1>2. QED BY <1>1, ContainerInductive, PTL DEF Spec, ReapSparesLaunches, SparesStep

Kept(n) ==
    /\ startedJob[n] /\ signal[n] = "none" /\ signal'[n] # "none" =>
         "lifetime" \in expired'[n] \/ stop'[n] = "waiting"
    /\ result[n] # "job" /\ result'[n] = "job" => startedJob[n]

KeptStep == \A n \in Names : Kept(n)

\* Who signals the container, and who reports a job.
LEMMA KeptNext == IndInv /\ [Next]_vars => KeptStep
<1> SUFFICES ASSUME IndInv, [Next]_vars, NEW m \in Names PROVE Kept(m)
  BY DEF KeptStep
<1>t. /\ result \in [Names -> {"none", "job", "none started", "error"}]
      /\ expired \in [Names -> SUBSET {"idle", "lifetime"}]
      /\ signal \in [Names -> {"none", "TERM", "KILL"}]
      /\ stop \in [Names -> {"no", "waiting", "back"}]
  BY OneByOne DEF TypeOK
<1>1. signal' = signal /\ result' = result => Kept(m) BY DEF Kept
<1>2. ASSUME NEW n \in Names, Launch(n) PROVE Kept(m)
  <2>1. CASE PrepareFails(n) BY <1>t, <2>1 DEF PrepareFails, Kept
  <2>2. CASE Spawn(n) \/ JobStarts(n) BY <1>1, <2>2 DEF Spawn, JobStarts
  <2>3. CASE JobStartThrows(n) BY <1>t, <2>3 DEF JobStartThrows, Settle, Kept
  <2>4. CASE ChildErrors(n) BY <1>t, <2>4 DEF ChildErrors, Settle, Kept
  <2>5. ASSUME NEW ok \in BOOLEAN, ChildCloses(n, ok) PROVE Kept(m)
    <3>1. Outcome(n, ok) = "job" => startedJob[n] BY DEF Outcome
    <3>2. CASE Settle(n, Outcome(n, ok))
      BY <1>t, <2>5, <3>1, <3>2 DEF ChildCloses, Settle, Kept
    <3>3. CASE UNCHANGED result BY <1>1, <2>5, <3>3 DEF ChildCloses
    <3>4. QED BY <2>5, <3>2, <3>3 DEF ChildCloses
  <2>6. CASE Timer(n)
    <3>1. CASE IdleFires(n) BY <1>t, <3>1 DEF IdleFires, Terminate, Kept
    <3>2. CASE LifetimeFires(n) BY <1>t, <3>2 DEF LifetimeFires, Terminate, Kept
    <3>3. CASE KillFires(n) BY <1>t, <3>3 DEF KillFires, Kept
    <3>4. CASE ForceFires(n) BY <1>t, <3>4 DEF ForceFires, Settle, Kept
    <3>5. QED BY <2>6, <3>1, <3>2, <3>3, <3>4 DEF Timer
  <2>7. CASE Teardown(n)
    <3>1. CASE CleanupDone(n) BY <1>t, <3>1 DEF CleanupDone, Kept
    <3>2. CASE RemoveContainer(n) \/ RemoveFails(n)
      BY <1>1, <3>2 DEF RemoveContainer, RemoveFails
    <3>3. QED BY <2>7, <3>1, <3>2 DEF Teardown
  <2>8. CASE Stop(n) BY <1>t, <2>8 DEF Stop, Terminate, Kept
  <2>9. CASE StopReturns(n) BY <1>1, <2>9 DEF StopReturns
  <2>10. QED BY <1>2, <2>1, <2>2, <2>3, <2>4, <2>5, <2>6, <2>7, <2>8, <2>9 DEF Launch
<1>3. ASSUME NEW n \in Names, Runtime(n) PROVE Kept(m)
  BY <1>1, <1>3 DEF Runtime, ContainerStarts, NeverCreated, ContainerExits, launch
<1>4. CASE Reap BY <1>1, <1>4 DEF Reap, ReapList, ReapFilter, ReapRemove, ReapDone, launch
<1>5. CASE Crash BY <1>t, <1>5 DEF Crash, Kept
<1>6. CASE UNCHANGED vars BY <1>1, <1>6 DEF vars, launch
<1>7. QED BY <1>2, <1>3, <1>4, <1>5, <1>6 DEF Next

\* A job that was seen is ended by its lifetime or a request only, and a job
\* is reported only where one was seen (container.js, timer and close).
THEOREM JobsKept == Spec => JobsAreKept
<1>1. IndInv /\ [Next]_vars => [KeptStep]_vars BY KeptNext
<1>2. QED BY <1>1, ContainerInductive, PTL DEF Spec, JobsAreKept, KeptStep, Kept

(***************************************************************************)
(* What LaunchesEnd rests on: a launch that is up always has a timer that  *)
(* will fire, and its own steps only bring its end nearer.                 *)
(***************************************************************************)
\* Where a launch is up its lifetime has not fired, or a signal was sent and
\* the next timer of terminate is armed; who waits for stop waits for a launch
\* that is on its way down, or over.
Ending(n) ==
    /\ phase[n] = "new" => expired[n] = {}
    /\ phase[n] = "up" => "lifetime" \notin expired[n] \/ signal[n] # "none"
    /\ stop[n] = "waiting" => Owned(n) \/ phase[n] = "done"
    /\ stop[n] = "waiting" /\ phase[n] = "up" => signal[n] # "none"

EndInSight == \A n \in Names : Ending(n)

LEMMA EndingInit == Init => EndInSight
BY DEF Init, EndInSight, Ending

\* A step of a launch keeps that.
LEMMA EndingLaunch ==
    ASSUME TypeOK, NEW m \in Names, Good(m), Ending(m), NEW n \in Names, Launch(n)
    PROVE  Ending(m)'
<1>t. /\ phase \in [Names -> {"new", "up", "settled", "cleaning", "done", "lost"}]
      /\ expired \in [Names -> SUBSET {"idle", "lifetime"}]
      /\ signal \in [Names -> {"none", "TERM", "KILL"}]
      /\ stop \in [Names -> {"no", "waiting", "back"}]
  BY DEF TypeOK
<1>g. /\ m \in active => Owned(m)
      /\ phase[m] = "new" => stop[m] = "no"
  BY DEF Good
<1> USE <1>t, <1>g DEF Ending, Owned
<1>1. CASE PrepareFails(n) BY <1>1 DEF PrepareFails, Goes
<1>2. CASE Spawn(n) BY <1>2 DEF Spawn, Goes
<1>3. CASE JobStarts(n) BY <1>3 DEF JobStarts
<1>4. CASE JobStartThrows(n) BY <1>4 DEF JobStartThrows, Settle, Goes
<1>5. CASE ChildErrors(n) BY <1>5 DEF ChildErrors, Settle, Goes
<1>6. ASSUME NEW ok \in BOOLEAN, ChildCloses(n, ok) PROVE Ending(m)'
  <2>1. UNCHANGED <<expired, signal, stop>> BY <1>6 DEF ChildCloses
  <2>2. CASE Settle(n, Outcome(n, ok)) BY <2>1, <2>2 DEF Settle, Goes
  <2>3. CASE phase' = phase BY <2>1, <2>3
  <2>4. QED BY <1>6, <2>2, <2>3 DEF ChildCloses
<1>7. CASE Timer(n)
  <2>1. CASE IdleFires(n) BY <2>1 DEF IdleFires, Terminate
  <2>2. CASE LifetimeFires(n) BY <2>2 DEF LifetimeFires, Terminate
  <2>3. CASE KillFires(n) BY <2>3 DEF KillFires
  <2>4. CASE ForceFires(n) BY <2>4 DEF ForceFires, Settle, Goes
  <2>5. QED BY <1>7, <2>1, <2>2, <2>3, <2>4 DEF Timer
<1>8. CASE Teardown(n)
  <2>1. CASE RemoveContainer(n) BY <2>1 DEF RemoveContainer, Goes
  <2>2. CASE RemoveFails(n) BY <2>2 DEF RemoveFails, Goes
  <2>3. CASE CleanupDone(n) BY <2>3 DEF CleanupDone, Goes
  <2>4. QED BY <1>8, <2>1, <2>2, <2>3 DEF Teardown
<1>9. CASE Stop(n) BY <1>9 DEF Stop, Terminate
<1>10. CASE StopReturns(n) BY <1>10 DEF StopReturns
<1>11. QED
  BY <1>1, <1>2, <1>3, <1>4, <1>5, <1>6, <1>7, <1>8, <1>9, <1>10 DEF Launch

LEMMA EndingNext == IndInv /\ EndInSight /\ [Next]_vars => EndInSight'
<1> SUFFICES ASSUME IndInv, EndInSight, [Next]_vars, NEW m \in Names PROVE Ending(m)'
  BY DEF EndInSight
<1>1. TypeOK /\ Good(m) /\ Ending(m) BY OneByOne DEF EndInSight
<1>2. CASE \E n \in Names : Launch(n) BY <1>1, <1>2, EndingLaunch
<1>3. CASE UNCHANGED launch BY <1>1, <1>3 DEF launch, Ending, Owned
<1>4. CASE Crash BY <1>1, <1>4 DEF Crash, Ending, TypeOK
<1>5. QED
  BY <1>2, <1>3, <1>4 DEF Next, Runtime, ContainerStarts, NeverCreated, ContainerExits,
     Reap, ReapList, ReapFilter, ReapRemove, ReapDone, vars

\* container.js, terminate and its timers: no launch is up without a timer,
\* no caller of control.stop waits for a launch that nothing ends.
THEOREM AlwaysATimer == Spec => []EndInSight
BY EndingInit, EndingNext, ContainerInductive, PTL DEF Spec

\* The steps a launch has before it at most: its lifetime, KILL, the forced
\* end, the removal, the end of the teardown.
StepsLeft(n) ==
    IF phase[n] = "up"
    THEN 3 + (IF "lifetime" \in expired[n] THEN 0 ELSE 1)
           + (CASE signal[n] = "none" -> 2 [] signal[n] = "TERM" -> 1 [] OTHER -> 0)
    ELSE IF phase[n] = "settled" THEN 2 ELSE IF phase[n] = "cleaning" THEN 1 ELSE 0

\* The timers and the teardown each bring the end of a launch nearer, and
\* nothing that happens to a launch once it is up takes it further away.
Nearer(n) ==
    /\ StepsLeft(n) \in 0 .. 6 /\ (StepsLeft(n) = 0 <=> ~Owned(n))
    /\ Owned(n) => StepsLeft(n)' <= StepsLeft(n)
    /\ LifetimeFires(n) \/ KillFires(n) \/ ForceFires(n) \/ Teardown(n)
         => StepsLeft(n)' < StepsLeft(n)

LaunchAdvances == [][\A n \in Names : Nearer(n)]_vars

LEMMA LeftBounds ==
    ASSUME TypeOK, NEW m \in Names
    PROVE  StepsLeft(m) \in 0 .. 6 /\ (StepsLeft(m) = 0 <=> ~Owned(m))
<1>1. phase[m] \in {"new", "up", "settled", "cleaning", "done", "lost"} BY DEF TypeOK
<1>2. signal[m] \in {"none", "TERM", "KILL"} BY DEF TypeOK
<1>3. QED BY <1>1, <1>2 DEF StepsLeft, Owned

\* Leaving "up", for the finally or for good.
LEMMA LeavingUp ==
    ASSUME TypeOK, NEW m \in Names, phase[m] = "up",
           phase'[m] \in {"settled", "cleaning", "done", "lost"}
    PROVE  StepsLeft(m)' < StepsLeft(m)
<1>1. StepsLeft(m)' \in {0, 1, 2} BY DEF StepsLeft
<1>2. StepsLeft(m) >= 3
  <2>1. signal[m] \in {"none", "TERM", "KILL"} BY DEF TypeOK
  <2>2. QED BY <2>1 DEF StepsLeft
<1>3. StepsLeft(m) \in 0 .. 6 BY LeftBounds
<1>4. QED BY <1>1, <1>2, <1>3

\* A step that leaves a launch where it is and arms or fires its timers.
LEMMA TimersCount ==
    ASSUME TypeOK, TypeOK', NEW m \in Names, phase'[m] = phase[m],
           "lifetime" \in expired[m] => "lifetime" \in expired'[m],
           signal'[m] = signal[m] \/ signal[m] = "none" \/ signal'[m] = "KILL"
    PROVE  /\ StepsLeft(m)' <= StepsLeft(m)
           /\ phase[m] = "up" /\ signal[m] = "TERM" /\ signal'[m] = "KILL"
                => StepsLeft(m)' < StepsLeft(m)
           /\ phase[m] = "up" /\ "lifetime" \notin expired[m] /\ "lifetime" \in expired'[m]
                => StepsLeft(m)' < StepsLeft(m)
<1>1. signal[m] \in {"none", "TERM", "KILL"} /\ signal'[m] \in {"none", "TERM", "KILL"}
  BY DEF TypeOK
<1>2. CASE phase[m] = "up" BY <1>1, <1>2 DEF StepsLeft
<1>3. CASE phase[m] # "up" BY <1>3 DEF StepsLeft
<1>4. QED BY <1>2, <1>3

LEMMA AdvanceLaunch ==
    ASSUME TypeOK, TypeOK', NEW m \in Names, NEW n \in Names, Launch(n)
    PROVE  /\ Owned(m) => StepsLeft(m)' <= StepsLeft(m)
           /\ m = n /\ (LifetimeFires(n) \/ KillFires(n) \/ ForceFires(n) \/ Teardown(n))
                => StepsLeft(m)' < StepsLeft(m)
<1>t. /\ phase \in [Names -> {"new", "up", "settled", "cleaning", "done", "lost"}]
      /\ expired \in [Names -> SUBSET {"idle", "lifetime"}]
      /\ signal \in [Names -> {"none", "TERM", "KILL"}]
  BY DEF TypeOK
<1>l. StepsLeft(m) \in 0 .. 6 BY LeftBounds
<1>d. DEFINE Due == LifetimeFires(n) \/ KillFires(n) \/ ForceFires(n) \/ Teardown(n)
<1>s. ASSUME phase' = phase, expired' = expired, signal' = signal, ~Due
      PROVE  Owned(m) => StepsLeft(m)' <= StepsLeft(m)
  BY <1>s, <1>l DEF StepsLeft
<1>r. ASSUME Goes(n, "up", "settled"), expired' = expired, signal' = signal
      PROVE  /\ StepsLeft(m)' <= StepsLeft(m)
             /\ m = n => StepsLeft(m)' < StepsLeft(m)
  <2>1. CASE m = n
    <3>1. phase[m] = "up" /\ phase'[m] = "settled" BY <1>r, <1>t, <2>1 DEF Goes
    <3>2. StepsLeft(m)' \in {0, 1, 2} BY <3>1 DEF StepsLeft
    <3>3. QED BY <1>l, <3>1, <3>2, LeavingUp
  <2>2. CASE m # n
    <3>1. phase'[m] = phase[m] BY <1>r, <1>t, <2>2 DEF Goes
    <3>2. QED BY <1>r, <1>l, <2>2, <3>1 DEF StepsLeft
  <2>3. QED BY <2>1, <2>2
<1>1. ASSUME PrepareFails(n) \/ Spawn(n), Owned(m) PROVE StepsLeft(m)' <= StepsLeft(m)
  <2>1. m # n /\ phase'[m] = phase[m]
    BY <1>1, <1>t DEF PrepareFails, Spawn, Goes, Owned
  <2>2. UNCHANGED <<expired, signal>> BY <1>1 DEF PrepareFails, Spawn
  <2>3. QED BY <1>l, <2>1, <2>2 DEF StepsLeft
<1>2. CASE LifetimeFires(n) \/ IdleFires(n) \/ KillFires(n) \/ Stop(n)
  <2>1. phase'[m] = phase[m] BY <1>2 DEF LifetimeFires, IdleFires, KillFires, Stop
  <2>2. "lifetime" \in expired[m] => "lifetime" \in expired'[m]
    BY <1>2, <1>t DEF LifetimeFires, IdleFires, KillFires, Stop
  <2>3. signal'[m] = signal[m] \/ signal[m] = "none" \/ signal'[m] = "KILL"
    BY <1>2, <1>t DEF LifetimeFires, IdleFires, KillFires, Stop, Terminate
  <2>4. StepsLeft(m)' <= StepsLeft(m) BY <2>1, <2>2, <2>3, TimersCount
  <2>5. ASSUME m = n, LifetimeFires(n) PROVE StepsLeft(m)' < StepsLeft(m)
    <3>1. phase[m] = "up" /\ "lifetime" \notin expired[m] /\ "lifetime" \in expired'[m]
      BY <2>5, <1>t DEF LifetimeFires
    <3>2. QED BY <2>1, <2>2, <2>3, <3>1, TimersCount
  <2>6. ASSUME m = n, KillFires(n) PROVE StepsLeft(m)' < StepsLeft(m)
    <3>1. phase[m] = "up" /\ signal[m] = "TERM" /\ signal'[m] = "KILL"
      BY <2>6, <1>t DEF KillFires
    <3>2. QED BY <2>1, <2>2, <2>3, <3>1, TimersCount
  <2>7. ASSUME m = n, ForceFires(n) \/ Teardown(n) PROVE FALSE
    <3>1. phase'[m] # phase[m]
      BY <2>7, <1>t DEF ForceFires, Settle, Goes, Teardown, RemoveContainer, RemoveFails, CleanupDone
    <3>2. QED BY <2>1, <3>1
  <2>8. QED BY <2>4, <2>5, <2>6, <2>7
<1>3. CASE ForceFires(n)
  <2>1. Goes(n, "up", "settled") /\ UNCHANGED <<expired, signal>>
    BY <1>3 DEF ForceFires, Settle
  <2>2. QED BY <1>r, <2>1
<1>4. CASE Teardown(n)
  <2>1. CASE m = n
    <3>1. \/ phase[m] = "settled" /\ phase'[m] = "cleaning"
          \/ phase[m] = "cleaning" /\ phase'[m] = "done"
      BY <1>4, <1>t, <2>1 DEF Teardown, RemoveContainer, RemoveFails, CleanupDone, Goes
    <3>2. QED BY <3>1 DEF StepsLeft
  <2>2. CASE m # n
    <3>1. phase'[m] = phase[m] /\ expired'[m] = expired[m] /\ signal'[m] = signal[m]
      BY <1>4, <1>t, <2>2 DEF Teardown, RemoveContainer, RemoveFails, CleanupDone, Goes
    <3>2. QED BY <1>l, <2>2, <3>1 DEF StepsLeft
  <2>3. QED BY <2>1, <2>2
<1>5. CASE JobStarts(n) \/ StopReturns(n)
  <2>1. UNCHANGED <<phase, expired, signal>> BY <1>5 DEF JobStarts, StopReturns
  <2>2. QED BY <1>2, <1>3, <1>4, <1>s, <2>1
<1>6. CASE JobStartThrows(n) \/ ChildErrors(n)
  <2>1. Goes(n, "up", "settled") /\ UNCHANGED <<expired, signal>>
    BY <1>6 DEF JobStartThrows, ChildErrors, Settle
  <2>2. QED BY <1>r, <2>1
<1>7. ASSUME NEW ok \in BOOLEAN, ChildCloses(n, ok)
      PROVE  /\ Owned(m) => StepsLeft(m)' <= StepsLeft(m)
             /\ m = n /\ Due => StepsLeft(m)' < StepsLeft(m)
  <2>1. UNCHANGED <<expired, signal>> BY <1>7 DEF ChildCloses
  <2>2. CASE Settle(n, Outcome(n, ok)) BY <1>r, <2>1, <2>2 DEF Settle
  <2>3. CASE phase' = phase BY <1>2, <1>3, <1>4, <1>s, <2>1, <2>3
  <2>4. QED BY <1>7, <2>2, <2>3 DEF ChildCloses
<1>8. CASE PrepareFails(n) \/ Spawn(n)
  BY <1>1, <1>2, <1>3, <1>4, <1>8
<1>9. QED
  BY <1>2, <1>3, <1>4, <1>5, <1>6, <1>7, <1>8 DEF Launch, Timer

LEMMA AdvanceNext == ASSUME IndInv, [Next]_vars, NEW m \in Names PROVE Nearer(m)
<1>1. TypeOK /\ TypeOK'
  <2>1. TypeOK BY OneByOne
  <2>2. QED BY <2>1, TypeStep
<1>2. StepsLeft(m) \in 0 .. 6 /\ (StepsLeft(m) = 0 <=> ~Owned(m)) BY <1>1, LeftBounds
<1>3. ASSUME LifetimeFires(m) \/ KillFires(m) \/ ForceFires(m) \/ Teardown(m)
      PROVE  StepsLeft(m)' < StepsLeft(m)
  <2>1. Launch(m) BY <1>3 DEF Launch, Timer
  <2>2. QED BY <1>1, <1>3, <2>1, AdvanceLaunch
<1>4. ASSUME Owned(m) PROVE StepsLeft(m)' <= StepsLeft(m)
  <2>1. CASE \E n \in Names : Launch(n) BY <1>1, <1>4, <2>1, AdvanceLaunch
  <2>2. CASE UNCHANGED launch BY <1>2, <2>2 DEF launch, StepsLeft
  <2>3. CASE Crash
    <3>1. phase'[m] = "lost" BY <1>4, <2>3 DEF Crash, Owned
    <3>2. StepsLeft(m)' = 0 BY <3>1 DEF StepsLeft
    <3>3. QED BY <1>2, <3>2
  <2>4. QED
    BY <2>1, <2>2, <2>3 DEF Next, Runtime, ContainerStarts, NeverCreated, ContainerExits,
       Reap, ReapList, ReapFilter, ReapRemove, ReapDone, vars
<1>5. QED BY <1>2, <1>3, <1>4 DEF Nearer

\* container.js, terminate and the finally: a launch that is up is over after
\* at most six steps of its timers and its teardown, whatever the client, the
\* runtime, the dispatcher and the reaper do in between.
THEOREM LaunchEnds == Spec => LaunchAdvances
<1>1. IndInv /\ [Next]_vars => [\A n \in Names : Nearer(n)]_vars BY AdvanceNext
<1>2. QED BY <1>1, ContainerInductive, PTL DEF Spec, LaunchAdvances
=============================================================================
