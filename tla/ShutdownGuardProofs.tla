------------------------ MODULE ShutdownGuardProofs ------------------------
(***************************************************************************)
(* With one reconciler and honest exit codes (GuardAssumed) the shutdown   *)
(* guard keeps its policy for any number of sessions and faults: the       *)
(* inductive invariant says that whatever a process remembers across a     *)
(* call is still so when the call returns.                                 *)
(***************************************************************************)
EXTENDS ShutdownGuard, TLAPS

\* The conditions of the theorems: nobody runs guard-recover, the guard is
\* not installed over a running one, and a failed Set-Service is noticed.
GuardAssumed == Recoverers = {} /\ Reinstall = FALSE /\ Masked = FALSE

\* The reconcilers' part of TypeOK.
PassType ==
    /\ pc \in [Reconcilers -> {"down", "idle", "scan", "inspect", "compare",
          "persist", "disable", "stop", "restore", "start", "clear"}]
    /\ todo \in [Reconcilers -> SUBSET Sessions]
    /\ reap \in [Reconcilers -> Sessions \union {Nobody}]
    /\ live \in [Reconcilers -> BOOLEAN]
    /\ snap \in [Reconcilers -> Settings \union {Null}]

\* A pass that ends, or moves on, leaves its variables well typed.
LEMMA EndsType ==
    ASSUME TypeOK, NEW w \in Reconcilers, NEW where \in {"down", "idle"}, EndsAs(w, where)
    PROVE  PassType' /\ pc'[w] = where
           /\ \A v \in Reconcilers : v # w => pc'[v] = pc[v] /\ snap'[v] = snap[v]
BY DEF TypeOK, PassType, EndsAs

LEMMA RestType == ASSUME NEW w PROVE AtRest(w) \in {"down", "idle"}
BY DEF AtRest

\* The service's two settings may be written one by one.
LEMMA SettingParts ==
    ASSUME NEW x \in Settings, NEW t \in StartTypes, NEW b \in BOOLEAN
    PROVE  /\ [x EXCEPT !.startup = t] \in Settings /\ [x EXCEPT !.startup = t].startup = t
           /\ [x EXCEPT !.startup = t].running = x.running
           /\ [x EXCEPT !.running = b] \in Settings /\ [x EXCEPT !.running = b].running = b
           /\ [x EXCEPT !.running = b].startup = x.startup
           /\ x.startup \in StartTypes /\ x.running \in BOOLEAN
BY DEF Settings

LEMMA SettingsEqual ==
    ASSUME NEW x \in Settings, NEW y \in Settings, x.startup = y.startup, x.running = y.running
    PROVE  x = y
BY DEF Settings

-----------------------------------------------------------------------------
(* Every step preserves IndInv, one lemma per kind of step. *)

LEMMA InitInv == Init => IndInv
<1> SUFFICES ASSUME Init PROVE IndInv
  OBVIOUS
<1>1. service.startup \in StartTypes /\ 0 \in 0 .. MaxFaults
  BY GuardAssumption DEF Init, Settings
<1>2. TypeOK
  BY <1>1 DEF Init, TypeOK
<1>3. OneReconciler /\ MemoryCurrent /\ SavedIsConfigured /\ GivenBack
  BY StateAssumption DEF Init, OneReconciler, MemoryCurrent, SavedIsConfigured, GivenBack
<1> QED BY <1>2, <1>3 DEF IndInv

\* A session touches nothing but the lease files and itself.
LEMMA SessionStep ==
    ASSUME IndInv, NEW s \in Sessions, Session(s)
    PROVE  IndInv'
<1>1. UNCHANGED <<service, saved, pc, todo, reap, live, snap, task, installed, op, opSnap, configured>>
  BY DEF Session, Engage, Heartbeat, Release, GuardOff, SessionDies, Expire, files, watch, admin
<1>2. /\ lease' \in [Sessions -> {"none", "fresh", "stale"}]
      /\ holder' \in [Sessions -> {"idle", "on", "done", "dead"}]
      /\ root' \in BOOLEAN
  BY DEF IndInv, TypeOK, Session, Engage, Heartbeat, Release, GuardOff, SessionDies, Expire, files
<1>3. faults' \in 0 .. MaxFaults
  BY GuardAssumption
     DEF IndInv, TypeOK, Session, Engage, Heartbeat, Release, GuardOff, SessionDies, Expire, Fault
<1> QED BY <1>1, <1>2, <1>3
   DEF IndInv, TypeOK, OneReconciler, MemoryCurrent, SavedIsConfigured, GivenBack

\* A wait that does not last is the end of the process.
LEMMA WaitEndsStep ==
    ASSUME IndInv, GuardAssumed, NEW w \in Reconcilers, WaitEnds(w)
    PROVE  IndInv'
<1> USE GuardAssumption, StateAssumption DEF GuardAssumed
<1>1. PassType'
  BY EndsType DEF PassType, WaitEnds, admin, files, IndInv, TypeOK, OneReconciler
<1>2. TypeOK'
  BY <1>1 DEF PassType, WaitEnds, admin, files, IndInv, TypeOK, OneReconciler, MemoryCurrent
<1>3. OneReconciler'
  BY <1>1 DEF WaitEnds, EndsAs, admin, files, IndInv, TypeOK, OneReconciler, MemoryCurrent
<1>4. MemoryCurrent'
  BY <1>1 DEF WaitEnds, EndsAs, admin, files, IndInv, TypeOK, OneReconciler, MemoryCurrent
<1>5. SavedIsConfigured' /\ GivenBack'
  BY <1>1 DEF WaitEnds, admin, files, IndInv, TypeOK, OneReconciler, MemoryCurrent, SavedIsConfigured, GivenBack
<1> QED BY <1>2, <1>3, <1>4, <1>5 DEF IndInv

\* The lease directory is listed.
LEMMA BeginPassStep ==
    ASSUME IndInv, GuardAssumed, NEW w \in Reconcilers, BeginPass(w)
    PROVE  IndInv'
<1> USE GuardAssumption, StateAssumption DEF GuardAssumed
<1>1. PassType'
  BY RestType DEF PassType, BeginPass, AtRest, Goes, admin, files, IndInv, TypeOK, OneReconciler
<1>2. TypeOK'
  BY <1>1 DEF PassType, BeginPass, AtRest, Goes, admin, files, IndInv, TypeOK, OneReconciler, MemoryCurrent
<1>3. OneReconciler'
  BY <1>1, RestType DEF BeginPass, AtRest, Goes, admin, files, IndInv, TypeOK, OneReconciler, MemoryCurrent
<1>4. MemoryCurrent'
  BY <1>1, RestType DEF BeginPass, AtRest, Goes, admin, files, IndInv, TypeOK, OneReconciler, MemoryCurrent
<1>5. SavedIsConfigured' /\ GivenBack'
  BY <1>1 DEF BeginPass, AtRest, Goes, admin, files, IndInv, TypeOK, OneReconciler, MemoryCurrent, SavedIsConfigured, GivenBack
<1> QED BY <1>2, <1>3, <1>4, <1>5 DEF IndInv

\* A lease is read.
LEMMA ReadLeaseStep ==
    ASSUME IndInv, GuardAssumed, NEW w \in Reconcilers, NEW s \in Sessions, ReadLease(w, s)
    PROVE  IndInv'
<1> USE GuardAssumption, StateAssumption DEF GuardAssumed
<1>1. PassType'
  <2>1. live' \in [Reconcilers -> BOOLEAN] /\ UNCHANGED <<pc, snap>>
    BY DEF ReadLease, IndInv, TypeOK
  <2>2. todo' \in [Reconcilers -> SUBSET Sessions]
    BY DEF ReadLease, IndInv, TypeOK
  <2>3. reap' \in [Reconcilers -> Sessions \union {Nobody}]
    BY DEF ReadLease, IndInv, TypeOK
  <2> QED BY <2>1, <2>2, <2>3 DEF PassType, IndInv, TypeOK
<1>2. TypeOK'
  BY <1>1 DEF PassType, ReadLease, admin, files, IndInv, TypeOK, OneReconciler, MemoryCurrent
<1>3. OneReconciler'
  BY <1>1 DEF ReadLease, admin, files, IndInv, TypeOK, OneReconciler, MemoryCurrent
<1>4. MemoryCurrent'
  BY <1>1 DEF ReadLease, admin, files, IndInv, TypeOK, OneReconciler, MemoryCurrent
<1>5. SavedIsConfigured' /\ GivenBack'
  BY <1>1 DEF ReadLease, admin, files, IndInv, TypeOK, OneReconciler, MemoryCurrent, SavedIsConfigured, GivenBack
<1> QED BY <1>2, <1>3, <1>4, <1>5 DEF IndInv

\* A stale lease is unlinked.
LEMMA UnlinkLeaseStep ==
    ASSUME IndInv, GuardAssumed, NEW w \in Reconcilers, UnlinkLease(w)
    PROVE  IndInv'
<1> USE GuardAssumption, StateAssumption DEF GuardAssumed
<1>1. PassType'
  BY DEF PassType, UnlinkLease, admin, IndInv, TypeOK, OneReconciler
<1>2. TypeOK'
  BY <1>1 DEF PassType, UnlinkLease, admin, IndInv, TypeOK, OneReconciler, MemoryCurrent
<1>3. OneReconciler'
  BY <1>1 DEF UnlinkLease, admin, IndInv, TypeOK, OneReconciler, MemoryCurrent
<1>4. MemoryCurrent'
  BY <1>1 DEF UnlinkLease, admin, IndInv, TypeOK, OneReconciler, MemoryCurrent
<1>5. SavedIsConfigured' /\ GivenBack'
  BY <1>1 DEF UnlinkLease, admin, IndInv, TypeOK, OneReconciler, MemoryCurrent, SavedIsConfigured, GivenBack
<1> QED BY <1>2, <1>3, <1>4, <1>5 DEF IndInv

\* The pass learns whether a setting is saved.
LEMMA ReadStateStep ==
    ASSUME IndInv, GuardAssumed, NEW w \in Reconcilers, ReadState(w)
    PROVE  IndInv'
<1> USE GuardAssumption, StateAssumption DEF GuardAssumed
<1>1. PassType'
  BY RestType, EndsType DEF PassType, ReadState, admin, files, IndInv, TypeOK, OneReconciler
<1>2. TypeOK'
  BY <1>1 DEF PassType, ReadState, admin, files, IndInv, TypeOK, OneReconciler, MemoryCurrent
<1>3. OneReconciler'
  BY <1>1, RestType DEF ReadState, admin, files, EndsAs, IndInv, TypeOK, OneReconciler, MemoryCurrent
<1>4. MemoryCurrent'
  BY <1>1, RestType DEF ReadState, admin, files, EndsAs, IndInv, TypeOK, OneReconciler, MemoryCurrent
<1>5. SavedIsConfigured' /\ GivenBack'
  BY <1>1 DEF ReadState, admin, files, IndInv, TypeOK, OneReconciler, MemoryCurrent, SavedIsConfigured, GivenBack
<1> QED BY <1>2, <1>3, <1>4, <1>5 DEF IndInv

\* What it inspects stays so: no other process changes the service.
LEMMA InspectStep ==
    ASSUME IndInv, GuardAssumed, NEW w \in Reconcilers, Inspect(w)
    PROVE  IndInv'
<1> USE GuardAssumption, StateAssumption DEF GuardAssumed
<1>1. PassType'
  BY RestType, EndsType DEF PassType, Inspect, Goes, admin, files, IndInv, TypeOK, OneReconciler
<1>2. TypeOK'
  BY <1>1 DEF PassType, Inspect, Goes, admin, files, IndInv, TypeOK, OneReconciler, MemoryCurrent
<1>3. OneReconciler'
  BY <1>1, RestType DEF Inspect, Goes, admin, files, EndsAs, IndInv, TypeOK, OneReconciler, MemoryCurrent
<1>4. MemoryCurrent'
  BY <1>1, RestType DEF Inspect, Goes, admin, files, EndsAs, IndInv, TypeOK, OneReconciler, MemoryCurrent
<1>5. SavedIsConfigured' /\ GivenBack'
  BY <1>1 DEF Inspect, Goes, admin, files, IndInv, TypeOK, OneReconciler, MemoryCurrent, SavedIsConfigured, GivenBack
<1> QED BY <1>2, <1>3, <1>4, <1>5 DEF IndInv

\* Nor has another one saved a setting.
LEMMA CompareStep ==
    ASSUME IndInv, GuardAssumed, NEW w \in Reconcilers, Compare(w)
    PROVE  IndInv'
<1> USE GuardAssumption, StateAssumption DEF GuardAssumed
<1>1. PassType'
  BY RestType, EndsType DEF PassType, Compare, Goes, admin, files, IndInv, TypeOK, OneReconciler
<1>2. TypeOK'
  BY <1>1 DEF PassType, Compare, Goes, admin, files, IndInv, TypeOK, OneReconciler, MemoryCurrent
<1>3. OneReconciler'
  BY <1>1, RestType DEF Compare, Goes, admin, files, EndsAs, IndInv, TypeOK, OneReconciler, MemoryCurrent
<1>4. MemoryCurrent'
  BY <1>1, RestType DEF Compare, Goes, admin, files, EndsAs, IndInv, TypeOK, OneReconciler, MemoryCurrent
<1>5. SavedIsConfigured' /\ GivenBack'
  BY <1>1 DEF Compare, Goes, admin, files, IndInv, TypeOK, OneReconciler, MemoryCurrent, SavedIsConfigured, GivenBack
<1> QED BY <1>2, <1>3, <1>4, <1>5 DEF IndInv

\* The snapshot is the service as it is.
LEMMA PersistStep ==
    ASSUME IndInv, GuardAssumed, NEW w \in Reconcilers, Persist(w)
    PROVE  IndInv'
<1> USE GuardAssumption, StateAssumption DEF GuardAssumed
<1>1. PassType'
  BY RestType, EndsType DEF PassType, Persist, Goes, admin, IndInv, TypeOK, OneReconciler
<1>2. TypeOK'
  BY <1>1 DEF PassType, Persist, Goes, admin, IndInv, TypeOK, OneReconciler, MemoryCurrent
<1>3. OneReconciler'
  BY <1>1, RestType DEF Persist, Goes, admin, EndsAs, IndInv, TypeOK, OneReconciler, MemoryCurrent
<1>4. MemoryCurrent'
  BY <1>1, RestType DEF Persist, Goes, admin, EndsAs, IndInv, TypeOK, OneReconciler, MemoryCurrent
<1>5. SavedIsConfigured' /\ GivenBack'
  BY <1>1 DEF Persist, Goes, admin, IndInv, TypeOK, OneReconciler, MemoryCurrent, SavedIsConfigured, GivenBack
<1> QED BY <1>2, <1>3, <1>4, <1>5 DEF IndInv

\* The service is disabled while its setting is saved.
LEMMA SetDisabledStep ==
    ASSUME IndInv, GuardAssumed, NEW w \in Reconcilers, SetDisabled(w)
    PROVE  IndInv'
<1> USE GuardAssumption, StateAssumption DEF GuardAssumed
<1>1. PassType'
  BY DEF PassType, SetDisabled, Goes, admin, files, IndInv, TypeOK, OneReconciler
<1>s. /\ service' \in Settings /\ service'.startup = "Disabled"
      /\ saved' = saved /\ saved \in Settings
  BY SettingParts DEF SetDisabled, Goes, files, IndInv, TypeOK, MemoryCurrent, StartTypes
<1>2. TypeOK'
  BY <1>1, <1>s DEF PassType, SetDisabled, Goes, admin, files, IndInv, TypeOK, OneReconciler, MemoryCurrent
<1>3. OneReconciler'
  BY <1>1 DEF SetDisabled, Goes, admin, files, IndInv, TypeOK, OneReconciler, MemoryCurrent
<1>4. MemoryCurrent'
  BY <1>1, <1>s DEF SetDisabled, Goes, admin, files, IndInv, TypeOK, OneReconciler, MemoryCurrent
<1>5. SavedIsConfigured' /\ GivenBack'
  BY <1>1, <1>s DEF SetDisabled, Goes, admin, files, IndInv, TypeOK, OneReconciler, MemoryCurrent, SavedIsConfigured, GivenBack
<1> QED BY <1>2, <1>3, <1>4, <1>5 DEF IndInv

\* Likewise.
LEMMA StopServiceStep ==
    ASSUME IndInv, GuardAssumed, NEW w \in Reconcilers, StopService(w)
    PROVE  IndInv'
<1> USE GuardAssumption, StateAssumption DEF GuardAssumed
<1>1. PassType'
  BY RestType, EndsType DEF PassType, StopService, admin, files, IndInv, TypeOK, OneReconciler
<1>s. service' \in Settings /\ service'.startup = service.startup
  BY SettingParts DEF StopService, IndInv, TypeOK
<1>2. TypeOK'
  BY <1>1, <1>s DEF PassType, StopService, admin, files, IndInv, TypeOK, OneReconciler, MemoryCurrent
<1>3. OneReconciler'
  BY <1>1, RestType DEF StopService, admin, files, EndsAs, IndInv, TypeOK, OneReconciler, MemoryCurrent
<1>4. MemoryCurrent'
  BY <1>1, RestType, <1>s DEF StopService, admin, files, EndsAs, IndInv, TypeOK, OneReconciler, MemoryCurrent
<1>5. SavedIsConfigured' /\ GivenBack'
  BY <1>1, <1>s DEF StopService, admin, files, IndInv, TypeOK, OneReconciler, MemoryCurrent, SavedIsConfigured, GivenBack
<1> QED BY <1>2, <1>3, <1>4, <1>5 DEF IndInv

\* What is restored is what is saved.
LEMMA SetStartupStep ==
    ASSUME IndInv, GuardAssumed, NEW w \in Reconcilers, SetStartup(w)
    PROVE  IndInv'
<1> USE GuardAssumption, StateAssumption DEF GuardAssumed
<1>1. PassType'
  BY DEF PassType, SetStartup, Goes, admin, files, IndInv, TypeOK, OneReconciler
<1>s. /\ service' \in Settings /\ service'.startup = saved.startup
      /\ saved' = saved /\ saved \in Settings /\ snap[w] = saved
  <2>1. saved' = saved /\ saved \in Settings /\ snap[w] = saved
    BY DEF SetStartup, Goes, files, IndInv, MemoryCurrent
  <2>2. service \in Settings /\ service' = [service EXCEPT !.startup = saved.startup]
    BY <2>1 DEF SetStartup, IndInv, TypeOK
  <2>3. saved.startup \in StartTypes
    BY <2>1, SettingParts DEF StartTypes
  <2> QED BY <2>1, <2>2, <2>3 DEF Settings
<1>2. TypeOK'
  BY <1>1, <1>s DEF PassType, SetStartup, Goes, admin, files, IndInv, TypeOK, OneReconciler, MemoryCurrent
<1>3. OneReconciler'
  BY <1>1 DEF SetStartup, Goes, admin, files, IndInv, TypeOK, OneReconciler, MemoryCurrent
<1>4. MemoryCurrent'
  BY <1>1, <1>s DEF SetStartup, Goes, admin, files, IndInv, TypeOK, OneReconciler, MemoryCurrent
<1>5. SavedIsConfigured' /\ GivenBack'
  BY <1>1, <1>s DEF SetStartup, Goes, admin, files, IndInv, TypeOK, OneReconciler, MemoryCurrent, SavedIsConfigured, GivenBack
<1> QED BY <1>2, <1>3, <1>4, <1>5 DEF IndInv

\* And after the second statement the service is exactly that.
LEMMA StartOrStopStep ==
    ASSUME IndInv, GuardAssumed, NEW w \in Reconcilers, StartOrStop(w)
    PROVE  IndInv'
<1> USE GuardAssumption, StateAssumption DEF GuardAssumed
<1>1. PassType'
  BY RestType, EndsType DEF PassType, StartOrStop, Goes, admin, files, IndInv, TypeOK, OneReconciler
<1>s. /\ service' \in Settings /\ service'.startup = service.startup
      /\ saved' = saved /\ saved \in Settings /\ snap[w] = saved
      /\ pc'[w] = "clear" => service'.running = saved.running
  <2>1. saved' = saved /\ saved \in Settings /\ snap[w] = saved /\ service \in Settings
    BY DEF StartOrStop, files, IndInv, TypeOK, MemoryCurrent
  <2>2. saved.running \in BOOLEAN
    BY <2>1, SettingParts DEF StartTypes
  <2>3. \/ service' = service /\ pc'[w] # "clear"
        \/ service' = [service EXCEPT !.running = saved.running]
    BY <2>1, RestType DEF StartOrStop, EndsAs, IndInv, TypeOK
  <2> QED BY <2>1, <2>2, <2>3 DEF Settings
<1>e. pc'[w] = "clear" => service' = saved
  BY <1>s, SettingsEqual, RestType DEF StartOrStop, Goes, EndsAs, IndInv, TypeOK, MemoryCurrent
<1>2. TypeOK'
  BY <1>1, <1>s DEF PassType, StartOrStop, Goes, admin, files, IndInv, TypeOK, OneReconciler, MemoryCurrent
<1>3. OneReconciler'
  BY <1>1, RestType DEF StartOrStop, Goes, admin, files, EndsAs, IndInv, TypeOK, OneReconciler, MemoryCurrent
<1>4. MemoryCurrent'
  BY <1>1, RestType, <1>s, <1>e DEF StartOrStop, Goes, admin, files, EndsAs, IndInv, TypeOK, OneReconciler, MemoryCurrent
<1>5. SavedIsConfigured' /\ GivenBack'
  BY <1>1, <1>s DEF StartOrStop, Goes, admin, files, IndInv, TypeOK, OneReconciler, MemoryCurrent, SavedIsConfigured, GivenBack
<1> QED BY <1>2, <1>3, <1>4, <1>5 DEF IndInv

\* So the setting may be forgotten.
LEMMA ClearStep ==
    ASSUME IndInv, GuardAssumed, NEW w \in Reconcilers, Clear(w)
    PROVE  IndInv'
<1> USE GuardAssumption, StateAssumption DEF GuardAssumed
<1>1. PassType'
  BY RestType, EndsType DEF PassType, Clear, admin, IndInv, TypeOK, OneReconciler
<1>2. TypeOK'
  BY <1>1 DEF PassType, Clear, admin, IndInv, TypeOK, OneReconciler, MemoryCurrent
<1>3. OneReconciler'
  BY <1>1, RestType DEF Clear, admin, EndsAs, IndInv, TypeOK, OneReconciler, MemoryCurrent
<1>4. MemoryCurrent'
  BY <1>1, RestType DEF Clear, admin, EndsAs, IndInv, TypeOK, OneReconciler, MemoryCurrent
<1>5. SavedIsConfigured' /\ GivenBack'
  BY <1>1 DEF Clear, admin, IndInv, TypeOK, OneReconciler, MemoryCurrent, SavedIsConfigured, GivenBack
<1> QED BY <1>2, <1>3, <1>4, <1>5 DEF IndInv

\* A failed call ends the pass.
LEMMA CallFailsStep ==
    ASSUME IndInv, GuardAssumed, NEW w \in Reconcilers, CallFails(w)
    PROVE  IndInv'
<1> USE GuardAssumption, StateAssumption DEF GuardAssumed
<1>1. PassType'
  BY RestType, EndsType DEF PassType, CallFails, Fault, admin, files, IndInv, TypeOK, OneReconciler
<1>2. TypeOK'
  BY <1>1 DEF PassType, CallFails, Fault, admin, files, IndInv, TypeOK, OneReconciler, MemoryCurrent
<1>3. OneReconciler'
  BY <1>1, RestType DEF CallFails, Fault, admin, files, EndsAs, IndInv, TypeOK, OneReconciler, MemoryCurrent
<1>4. MemoryCurrent'
  BY <1>1, RestType DEF CallFails, Fault, admin, files, EndsAs, IndInv, TypeOK, OneReconciler, MemoryCurrent
<1>5. SavedIsConfigured' /\ GivenBack'
  BY <1>1 DEF CallFails, Fault, admin, files, IndInv, TypeOK, OneReconciler, MemoryCurrent, SavedIsConfigured, GivenBack
<1> QED BY <1>2, <1>3, <1>4, <1>5 DEF IndInv

\* Exit codes are honest by assumption.
LEMMA SetServiceMaskedStep ==
    ASSUME IndInv, GuardAssumed, NEW w \in Reconcilers, SetServiceMasked(w)
    PROVE  IndInv'
<1> USE GuardAssumption, StateAssumption DEF GuardAssumed
<1>1. PassType'
  BY DEF PassType, SetServiceMasked, Fault, Goes, admin, files, IndInv, TypeOK, OneReconciler
<1>2. TypeOK'
  BY <1>1 DEF PassType, SetServiceMasked, Fault, Goes, admin, files, IndInv, TypeOK, OneReconciler, MemoryCurrent
<1>3. OneReconciler'
  BY <1>1 DEF SetServiceMasked, Fault, Goes, admin, files, IndInv, TypeOK, OneReconciler, MemoryCurrent
<1>4. MemoryCurrent'
  BY <1>1 DEF SetServiceMasked, Fault, Goes, admin, files, IndInv, TypeOK, OneReconciler, MemoryCurrent
<1>5. SavedIsConfigured' /\ GivenBack'
  BY <1>1 DEF SetServiceMasked, Fault, Goes, admin, files, IndInv, TypeOK, OneReconciler, MemoryCurrent, SavedIsConfigured, GivenBack
<1> QED BY <1>2, <1>3, <1>4, <1>5 DEF IndInv

\* So does a crash.
LEMMA WatcherDiesStep ==
    ASSUME IndInv, GuardAssumed, NEW w \in Reconcilers, WatcherDies(w)
    PROVE  IndInv'
<1> USE GuardAssumption, StateAssumption DEF GuardAssumed
<1>1. PassType'
  BY EndsType DEF PassType, WatcherDies, Fault, admin, files, IndInv, TypeOK, OneReconciler
<1>2. TypeOK'
  BY <1>1 DEF PassType, WatcherDies, Fault, admin, files, IndInv, TypeOK, OneReconciler, MemoryCurrent
<1>3. OneReconciler'
  BY <1>1 DEF WatcherDies, Fault, admin, files, EndsAs, IndInv, TypeOK, OneReconciler, MemoryCurrent
<1>4. MemoryCurrent'
  BY <1>1 DEF WatcherDies, Fault, admin, files, EndsAs, IndInv, TypeOK, OneReconciler, MemoryCurrent
<1>5. SavedIsConfigured' /\ GivenBack'
  BY <1>1 DEF WatcherDies, Fault, admin, files, IndInv, TypeOK, OneReconciler, MemoryCurrent, SavedIsConfigured, GivenBack
<1> QED BY <1>2, <1>3, <1>4, <1>5 DEF IndInv

\* Another process is the reconciler only when the last one is gone.
LEMMA TaskStartsStep ==
    ASSUME IndInv, GuardAssumed, NEW w \in Reconcilers, TaskStarts(w)
    PROVE  IndInv'
<1> USE GuardAssumption, StateAssumption DEF GuardAssumed
<1>1. PassType'
  BY DEF PassType, TaskStarts, Reconcilers, admin, files, IndInv, TypeOK, OneReconciler
<1>2. TypeOK'
  BY <1>1 DEF PassType, TaskStarts, Reconcilers, admin, files, IndInv, TypeOK, OneReconciler, MemoryCurrent
<1>3. OneReconciler'
  BY <1>1 DEF TaskStarts, Reconcilers, admin, files, IndInv, TypeOK, OneReconciler, MemoryCurrent
<1>4. MemoryCurrent'
  BY <1>1 DEF TaskStarts, Reconcilers, admin, files, IndInv, TypeOK, OneReconciler, MemoryCurrent
<1>5. SavedIsConfigured' /\ GivenBack'
  BY <1>1 DEF TaskStarts, Reconcilers, admin, files, IndInv, TypeOK, OneReconciler, MemoryCurrent, SavedIsConfigured, GivenBack
<1> QED BY <1>2, <1>3, <1>4, <1>5 DEF IndInv

-----------------------------------------------------------------------------
(* The administrator and the reboot.  An uninstall works alone: the task   *)
(* is gone before it reads the saved setting.                              *)

\* A state.json that is there is kept.
LEMMA InstallFilesStep ==
    ASSUME IndInv, GuardAssumed, InstallFiles
    PROVE  IndInv'
<1> USE GuardAssumption, StateAssumption DEF GuardAssumed
<1>2. TypeOK'
  BY DEF PassType, InstallFiles, OpGoes, watch, IndInv, TypeOK, OneReconciler, MemoryCurrent, Reconcilers
<1>3. OneReconciler'
  BY DEF InstallFiles, OpGoes, watch, IndInv, TypeOK, OneReconciler, MemoryCurrent, Reconcilers
<1>4. MemoryCurrent'
  BY DEF InstallFiles, OpGoes, watch, IndInv, TypeOK, OneReconciler, MemoryCurrent, Reconcilers
<1>5. SavedIsConfigured' /\ GivenBack'
  BY DEF InstallFiles, OpGoes, watch, IndInv, TypeOK, OneReconciler, MemoryCurrent, Reconcilers, SavedIsConfigured, GivenBack
<1> QED BY <1>2, <1>3, <1>4, <1>5 DEF IndInv

\* There is no process to leave running.
LEMMA RegisterTaskStep ==
    ASSUME IndInv, GuardAssumed, RegisterTask
    PROVE  IndInv'
<1> USE GuardAssumption, StateAssumption DEF GuardAssumed
<1>2. TypeOK'
  BY DEF PassType, RegisterTask, OpGoes, watch, files, IndInv, TypeOK, OneReconciler, MemoryCurrent, Reconcilers
<1>3. OneReconciler'
  BY DEF RegisterTask, OpGoes, watch, files, IndInv, TypeOK, OneReconciler, MemoryCurrent, Reconcilers
<1>4. MemoryCurrent'
  BY DEF RegisterTask, OpGoes, watch, files, IndInv, TypeOK, OneReconciler, MemoryCurrent, Reconcilers
<1>5. SavedIsConfigured' /\ GivenBack'
  BY DEF RegisterTask, OpGoes, watch, files, IndInv, TypeOK, OneReconciler, MemoryCurrent, Reconcilers, SavedIsConfigured, GivenBack
<1> QED BY <1>2, <1>3, <1>4, <1>5 DEF IndInv

\* The only reconciler is gone.
LEMMA StopTasksStep ==
    ASSUME IndInv, GuardAssumed, StopTasks
    PROVE  IndInv'
<1> USE GuardAssumption, StateAssumption DEF GuardAssumed
<1>p. PassType' /\ \A v \in Reconcilers : pc'[v] = "down"
  <2>1. CASE task = Nobody
    BY <2>1 DEF StopTasks, watch, PassType, IndInv, TypeOK, OneReconciler, Reconcilers
  <2>2. CASE task # Nobody
    <3>1. task \in Reconcilers /\ EndsAs(task, "down")
      BY <2>2 DEF StopTasks, IndInv, TypeOK, Reconcilers
    <3> QED BY <3>1, EndsType DEF IndInv, OneReconciler
  <2> QED BY <2>1, <2>2
<1>2. TypeOK'
  BY <1>p DEF PassType, StopTasks, files, IndInv, TypeOK, OneReconciler, MemoryCurrent, Reconcilers
<1>3. OneReconciler'
  BY <1>p DEF StopTasks, files, IndInv, TypeOK, OneReconciler, MemoryCurrent, Reconcilers
<1>4. MemoryCurrent'
  BY <1>p DEF StopTasks, files, IndInv, TypeOK, OneReconciler, MemoryCurrent, Reconcilers
<1>5. SavedIsConfigured' /\ GivenBack'
  BY <1>p DEF StopTasks, files, IndInv, TypeOK, OneReconciler, MemoryCurrent, Reconcilers, SavedIsConfigured, GivenBack
<1> QED BY <1>2, <1>3, <1>4, <1>5 DEF IndInv

\* What the uninstall read is still what is saved.
LEMMA OpSetStartupStep ==
    ASSUME IndInv, GuardAssumed, OpSetStartup
    PROVE  IndInv'
<1> USE GuardAssumption, StateAssumption DEF GuardAssumed
<1>s. /\ service' \in Settings /\ service'.startup = saved.startup
      /\ saved' = saved /\ saved \in Settings /\ opSnap = saved
  <2>1. saved' = saved /\ saved \in Settings /\ opSnap = saved /\ service \in Settings
    BY DEF OpSetStartup, OpGoes, files, IndInv, TypeOK, MemoryCurrent
  <2>2. service' = [service EXCEPT !.startup = saved.startup]
    BY <2>1 DEF OpSetStartup
  <2> QED BY <2>1, <2>2 DEF Settings
<1>2. TypeOK'
  BY <1>s DEF PassType, OpSetStartup, OpGoes, watch, files, IndInv, TypeOK, OneReconciler, MemoryCurrent, Reconcilers
<1>3. OneReconciler'
  BY <1>s DEF OpSetStartup, OpGoes, watch, files, IndInv, TypeOK, OneReconciler, MemoryCurrent, Reconcilers
<1>4. MemoryCurrent'
  BY <1>s DEF OpSetStartup, OpGoes, watch, files, IndInv, TypeOK, OneReconciler, MemoryCurrent, Reconcilers
<1>5. SavedIsConfigured' /\ GivenBack'
  BY <1>s DEF OpSetStartup, OpGoes, watch, files, IndInv, TypeOK, OneReconciler, MemoryCurrent, Reconcilers, SavedIsConfigured, GivenBack
<1> QED BY <1>2, <1>3, <1>4, <1>5 DEF IndInv

\* Then the service is exactly that.
LEMMA OpStartOrStopStep ==
    ASSUME IndInv, GuardAssumed, OpStartOrStop
    PROVE  IndInv'
<1> USE GuardAssumption, StateAssumption DEF GuardAssumed
<1>s. /\ service' \in Settings /\ service'.startup = service.startup
      /\ saved' = saved /\ saved \in Settings
      /\ op' = "remove" => service' = saved
  <2>1. /\ saved' = saved /\ saved \in Settings /\ opSnap = saved /\ service \in Settings
        /\ service.startup = saved.startup
    BY DEF OpStartOrStop, files, IndInv, TypeOK, MemoryCurrent
  <2>2. \/ service' = service /\ op' = "none"
        \/ service' = [service EXCEPT !.running = saved.running]
    BY <2>1 DEF OpStartOrStop
  <2> QED BY <2>1, <2>2 DEF Settings
<1>2. TypeOK'
  BY <1>s DEF PassType, OpStartOrStop, watch, files, IndInv, TypeOK, OneReconciler, MemoryCurrent, Reconcilers
<1>3. OneReconciler'
  BY <1>s DEF OpStartOrStop, watch, files, IndInv, TypeOK, OneReconciler, MemoryCurrent, Reconcilers
<1>4. MemoryCurrent'
  BY <1>s DEF OpStartOrStop, watch, files, IndInv, TypeOK, OneReconciler, MemoryCurrent, Reconcilers
<1>5. SavedIsConfigured' /\ GivenBack'
  BY <1>s DEF OpStartOrStop, watch, files, IndInv, TypeOK, OneReconciler, MemoryCurrent, Reconcilers, SavedIsConfigured, GivenBack
<1> QED BY <1>2, <1>3, <1>4, <1>5 DEF IndInv

\* A failed uninstall leaves the saved setting.
LEMMA OpFailsStep ==
    ASSUME IndInv, GuardAssumed, OpFails
    PROVE  IndInv'
<1> USE GuardAssumption, StateAssumption DEF GuardAssumed
<1>2. TypeOK'
  BY DEF PassType, OpFails, Fault, watch, files, IndInv, TypeOK, OneReconciler, MemoryCurrent, Reconcilers
<1>3. OneReconciler'
  BY DEF OpFails, Fault, watch, files, IndInv, TypeOK, OneReconciler, MemoryCurrent, Reconcilers
<1>4. MemoryCurrent'
  BY DEF OpFails, Fault, watch, files, IndInv, TypeOK, OneReconciler, MemoryCurrent, Reconcilers
<1>5. SavedIsConfigured' /\ GivenBack'
  BY DEF OpFails, Fault, watch, files, IndInv, TypeOK, OneReconciler, MemoryCurrent, Reconcilers, SavedIsConfigured, GivenBack
<1> QED BY <1>2, <1>3, <1>4, <1>5 DEF IndInv

\* A successful one removes it with the service restored.
LEMMA RemoveStateStep ==
    ASSUME IndInv, GuardAssumed, RemoveState
    PROVE  IndInv'
<1> USE GuardAssumption, StateAssumption DEF GuardAssumed
<1>2. TypeOK'
  BY DEF PassType, RemoveState, OpGoes, watch, IndInv, TypeOK, OneReconciler, MemoryCurrent, Reconcilers
<1>3. OneReconciler'
  BY DEF RemoveState, OpGoes, watch, IndInv, TypeOK, OneReconciler, MemoryCurrent, Reconcilers
<1>4. MemoryCurrent'
  BY DEF RemoveState, OpGoes, watch, IndInv, TypeOK, OneReconciler, MemoryCurrent, Reconcilers
<1>5. SavedIsConfigured' /\ GivenBack'
  BY DEF RemoveState, OpGoes, watch, IndInv, TypeOK, OneReconciler, MemoryCurrent, Reconcilers, SavedIsConfigured, GivenBack
<1> QED BY <1>2, <1>3, <1>4, <1>5 DEF IndInv

\* The leases go with the directory.
LEMMA RemoveRootStep ==
    ASSUME IndInv, GuardAssumed, RemoveRoot
    PROVE  IndInv'
<1> USE GuardAssumption, StateAssumption DEF GuardAssumed
<1>2. TypeOK'
  BY DEF PassType, RemoveRoot, OpGoes, watch, IndInv, TypeOK, OneReconciler, MemoryCurrent, Reconcilers
<1>3. OneReconciler'
  BY DEF RemoveRoot, OpGoes, watch, IndInv, TypeOK, OneReconciler, MemoryCurrent, Reconcilers
<1>4. MemoryCurrent'
  BY DEF RemoveRoot, OpGoes, watch, IndInv, TypeOK, OneReconciler, MemoryCurrent, Reconcilers
<1>5. SavedIsConfigured' /\ GivenBack'
  BY DEF RemoveRoot, OpGoes, watch, IndInv, TypeOK, OneReconciler, MemoryCurrent, Reconcilers, SavedIsConfigured, GivenBack
<1> QED BY <1>2, <1>3, <1>4, <1>5 DEF IndInv

\* A reboot ends every process and changes no startup type.
LEMMA RebootStep ==
    ASSUME IndInv, Reboot
    PROVE  IndInv'
<1> USE GuardAssumption, StateAssumption
<1>1. service' \in Settings /\ service'.startup = service.startup
  <2>1. PICK b \in BOOLEAN : service' = [service EXCEPT !.running = b]
    BY DEF Reboot
  <2> QED BY <2>1 DEF IndInv, TypeOK, Settings
<1>2. TypeOK'
  BY <1>1 DEF Reboot, Fault, files, IndInv, TypeOK
<1>3. OneReconciler' /\ MemoryCurrent' /\ SavedIsConfigured' /\ GivenBack'
  BY <1>1 DEF Reboot, files, IndInv, OneReconciler, MemoryCurrent, SavedIsConfigured, GivenBack
<1> QED BY <1>2, <1>3 DEF IndInv

-----------------------------------------------------------------------------
(* The invariant. *)

LEMMA StutterStep == ASSUME IndInv, UNCHANGED vars PROVE IndInv'
BY DEF IndInv, TypeOK, OneReconciler, MemoryCurrent, SavedIsConfigured,
       GivenBack, vars, files, watch, admin

LEMMA PassStep ==
    ASSUME IndInv, GuardAssumed, NEW w \in Reconcilers, Pass(w)
    PROVE  IndInv'
<1>1. CASE WaitEnds(w) \/ BeginPass(w) \/ UnlinkLease(w) \/ ReadState(w) \/ \E s \in Sessions : ReadLease(w, s)
  BY <1>1, WaitEndsStep, BeginPassStep, UnlinkLeaseStep, ReadStateStep, ReadLeaseStep
<1>2. CASE Inspect(w) \/ Compare(w) \/ Persist(w) \/ SetDisabled(w) \/ StopService(w)
  BY <1>2, InspectStep, CompareStep, PersistStep, SetDisabledStep, StopServiceStep
<1>3. CASE SetStartup(w) \/ StartOrStop(w) \/ Clear(w)
  BY <1>3, SetStartupStep, StartOrStopStep, ClearStep
<1> QED BY <1>1, <1>2, <1>3 DEF Pass

LEMMA AdminStep ==
    ASSUME IndInv, GuardAssumed, Admin
    PROVE  IndInv'
BY InstallFilesStep, RegisterTaskStep, StopTasksStep, OpSetStartupStep, OpStartOrStopStep,
   OpFailsStep, RemoveStateStep, RemoveRootStep DEF Admin

\* With a single reconciler, what each process remembers of state.json and
\* of the service across its PowerShell calls is still so (reconcile,
\* install, uninstall, crashes and reboots of src/guard.js).
THEOREM GuardInductive == ASSUME GuardAssumed PROVE Spec => []IndInv
<1>1. Init => IndInv
  BY InitInv
<1>2. IndInv /\ [Next]_vars => IndInv'
  <2> SUFFICES ASSUME IndInv, [Next]_vars PROVE IndInv'
    OBVIOUS
  <2>1. CASE UNCHANGED vars
    BY <2>1, StutterStep
  <2>2. CASE \E s \in Sessions : Session(s)
    BY <2>2, SessionStep
  <2>3. ASSUME NEW w \in Reconcilers, Pass(w) PROVE IndInv'
    BY <2>3, PassStep
  <2>4. ASSUME NEW w \in Reconcilers,
               CallFails(w) \/ SetServiceMasked(w) \/ WatcherDies(w) \/ TaskStarts(w)
        PROVE  IndInv'
    BY <2>4, CallFailsStep, SetServiceMaskedStep, WatcherDiesStep, TaskStartsStep
  <2>5. CASE Admin
    BY <2>5, AdminStep
  <2>6. CASE Reboot
    BY <2>6, RebootStep
  <2> QED BY <2>1, <2>2, <2>3, <2>4, <2>5, <2>6 DEF Next
<1> QED BY <1>1, <1>2, PTL DEF Spec

\* Wherever a crash, a reboot, a failed call or an uninstall falls, a
\* service whose setting is not saved has its own startup type.
THEOREM NothingLost == ASSUME GuardAssumed PROVE Spec => []GivenBack
<1>1. IndInv => GivenBack
  BY DEF IndInv
<1> QED BY <1>1, GuardInductive, PTL

-----------------------------------------------------------------------------
(* The refinement. *)

\* What state.json means to the policy: without the file nothing is saved.
Bar == IF saved = Missing THEN Null ELSE saved

\* Steps that touch neither the service nor what is saved.
LEMMA QuietStep ==
    ASSUME UNCHANGED service, Bar' = Bar
    PROVE  UNCHANGED Policy!vars
BY DEF Bar, Policy!vars

LEMMA PassPolicy ==
    ASSUME IndInv, GuardAssumed, NEW w \in Reconcilers, Pass(w)
    PROVE  [Policy!Next]_(Policy!vars)
<1> USE GuardAssumption, StateAssumption DEF GuardAssumed
<1>1. CASE \/ WaitEnds(w) \/ BeginPass(w) \/ UnlinkLease(w) \/ ReadState(w) \/ Inspect(w) \/ Compare(w)
           \/ \E s \in Sessions : ReadLease(w, s)
  BY <1>1, QuietStep DEF WaitEnds, BeginPass, UnlinkLease, ReadState, Inspect, Compare, ReadLease, files, Bar
<1>2. CASE Persist(w)
  <2>1. UNCHANGED service
    BY <1>2 DEF Persist
  <2>2. Bar = Null /\ service.startup # "Disabled" /\ snap[w] = service /\ service \notin {Null, Missing}
    BY <1>2 DEF Persist, IndInv, TypeOK, MemoryCurrent, Bar
  <2>3. Bar' = service \/ Bar' = Bar
    BY <1>2, <2>2 DEF Persist, Bar
  <2>4. CASE Bar' = service
    BY <2>1, <2>2, <2>4 DEF Policy!Next, Policy!Snapshot, Bar
  <2> QED BY <2>1, <2>3, <2>4, QuietStep
<1>3. CASE SetDisabled(w) \/ StopService(w)
  <2>1. Bar # Null /\ UNCHANGED Bar
    BY <1>3 DEF SetDisabled, StopService, Goes, files, IndInv, TypeOK, MemoryCurrent, Bar
  <2>2. service' \in {[service EXCEPT !.startup = "Disabled"], [service EXCEPT !.running = FALSE]}
    BY <1>3 DEF SetDisabled, StopService
  <2> QED BY <2>1, <2>2 DEF Policy!Next, Policy!Enforce, Bar
<1>4. CASE SetStartup(w) \/ StartOrStop(w)
  <2>1. Bar # Null /\ UNCHANGED Bar /\ snap[w] = Bar
    BY <1>4 DEF SetStartup, StartOrStop, Goes, files, IndInv, TypeOK, MemoryCurrent, Bar
  <2>2. \/ service' \in {[service EXCEPT !.startup = snap[w].startup],
                         [service EXCEPT !.running = snap[w].running]}
        \/ UNCHANGED service
    BY <1>4 DEF SetStartup, StartOrStop
  <2>3. CASE UNCHANGED service
    BY <2>1, <2>3, QuietStep
  <2>4. CASE service' \in {[service EXCEPT !.startup = snap[w].startup],
                           [service EXCEPT !.running = snap[w].running]}
    BY <2>1, <2>4 DEF Policy!Next, Policy!Restore, Bar
  <2> QED BY <2>2, <2>3, <2>4
<1>5. CASE Clear(w)
  <2>1. UNCHANGED service /\ service = Bar /\ Bar # Null
    BY <1>5 DEF Clear, IndInv, TypeOK, MemoryCurrent, Bar
  <2>2. Bar' = Null \/ Bar' = Bar
    BY <1>5 DEF Clear, Bar
  <2>3. CASE Bar' = Null
    BY <2>1, <2>3 DEF Policy!Next, Policy!Forget, Bar
  <2> QED BY <2>1, <2>2, <2>3, QuietStep
<1> QED BY <1>1, <1>2, <1>3, <1>4, <1>5 DEF Pass

LEMMA AdminPolicy ==
    ASSUME IndInv, GuardAssumed, Admin
    PROVE  [Policy!Next]_(Policy!vars)
<1> USE GuardAssumption, StateAssumption DEF GuardAssumed
<1>1. CASE InstallFiles \/ RegisterTask \/ StopTasks \/ OpFails \/ RemoveRoot
  BY <1>1, QuietStep
     DEF InstallFiles, RegisterTask, StopTasks, OpFails, RemoveRoot, OpGoes, files,
         IndInv, MemoryCurrent, Bar
<1>2. CASE OpSetStartup \/ OpStartOrStop
  <2>1. Bar # Null /\ UNCHANGED Bar /\ opSnap = Bar
    BY <1>2 DEF OpSetStartup, OpStartOrStop, OpGoes, files, IndInv, TypeOK, MemoryCurrent, Bar
  <2>2. \/ service' \in {[service EXCEPT !.startup = opSnap.startup],
                         [service EXCEPT !.running = opSnap.running]}
        \/ UNCHANGED service
    BY <1>2 DEF OpSetStartup, OpStartOrStop
  <2>3. CASE UNCHANGED service
    BY <2>1, <2>3, QuietStep
  <2>4. CASE service' \in {[service EXCEPT !.startup = opSnap.startup],
                           [service EXCEPT !.running = opSnap.running]}
    BY <2>1, <2>4 DEF Policy!Next, Policy!Restore, Bar
  <2> QED BY <2>2, <2>3, <2>4
<1>3. CASE RemoveState
  <2>1. UNCHANGED service /\ Bar' = Null /\ (Bar # Null => service = Bar)
    BY <1>3 DEF RemoveState, OpGoes, IndInv, TypeOK, MemoryCurrent, Bar
  <2>2. CASE Bar # Null
    BY <2>1, <2>2 DEF Policy!Next, Policy!Forget, Bar
  <2> QED BY <2>1, <2>2, QuietStep
<1> QED BY <1>1, <1>2, <1>3 DEF Admin

\* The processes of src/guard.js together keep the policy of ShutdownPolicy:
\* one snapshot, changes only while it is saved, forgotten when restored.
THEOREM PolicyKept == ASSUME GuardAssumed PROVE Spec => ImplementsPolicy
<1>1. Init => Policy!Init
  BY DEF Init, Policy!Init, Policy!Settings, Settings
<1>2. IndInv /\ [Next]_vars => [Policy!Next]_(Policy!vars)
  <2> SUFFICES ASSUME IndInv, [Next]_vars PROVE [Policy!Next]_(Policy!vars)
    OBVIOUS
  <2>1. CASE UNCHANGED vars
    BY <2>1, QuietStep DEF vars, files, Bar
  <2>2. ASSUME NEW s \in Sessions, Session(s) PROVE UNCHANGED Policy!vars
    BY <2>2, QuietStep
       DEF Session, Engage, Heartbeat, Release, GuardOff, SessionDies, Expire, files, Bar
  <2>3. ASSUME NEW w \in Reconcilers, Pass(w) PROVE [Policy!Next]_(Policy!vars)
    BY <2>3, PassPolicy
  <2>4. ASSUME NEW w \in Reconcilers,
               CallFails(w) \/ SetServiceMasked(w) \/ WatcherDies(w) \/ TaskStarts(w)
        PROVE  UNCHANGED Policy!vars
    BY <2>4, QuietStep DEF CallFails, SetServiceMasked, WatcherDies, TaskStarts, files, Bar
  <2>5. CASE Admin
    BY <2>5, AdminPolicy
  <2>6. CASE Reboot
    BY <2>6 DEF Reboot, files, Policy!Next, Policy!Boot
  <2> QED BY <2>1, <2>2, <2>3, <2>4, <2>5, <2>6 DEF Next
<1> QED BY <1>1, <1>2, GuardInductive, PTL DEF Spec, ImplementsPolicy, Policy!Spec
=============================================================================
