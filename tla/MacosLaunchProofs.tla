------------------------- MODULE MacosLaunchProofs -------------------------
(***************************************************************************)
(* MacosLaunch for any launches, cap and faults: the inductive invariant,  *)
(* the VM a settled launch does not leave behind, the cap on the VMs of    *)
(* the host, and what the startup's reaper takes and spares.               *)
(***************************************************************************)
EXTENDS MacosLaunch, FiniteSetTheorems, TLAPS

Procs == {"list", "prune", "tart", "reap", "serve", "drain"}
Working == {"clone", "ip", "ssh", "run", "finally"}
Places == {"none", "done", "lost"} \union Working
Stages == {"idle", "stop", "delete", "done", "lost"}
Vms == {"none", "stopped", "running"}
Runners == {"none", "offline", "online", "busy", "removed"}

ProcOK == proc \in Procs /\ found \in Found
LaunchOK == pc \in [Names -> Places] /\ seen \in [Names -> BOOLEAN]
StopOK ==
    /\ stopped \in [Names -> BOOLEAN] /\ deleted \in [Names -> BOOLEAN]
    /\ stopper \in [Names -> [Callers -> Stages]] /\ failed \in SUBSET Names
MachineOK ==
    /\ clone \in [Names -> {"none", "going", "done"}]
    /\ vm \in [Names -> Vms] /\ ssh \in [Names -> BOOLEAN]
RunnerOK == runner \in [Names -> Runners]
FaultsOK == faults \in 0 .. MaxFaults
AllGood == \A l \in Names : StopGood(l)

LEMMA Parts ==
    TypeOK <=> ProcOK /\ LaunchOK /\ StopOK /\ MachineOK /\ RunnerOK /\ FaultsOK
BY DEF TypeOK, ProcOK, LaunchOK, StopOK, MachineOK, RunnerOK, FaultsOK,
       Procs, Places, Working, Stages, Vms, Runners

LEMMA PartsPrimed ==
    ProcOK' /\ LaunchOK' /\ StopOK' /\ MachineOK' /\ RunnerOK' /\ FaultsOK' => TypeOK'
BY DEF TypeOK, ProcOK, LaunchOK, StopOK, MachineOK, RunnerOK, FaultsOK,
       Procs, Places, Working, Stages, Vms, Runners

LEMMA ActiveIs == Active = {l \in Names : pc[l] \in Working}
BY DEF Active, Working

LEMMA ActivePrimed == Active' = {l \in Names : pc'[l] \in Working}
BY DEF Active, Working

LEMMA InitInv == Init => IndInv
<1> SUFFICES ASSUME Init PROVE IndInv
  OBVIOUS
<1>1. ProcOK BY DEF Init, ProcOK, Procs, Found, Nothing
<1>2. LaunchOK /\ StopOK BY DEF Init, LaunchOK, StopOK, Places, Stages
<1>3. MachineOK /\ RunnerOK BY DEF Init, MachineOK, RunnerOK, Vms, Runners
<1>4. FaultsOK BY FaultsAssumption DEF Init, FaultsOK
<1>5. ASSUME NEW l \in Names PROVE StopGood(l)
  <2>1. /\ pc[l] = "none" /\ ~stopped[l] /\ ~deleted[l] /\ clone[l] = "none"
        /\ vm[l] = "none" /\ failed = {}
        /\ \A c \in Callers : stopper[l][c] = "idle"
    BY DEF Init
  <2>2. "launch" \in Callers /\ "drain" \in Callers BY DEF Callers
  <2>3. QED BY <2>1, <2>2 DEF StopGood, Forced
<1>6. ReapGood BY ActiveIs DEF Init, ReapGood, Working
<1>7. QED BY <1>1, <1>2, <1>3, <1>4, <1>5, <1>6, Parts DEF IndInv

(***************************************************************************)
(* The shared operators                                                    *)
(***************************************************************************)
LEMMA FaultKeeps == ASSUME FaultsOK, Fault PROVE FaultsOK' /\ faults' # 0
BY FaultsAssumption DEF FaultsOK, Fault

LEMMA GoesKeeps ==
    ASSUME LaunchOK, NEW l \in Names, NEW from, NEW to \in Places, Goes(l, from, to)
    PROVE  /\ pc' \in [Names -> Places] /\ pc[l] = from /\ pc'[l] = to
           /\ \A m \in Names \ {l} : pc'[m] = pc[m]
BY DEF LaunchOK, Goes

LEMMA AtKeeps ==
    ASSUME StopOK, NEW l \in Names, NEW c \in Callers, NEW from, NEW to \in Stages,
           At(l, c, from, to)
    PROVE  /\ stopper' \in [Names -> [Callers -> Stages]]
           /\ stopper[l][c] = from /\ stopper'[l][c] = to
           /\ \A d \in Callers \ {c} : stopper'[l][d] = stopper[l][d]
           /\ \A m \in Names \ {l} : stopper'[m] = stopper[m]
<1>1. stopper \in [Names -> [Callers -> Stages]] BY DEF StopOK
<1>2. [stopper[l] EXCEPT ![c] = to] \in [Callers -> Stages] BY <1>1
<1>3. stopper' = [stopper EXCEPT ![l] = [stopper[l] EXCEPT ![c] = to]] BY DEF At
<1>4. stopper' \in [Names -> [Callers -> Stages]] BY <1>1, <1>2, <1>3
<1>5. stopper'[l] = [stopper[l] EXCEPT ![c] = to] BY <1>1, <1>3
<1>6. stopper'[l][c] = to /\ \A d \in Callers \ {c} : stopper'[l][d] = stopper[l][d]
  <2>1. stopper[l] \in [Callers -> Stages] BY <1>1
  <2>2. QED BY <1>5, <2>1
<1>7. \A m \in Names \ {l} : stopper'[m] = stopper[m] BY <1>1, <1>3
<1>8. stopper[l][c] = from BY DEF At
<1>9. QED BY <1>4, <1>6, <1>7, <1>8

LEMMA TakesDeleteKeeps ==
    ASSUME StopOK, NEW l \in Names, NEW c \in Callers, NEW from, TakesDelete(l, c, from),
           stopped' \in [Names -> BOOLEAN], failed' \in SUBSET Names
    PROVE  /\ StopOK'
           /\ stopper[l][c] = from
           /\ stopper'[l][c] = (IF deleted[l] THEN "done" ELSE "delete")
           /\ \A d \in Callers \ {c} : stopper'[l][d] = stopper[l][d]
           /\ deleted'[l]
           /\ \A m \in Names \ {l} : stopper'[m] = stopper[m] /\ deleted'[m] = deleted[m]
<1>1. (IF deleted[l] THEN "done" ELSE "delete") \in Stages BY DEF Stages
<1>2. At(l, c, from, IF deleted[l] THEN "done" ELSE "delete") BY DEF TakesDelete
<1>3. /\ stopper' \in [Names -> [Callers -> Stages]] /\ stopper[l][c] = from
      /\ stopper'[l][c] = (IF deleted[l] THEN "done" ELSE "delete")
      /\ \A d \in Callers \ {c} : stopper'[l][d] = stopper[l][d]
      /\ \A m \in Names \ {l} : stopper'[m] = stopper[m]
  BY <1>1, <1>2, AtKeeps
<1>4. /\ deleted' \in [Names -> BOOLEAN] /\ deleted'[l]
      /\ \A m \in Names \ {l} : deleted'[m] = deleted[m]
  BY DEF TakesDelete, StopOK
<1>5. QED BY <1>3, <1>4 DEF StopOK

LEMMA DeletedKeeps ==
    ASSUME MachineOK, NEW l \in Names, Deleted(l)
    PROVE  /\ vm' \in [Names -> Vms]
           /\ vm'[l] = (IF vm[l] = "stopped" THEN "none" ELSE vm[l])
           /\ \A m \in Names \ {l} : vm'[m] = vm[m]
BY DEF MachineOK, Deleted, Vms

\* Only the VM l goes down.
Down(l) ==
    /\ vm' = [vm EXCEPT ![l] = IF @ = "running" THEN "stopped" ELSE @]

LEMMA DownKeeps ==
    ASSUME MachineOK, NEW l \in Names, Down(l)
    PROVE  /\ vm' \in [Names -> Vms] /\ vm'[l] # "running" /\ (vm[l] = "none" => vm'[l] = "none")
           /\ \A m \in Names \ {l} : vm'[m] = vm[m]
BY DEF MachineOK, Down, Vms

-----------------------------------------------------------------------------
(***************************************************************************)
(* What a step may do to a launch that is not its own                      *)
(***************************************************************************)
Same(m) ==
    /\ pc'[m] = pc[m] /\ stopped'[m] = stopped[m] /\ deleted'[m] = deleted[m]
    /\ stopper'[m] = stopper[m] /\ clone'[m] = clone[m] /\ vm'[m] = vm[m]
    /\ m \in failed' <=> m \in failed

Fewer == faults' = 0 => faults = 0

LEMMA SameGood == ASSUME NEW m \in Names, StopGood(m), Same(m), Fewer PROVE StopGood(m)'
BY DEF Same, Fewer, StopGood, Forced

LEMMA AllGoodStep ==
    ASSUME AllGood, NEW l \in Names, StopGood(l)', \A m \in Names \ {l} : Same(m), Fewer
    PROVE  AllGood'
<1>1. SUFFICES ASSUME NEW m \in Names PROVE StopGood(m)'
  BY DEF AllGood
<1>2. StopGood(m) BY DEF AllGood
<1>3. QED BY <1>2, SameGood

LEMMA AllSame == ASSUME AllGood, \A m \in Names : Same(m), Fewer PROVE AllGood'
BY SameGood DEF AllGood

LEMMA FewerIs ==
    ASSUME FaultsOK, Fault \/ UNCHANGED faults PROVE FaultsOK' /\ Fewer
<1>1. CASE Fault BY <1>1, FaultKeeps DEF Fewer
<1>2. CASE UNCHANGED faults BY <1>2 DEF FaultsOK, Fewer
<1>3. QED BY <1>1, <1>2

\* Nothing starts, and no registration appears.
Quieter ==
    /\ \A m \in Names : pc'[m] \in Working => pc[m] \in Working
    /\ \A m \in Names : runner[m] \in {"none", "removed"} => runner'[m] \in {"none", "removed"}

LEMMA ReapGoodSame ==
    ASSUME ReapGood, UNCHANGED startup, RunnerOK, RunnerOK', Quieter PROVE ReapGood'
<1>1. Active = {} => Active' = {} BY ActiveIs, ActivePrimed DEF Quieter
<1>2. \A m \in Names : runner'[m] \in {"offline", "online", "busy"}
                        => runner[m] \in {"offline", "online", "busy"}
  BY DEF Quieter, RunnerOK, Runners
<1>3. QED BY <1>1, <1>2 DEF ReapGood, startup, Quieter

(***************************************************************************)
(* Startup                                                                 *)
(***************************************************************************)
LEMMA ScanStep ==
    ASSUME IndInv,
           \/ List \/ ListFails \/ ReapsOrNot \/ ReapList \/ ReapListFails \/ ReapDone
           \/ DeadlinePasses \/ UNCHANGED vars
    PROVE  IndInv'
<1>1. /\ ProcOK /\ LaunchOK /\ StopOK /\ MachineOK /\ RunnerOK /\ FaultsOK
      /\ AllGood /\ ReapGood
  BY Parts DEF IndInv, AllGood
<1>2. UNCHANGED <<launch, stops, machine, runner>>
  BY DEF List, ListFails, ReapsOrNot, ReapList, ReapListFails, ReapDone, DeadlinePasses, vars
<1>3. LaunchOK' /\ StopOK' /\ MachineOK' /\ RunnerOK'
  BY <1>1, <1>2 DEF launch, stops, machine, LaunchOK, StopOK, MachineOK, RunnerOK
<1>4. FaultsOK' /\ Fewer
  <2>1. Fault \/ UNCHANGED faults
    BY DEF List, ListFails, ReapsOrNot, ReapList, ReapListFails, ReapDone, DeadlinePasses, vars
  <2>2. QED BY <1>1, <2>1, FewerIs
<1>5. AllGood'
  <2>1. \A m \in Names : Same(m) BY <1>2 DEF Same, launch, stops, machine
  <2>2. QED BY <1>1, <1>4, <2>1, AllSame
<1>6. ProcOK'
  <2>1. CASE List BY <1>1, <2>1 DEF List, Nothing, ProcOK, Procs, Found
  <2>2. CASE ListFails BY <1>1, <2>2 DEF ListFails, Nothing, ProcOK, Procs, Found
  <2>3. CASE ReapList BY <1>1, <2>3 DEF ReapList, ProcOK, Procs, Found
  <2>4. CASE UNCHANGED found /\ proc' \in Procs BY <1>1, <2>4 DEF ProcOK
  <2>5. CASE UNCHANGED vars BY <1>1, <2>5 DEF vars, startup, ProcOK
  <2>6. QED BY <2>1, <2>2, <2>3, <2>4, <2>5
        DEF ReapsOrNot, ReapListFails, ReapDone, DeadlinePasses, Procs
<1>7. ReapGood'
  <2>1. Active' = Active BY <1>2, ActiveIs, ActivePrimed DEF launch
  <2>2. \A l \in Names : runner[l] \in Runners BY <1>1 DEF RunnerOK
  <2>3. CASE List
    <3>1. /\ proc = "list" /\ proc' = "prune"
          /\ found'.protected = {l \in Names : runner[l] \in {"online", "busy"}}
          /\ found'.stale = {l \in Names : runner[l] = "offline"}
      BY <2>3 DEF List, Nothing
    <3>2. QED BY <1>1, <1>2, <2>1, <3>1 DEF ReapGood
  <2>4. CASE ListFails
    <3>1. proc = "list" /\ proc' = "prune" /\ found'.complete = FALSE
      BY <2>4 DEF ListFails, Nothing
    <3>2. QED BY <1>1, <1>2, <2>1, <3>1 DEF ReapGood
  <2>5. CASE ReapsOrNot
    <3>1. proc = "prune" /\ found.stale = {} /\ proc' \in {"tart", "serve"}
          /\ (proc' = "tart" => found.complete /\ found.protected = {}) /\ found' = found
      BY <2>5 DEF ReapsOrNot
    <3>2. QED BY <1>1, <1>2, <2>1, <2>2, <3>1 DEF ReapGood, Runners
  <2>6. CASE ReapList
    <3>1. proc = "tart" /\ proc' = "reap" BY <2>6 DEF ReapList
    <3>2. QED BY <1>1, <1>2, <2>1, <3>1 DEF ReapGood
  <2>7. CASE proc' \in {"serve", "drain"} BY <2>7 DEF ReapGood
  <2>8. CASE UNCHANGED vars BY <1>1, <1>2, <2>1, <2>8 DEF vars, startup, ReapGood
  <2>9. QED BY <2>3, <2>4, <2>5, <2>6, <2>7, <2>8 DEF ReapListFails, ReapDone, DeadlinePasses
<1>8. QED BY <1>3, <1>4, <1>5, <1>6, <1>7, PartsPrimed DEF IndInv, AllGood

LEMMA PruneStep ==
    ASSUME IndInv, NEW l \in Names, DeleteStale(l) \/ DeleteStaleFails(l) PROVE IndInv'
<1>1. /\ ProcOK /\ LaunchOK /\ StopOK /\ MachineOK /\ RunnerOK /\ FaultsOK
      /\ AllGood /\ ReapGood
  BY Parts DEF IndInv, AllGood
<1>2. UNCHANGED <<proc, launch, stops, machine>> BY DEF DeleteStale, DeleteStaleFails
<1>3. LaunchOK' /\ StopOK' /\ MachineOK'
  BY <1>1, <1>2 DEF launch, stops, machine, LaunchOK, StopOK, MachineOK
<1>4. FaultsOK' /\ Fewer BY <1>1, FewerIs DEF DeleteStale, DeleteStaleFails
<1>5. AllGood'
  <2>1. \A m \in Names : Same(m) BY <1>2 DEF Same, launch, stops, machine
  <2>2. QED BY <1>1, <1>4, <2>1, AllSame
<1>6. Active' = Active BY <1>2, ActiveIs, ActivePrimed DEF launch
<1>7. CASE DeleteStale(l)
  <2>1. /\ RunnerOK' /\ (runner[l] # "busy" => runner'[l] = "removed")
        /\ \A m \in Names \ {l} : runner'[m] = runner[m]
    BY <1>1, <1>7 DEF DeleteStale, RunnerOK, Runners
  <2>2. /\ ProcOK' /\ found'.stale = found.stale \ {l} /\ found'.protected = found.protected
        /\ found'.complete = (found.complete /\ runner[l] # "busy")
    <3>1. (found.complete /\ runner[l] # "busy") \in BOOLEAN
      BY <1>1 DEF ProcOK, Found
    <3>2. found' = [found EXCEPT !.stale = found.stale \ {l},
                                 !.complete = (found.complete /\ runner[l] # "busy")]
      BY <1>7 DEF DeleteStale
    <3>3. QED BY <1>1, <1>2, <3>1, <3>2 DEF ProcOK, Found
  <2>3. proc = "prune" /\ proc' = "prune" BY <1>2, <1>7 DEF DeleteStale
  <2>4. ReapGood' BY <1>1, <1>6, <2>1, <2>2, <2>3 DEF ReapGood
  <2>5. QED BY <1>3, <1>4, <1>5, <2>1, <2>2, <2>4, PartsPrimed DEF IndInv, AllGood
<1>8. CASE DeleteStaleFails(l)
  <2>1. ProcOK' /\ found'.complete = FALSE /\ proc = "prune" /\ proc' = "prune"
    BY <1>1, <1>8 DEF DeleteStaleFails, ProcOK, Found
  <2>2. RunnerOK' BY <1>1, <1>8 DEF DeleteStaleFails, RunnerOK
  <2>3. ReapGood' BY <1>1, <1>6, <2>1 DEF ReapGood
  <2>4. QED BY <1>3, <1>4, <1>5, <2>1, <2>2, <2>3, PartsPrimed DEF IndInv, AllGood
<1>9. QED BY <1>7, <1>8

\* The reaper stops and deletes VMs; it starts none.
LEMMA ReapStep ==
    ASSUME IndInv, NEW l \in Names,
           ReapStop(l) \/ ReapStopFails(l) \/ ReapDelete(l) \/ ReapDeleteFails(l)
    PROVE  IndInv'
<1>1. /\ ProcOK /\ LaunchOK /\ StopOK /\ MachineOK /\ RunnerOK /\ FaultsOK
      /\ AllGood /\ ReapGood
  BY Parts DEF IndInv, AllGood
<1>2. UNCHANGED <<proc, launch, stops, clone, ssh, runner>>
  BY DEF ReapStop, ReapStopFails, ReapDelete, ReapDeleteFails, machine
<1>3. LaunchOK' /\ StopOK' /\ RunnerOK'
  BY <1>1, <1>2 DEF launch, stops, LaunchOK, StopOK, RunnerOK
<1>4. FaultsOK' /\ Fewer
  BY <1>1, FewerIs DEF ReapStop, ReapStopFails, ReapDelete, ReapDeleteFails
<1>5. ProcOK'
  <2>1. /\ found \in Found /\ l \in Names \union {Nobody} /\ Nobody \in Names \union {Nobody}
        /\ (found.left \union {l}) \in SUBSET Names /\ (found.vms \ {l}) \in SUBSET Names
    BY <1>1 DEF ProcOK, Found
  <2>2. ASSUME ReapStop(l) PROVE found' \in Found BY <2>1, <2>2 DEF ReapStop, Found
  <2>3. ASSUME ReapStopFails(l) PROVE found' \in Found BY <2>1, <2>3 DEF ReapStopFails, Found
  <2>4. ASSUME ReapDelete(l) PROVE found' \in Found BY <2>1, <2>4 DEF ReapDelete, Found
  <2>5. ASSUME ReapDeleteFails(l) PROVE found' \in Found BY <2>1, <2>5 DEF ReapDeleteFails, Found
  <2>6. found' \in Found BY <2>2, <2>3, <2>4, <2>5
  <2>7. QED BY <1>1, <1>2, <2>6 DEF ProcOK
<1>6. /\ vm' \in [Names -> Vms]
      /\ (vm[l] # "running" => vm'[l] # "running") /\ (vm[l] = "none" => vm'[l] = "none")
      /\ \A m \in Names \ {l} : vm'[m] = vm[m]
  <2>1. CASE Down(l) BY <1>1, <2>1, DownKeeps
  <2>2. CASE Deleted(l) BY <1>1, <2>2, DeletedKeeps
  <2>3. CASE UNCHANGED vm BY <1>1, <2>3 DEF MachineOK
  <2>4. QED BY <2>1, <2>2, <2>3
        DEF ReapStop, ReapStopFails, ReapDelete, ReapDeleteFails, Down, machine
<1>7. MachineOK' BY <1>1, <1>2, <1>6 DEF MachineOK
<1>8. StopGood(l)'
  <2>1. StopGood(l) BY <1>1 DEF AllGood
  <2>2. /\ pc'[l] = pc[l] /\ stopped'[l] = stopped[l] /\ deleted'[l] = deleted[l]
        /\ stopper'[l] = stopper[l] /\ clone'[l] = clone[l] /\ failed' = failed
    BY <1>2 DEF launch, stops
  <2>3. QED BY <1>4, <1>6, <2>1, <2>2 DEF StopGood, Forced, Fewer
<1>9. AllGood'
  <2>1. \A m \in Names \ {l} : Same(m) BY <1>2, <1>6 DEF Same, launch, stops
  <2>2. QED BY <1>1, <1>4, <1>8, <2>1, AllGoodStep
<1>10. ReapGood'
  <2>1. Active' = Active BY <1>2, ActiveIs, ActivePrimed DEF launch
  <2>2. proc = "reap" BY DEF ReapStop, ReapStopFails, ReapDelete, ReapDeleteFails
  <2>3. QED BY <1>1, <1>2, <2>1, <2>2 DEF ReapGood
<1>11. QED BY <1>3, <1>4, <1>5, <1>7, <1>9, <1>10, PartsPrimed DEF IndInv, AllGood

(***************************************************************************)
(* The launch                                                              *)
(***************************************************************************)
LEMMA LaunchStep == ASSUME IndInv, NEW l \in Names, Launch(l) PROVE IndInv'
<1>1. /\ ProcOK /\ LaunchOK /\ StopOK /\ MachineOK /\ RunnerOK /\ FaultsOK
      /\ AllGood /\ ReapGood
  BY Parts DEF IndInv, AllGood
<1>2. UNCHANGED <<startup, seen, stops, vm, ssh, faults>> /\ proc = "serve" BY DEF Launch
<1>3. ProcOK' /\ StopOK' /\ FaultsOK' /\ Fewer /\ proc' = "serve"
  BY <1>1, <1>2 DEF startup, stops, ProcOK, StopOK, FaultsOK, Fewer
<1>4. /\ LaunchOK' /\ pc[l] = "none" /\ pc'[l] = "clone"
      /\ \A m \in Names \ {l} : pc'[m] = pc[m]
  <2>1. Goes(l, "none", "clone") /\ "clone" \in Places BY DEF Launch, Places, Working
  <2>2. QED BY <1>1, <1>2, <2>1, GoesKeeps DEF LaunchOK
<1>5. MachineOK' /\ clone'[l] = "going" /\ \A m \in Names \ {l} : clone'[m] = clone[m]
  BY <1>1, <1>2 DEF Launch, MachineOK
<1>6. RunnerOK' BY <1>1 DEF Launch, RunnerOK, Runners
<1>7. StopGood(l)'
  <2>1. StopGood(l) BY <1>1 DEF AllGood
  <2>2. /\ stopped'[l] = stopped[l] /\ deleted'[l] = deleted[l] /\ stopper'[l] = stopper[l]
        /\ vm'[l] = vm[l] /\ failed' = failed
    BY <1>2 DEF stops
  <2>3. \A c \in Callers : c = "launch" \/ c = "drain" BY DEF Callers
  <2>4. vm[l] = "none" /\ ~stopped[l] /\ \A c \in Callers : stopper[l][c] = "idle"
    BY <1>4, <2>1 DEF StopGood
  <2>5. ~deleted[l] /\ stopper[l]["launch"] = "idle" BY <2>1, <2>4 DEF StopGood, Callers
  <2>6. l \in failed' => faults' # 0 BY <1>3, <2>1, <2>2 DEF StopGood, Fewer
  <2>7. QED BY <1>4, <1>5, <2>2, <2>3, <2>4, <2>5, <2>6 DEF StopGood, Forced
<1>8. AllGood'
  <2>1. \A m \in Names \ {l} : Same(m) BY <1>2, <1>4, <1>5 DEF Same, stops
  <2>2. QED BY <1>1, <1>3, <1>7, <2>1, AllGoodStep
<1>9. ReapGood' BY <1>3 DEF ReapGood
<1>10. QED BY <1>3, <1>4, <1>5, <1>6, <1>8, <1>9, PartsPrimed DEF IndInv, AllGood

\* tart clone ends, well or not: its launch is waiting for it, or lost.
LEMMA CloneStep == ASSUME IndInv, NEW l \in Names, CloneEnds(l) \/ CloneFails(l) PROVE IndInv'
<1>1. /\ ProcOK /\ LaunchOK /\ StopOK /\ MachineOK /\ RunnerOK /\ FaultsOK
      /\ AllGood /\ ReapGood
  BY Parts DEF IndInv, AllGood
<1>2. UNCHANGED <<startup, launch, stops, ssh, runner>> BY DEF CloneEnds, CloneFails
<1>3. ProcOK' /\ LaunchOK' /\ StopOK' /\ RunnerOK'
  BY <1>1, <1>2 DEF startup, launch, stops, ProcOK, LaunchOK, StopOK, RunnerOK
<1>4. FaultsOK' /\ Fewer BY <1>1, FewerIs DEF CloneEnds, CloneFails
<1>5. /\ MachineOK' /\ clone[l] = "going" /\ clone'[l] = "done" /\ vm'[l] \in {"stopped", vm[l]}
      /\ \A m \in Names \ {l} : clone'[m] = clone[m] /\ vm'[m] = vm[m]
  BY <1>1, <1>2 DEF CloneEnds, CloneFails, MachineOK, Vms
<1>6. StopGood(l)'
  <2>1. StopGood(l) BY <1>1 DEF AllGood
  <2>2. /\ pc'[l] = pc[l] /\ stopped'[l] = stopped[l] /\ deleted'[l] = deleted[l]
        /\ stopper'[l] = stopper[l] /\ failed' = failed
    BY <1>2 DEF launch, stops
  <2>3. pc[l] \in {"clone", "lost"} /\ vm[l] = "none" BY <1>5, <2>1 DEF StopGood
  <2>4. pc[l] = "clone" => stopper[l]["launch"] = "idle" BY <2>1 DEF StopGood
  <2>5. QED BY <1>4, <1>5, <2>1, <2>2, <2>3, <2>4 DEF StopGood, Forced, Fewer
<1>7. AllGood'
  <2>1. \A m \in Names \ {l} : Same(m) BY <1>2, <1>5 DEF Same, launch, stops
  <2>2. QED BY <1>1, <1>4, <1>6, <2>1, AllGoodStep
<1>8. ReapGood'
  <2>1. Quieter BY <1>2 DEF Quieter, launch
  <2>2. QED BY <1>1, <1>2, <1>3, <2>1, ReapGoodSame
<1>9. QED BY <1>3, <1>4, <1>5, <1>7, <1>8, PartsPrimed DEF IndInv, AllGood

\* From the clone to the end of observeRunner nobody else is involved.
LEMMA DriveStep ==
    ASSUME IndInv, NEW l \in Names,
           \/ StartVm(l) \/ IpFound(l) \/ SshReady(l) \/ NotReady(l) \/ JobSeen(l)
           \/ ChildCloses(l) \/ IdleFires(l) \/ LifetimeFires(l)
    PROVE  IndInv'
<1>1. /\ ProcOK /\ LaunchOK /\ StopOK /\ MachineOK /\ RunnerOK /\ FaultsOK
      /\ AllGood /\ ReapGood
  BY Parts DEF IndInv, AllGood
<1>2. UNCHANGED <<startup, stops, clone, runner, faults>>
  BY DEF StartVm, IpFound, SshReady, NotReady, JobSeen, ChildCloses, IdleFires, LifetimeFires,
         Times, machine
<1>3. ProcOK' /\ StopOK' /\ RunnerOK' /\ FaultsOK' /\ Fewer
  BY <1>1, <1>2 DEF startup, stops, ProcOK, StopOK, RunnerOK, FaultsOK, Fewer
<1>4. CASE JobSeen(l)
  <2>1. LaunchOK' /\ MachineOK' /\ pc' = pc /\ vm' = vm
    BY <1>1, <1>4 DEF JobSeen, machine, LaunchOK, MachineOK
  <2>2. AllGood'
    <3>1. \A m \in Names : Same(m) BY <1>2, <2>1 DEF Same, stops
    <3>2. QED BY <1>1, <1>3, <3>1, AllSame
  <2>3. ReapGood'
    <3>1. Quieter BY <1>2, <2>1 DEF Quieter
    <3>2. QED BY <1>1, <1>2, <1>3, <3>1, ReapGoodSame
  <2>4. QED BY <1>3, <2>1, <2>2, <2>3, PartsPrimed DEF IndInv, AllGood
<1>5. CASE ~JobSeen(l)
  <2>1. /\ seen' = seen /\ pc' \in [Names -> Places]
        /\ pc[l] \in {"clone", "ip", "ssh", "run"}
        /\ pc'[l] \in {"ip", "ssh", "run", "finally"}
        /\ \A m \in Names \ {l} : pc'[m] = pc[m]
    <3>1. PICK from \in {"clone", "ip", "ssh", "run"}, to \in {"ip", "ssh", "run", "finally"} :
             Goes(l, from, to)
      BY <1>5 DEF StartVm, IpFound, SshReady, NotReady, ChildCloses, IdleFires, LifetimeFires,
                  Times
    <3>2. to \in Places BY DEF Places, Working
    <3>3. seen' = seen
      BY <1>5 DEF StartVm, IpFound, SshReady, NotReady, ChildCloses, IdleFires, LifetimeFires,
                  Times
    <3>4. QED BY <1>1, <3>1, <3>2, <3>3, GoesKeeps
  <2>2. LaunchOK' BY <1>1, <2>1 DEF LaunchOK
  <2>3. /\ vm' \in [Names -> Vms] /\ (vm'[l] = vm[l] \/ vm[l] = "stopped")
        /\ (pc[l] = "clone" => clone[l] = "done")
        /\ \A m \in Names \ {l} : vm'[m] = vm[m]
    <3>1. CASE StartVm(l) BY <1>1, <3>1 DEF StartVm, MachineOK, Vms
    <3>2. CASE vm' = vm /\ pc[l] # "clone" BY <1>1, <3>2 DEF MachineOK
    <3>3. QED BY <1>5, <3>1, <3>2
          DEF IpFound, SshReady, NotReady, ChildCloses, IdleFires, LifetimeFires, Times,
              machine, Goes
  <2>4. MachineOK'
    <3>1. ssh' \in [Names -> BOOLEAN]
      BY <1>1, <1>5 DEF StartVm, IpFound, SshReady, NotReady, ChildCloses, IdleFires,
                       LifetimeFires, Times, machine, MachineOK
    <3>2. QED BY <1>1, <1>2, <2>3, <3>1 DEF MachineOK
  <2>5. StopGood(l)'
    <3>1. StopGood(l) BY <1>1 DEF AllGood
    <3>2. /\ stopped'[l] = stopped[l] /\ deleted'[l] = deleted[l]
          /\ stopper'[l] = stopper[l] /\ clone'[l] = clone[l] /\ failed' = failed
      BY <1>2 DEF stops
    <3>3. stopper[l]["launch"] = "idle" BY <2>1, <3>1 DEF StopGood
    <3>4. clone[l] = "done" BY <2>1, <2>3, <3>1 DEF StopGood
    <3>5. QED BY <1>3, <2>1, <2>3, <3>1, <3>2, <3>3, <3>4 DEF StopGood, Forced, Fewer
  <2>6. AllGood'
    <3>1. \A m \in Names \ {l} : Same(m) BY <1>2, <2>1, <2>3 DEF Same, stops
    <3>2. QED BY <1>1, <1>3, <2>5, <3>1, AllGoodStep
  <2>7. ReapGood'
    <3>1. Quieter BY <1>2, <2>1 DEF Quieter, Working
    <3>2. QED BY <1>1, <1>2, <1>3, <3>1, ReapGoodSame
  <2>8. QED BY <1>3, <2>2, <2>4, <2>6, <2>7, PartsPrimed DEF IndInv, AllGood
<1>6. QED BY <1>4, <1>5

(***************************************************************************)
(* stop                                                                    *)
(***************************************************************************)
\* What the steps of stop leave alone.
LEMMA StopFrame ==
    ASSUME IndInv, NEW l \in Names, UNCHANGED <<startup, launch, clone, ssh, runner>>,
           StopOK', vm' \in [Names -> Vms], FaultsOK', Fewer, StopGood(l)',
           \A m \in Names \ {l} : /\ stopped'[m] = stopped[m] /\ deleted'[m] = deleted[m]
                                  /\ stopper'[m] = stopper[m] /\ vm'[m] = vm[m]
                                  /\ m \in failed' <=> m \in failed
    PROVE  IndInv'
<1>1. /\ ProcOK /\ LaunchOK /\ StopOK /\ MachineOK /\ RunnerOK /\ FaultsOK
      /\ AllGood /\ ReapGood
  BY Parts DEF IndInv, AllGood
<1>2. ProcOK' /\ LaunchOK' /\ MachineOK' /\ RunnerOK'
  BY <1>1 DEF startup, launch, ProcOK, LaunchOK, MachineOK, RunnerOK
<1>3. AllGood'
  <2>1. \A m \in Names \ {l} : Same(m) BY DEF Same, launch
  <2>2. QED BY <1>1, <2>1, AllGoodStep
<1>4. ReapGood'
  <2>1. Quieter BY DEF Quieter, launch
  <2>2. QED BY <1>1, <1>2, <2>1, ReapGoodSame
<1>5. QED BY <1>2, <1>3, <1>4, PartsPrimed DEF IndInv, AllGood

\* The caller that comes first takes tart stop.
LEMMA FirstStop ==
    ASSUME IndInv, NEW l \in Names, NEW c \in Callers, Stop(l, c), ~stopped[l]
    PROVE  IndInv'
<1>1. StopOK /\ MachineOK /\ FaultsOK /\ StopGood(l)
  BY Parts, ActiveIs DEF IndInv, AllGood
<1>2. /\ UNCHANGED <<startup, launch, failed, machine, runner, faults, deleted>>
      /\ At(l, c, "idle", "stop") /\ stopped' = [stopped EXCEPT ![l] = TRUE] /\ Called(l, c)
  BY DEF Stop
<1>3. /\ stopper' \in [Names -> [Callers -> Stages]] /\ stopper'[l][c] = "stop"
      /\ \A d \in Callers \ {c} : stopper'[l][d] = stopper[l][d]
      /\ \A m \in Names \ {l} : stopper'[m] = stopper[m]
  <2>1. "stop" \in Stages BY DEF Stages
  <2>2. QED BY <1>1, <1>2, <2>1, AtKeeps
<1>4. /\ StopOK' /\ stopped'[l] /\ deleted' = deleted
      /\ \A m \in Names \ {l} : stopped'[m] = stopped[m]
  BY <1>1, <1>2, <1>3 DEF StopOK
<1>5. pc'[l] = pc[l] /\ vm' = vm /\ clone' = clone /\ faults' = faults
  BY <1>2 DEF launch, machine
<1>6. StopGood(l)'
  <2>1. ~deleted[l] /\ \A d \in Callers : stopper[l][d] = "idle"
    BY <1>1 DEF StopGood
  <2>2. c = "launch" => pc[l] = "finally" BY <1>2 DEF Called
  <2>3. pc[l] \in Working
    BY <1>1, <1>2, <2>2, ActiveIs DEF Called, Working
  <2>4. c = "launch" \/ c = "drain" BY DEF Callers
  <2>5. "launch" \in Callers /\ "drain" \in Callers BY DEF Callers
  <2>6. clone[l] # "done" => pc[l] = "clone" /\ vm[l] = "none"
    BY <1>1, <2>3 DEF StopGood, Working
  <2>7. c = "drain" => Forced(l)' BY <1>3 DEF Forced
  <2>8. c = "launch" => stopper'[l]["launch"] = "stop" BY <1>3
  <2>9. \A d \in Callers \ {c} : stopper'[l][d] = "idle" BY <1>3, <2>1
  <2>10. l \in failed' => faults' # 0 BY <1>1, <1>2, <1>5 DEF StopGood
  <2>11. QED
    BY <1>3, <1>4, <1>5, <2>1, <2>2, <2>3, <2>4, <2>5, <2>6, <2>7, <2>8, <2>9, <2>10
       DEF StopGood, Working
<1>7. FaultsOK' /\ Fewer /\ vm' \in [Names -> Vms]
  BY <1>1, <1>5 DEF FaultsOK, Fewer, MachineOK
<1>8. QED BY <1>2, <1>3, <1>4, <1>5, <1>6, <1>7, StopFrame DEF machine

\* The second half: a caller of a stop that is under way, or whose tart stop
\* is over, takes tart delete, or finds it taken.
LEMMA SecondHalf ==
    ASSUME IndInv, NEW l \in Names, NEW c \in Callers, NEW from \in {"idle", "stop"},
           TakesDelete(l, c, from), stopped[l], UNCHANGED <<startup, launch, stopped, machine, runner>>,
           failed' \in SUBSET Names, \A m \in Names : m \in failed => m \in failed',
           \A m \in Names \ {l} : m \in failed' => m \in failed,
           l \in failed' => faults' # 0, FaultsOK', Fewer,
           from = "idle" /\ c = "launch" => pc[l] = "finally",
           from = "stop" => vm[l] # "running" \/ l \in failed'
    PROVE  IndInv'
<1>1. StopOK /\ MachineOK /\ StopGood(l)
  BY Parts DEF IndInv, AllGood
<1>2. /\ StopOK' /\ stopper[l][c] = from
      /\ stopper'[l][c] = (IF deleted[l] THEN "done" ELSE "delete")
      /\ \A d \in Callers \ {c} : stopper'[l][d] = stopper[l][d]
      /\ deleted'[l]
      /\ \A m \in Names \ {l} : stopper'[m] = stopper[m] /\ deleted'[m] = deleted[m]
  <2>1. stopped' \in [Names -> BOOLEAN] BY <1>1 DEF StopOK
  <2>2. QED BY <1>1, <2>1, TakesDeleteKeeps
<1>3. pc'[l] = pc[l] /\ vm' = vm /\ clone' = clone /\ stopped' = stopped
  BY DEF launch, machine
<1>4. "launch" \in Callers /\ "drain" \in Callers /\ (c = "launch" \/ c = "drain")
  BY DEF Callers
<1>5. ~deleted[l] => \A d \in Callers : stopper[l][d] # "delete" BY <1>1 DEF StopGood
<1>6. StopGood(l)'
  <2>1. \A d, e \in Callers :
           stopper'[l][d] = stopper'[l][e] /\ stopper'[l][d] \in {"stop", "delete"} => d = e
    <3>1. SUFFICES ASSUME NEW d \in Callers, NEW e \in Callers, d # e,
                          stopper'[l][d] = stopper'[l][e], stopper'[l][d] \in {"stop", "delete"}
                   PROVE  FALSE
      OBVIOUS
    <3>2. CASE d # c /\ e # c BY <1>1, <1>2, <3>1, <3>2 DEF StopGood
    <3>3. CASE d = c \/ e = c BY <1>2, <1>5, <3>1, <3>3
    <3>4. QED BY <3>2, <3>3
  <2>2. /\ \A d \in Callers : stopper'[l][d] = "delete" => deleted'[l] BY <1>2
  <2>3. stopper'[l]["launch"] # "idle" => pc[l] \in {"finally", "done", "lost"}
    <3>1. CASE c = "launch" BY <1>1, <1>2, <3>1 DEF StopGood
    <3>2. CASE c # "launch" BY <1>1, <1>2, <1>4, <3>2 DEF StopGood
    <3>3. QED BY <3>1, <3>2
  <2>4. pc[l] = "done" => stopper'[l]["launch"] = "done"
    BY <1>1, <1>2, <1>4 DEF StopGood
  <2>5. pc[l] # "none" BY <1>1 DEF StopGood
  <2>6. c = "launch" /\ ~Forced(l)' /\ pc[l] # "lost" =>
           /\ from = "stop" /\ ~deleted[l] /\ (vm[l] # "running" \/ l \in failed')
           /\ stopper'[l]["launch"] = "delete"
    <3>1. SUFFICES ASSUME c = "launch", ~Forced(l)', pc[l] # "lost"
                   PROVE  /\ from = "stop" /\ ~deleted[l] /\ (vm[l] # "running" \/ l \in failed')
                          /\ stopper'[l]["launch"] = "delete"
      OBVIOUS
    <3>2. ~Forced(l) BY <1>2, <1>4, <3>1 DEF Forced
    <3>3. pc[l] \in {"finally", "done"} BY <1>1, <1>2, <3>1 DEF StopGood
    <3>4. pc[l] # "done" BY <1>1, <1>2, <3>1 DEF StopGood
    <3>5. QED BY <1>1, <1>2, <3>1, <3>2, <3>3, <3>4 DEF StopGood
  <2>7. c = "drain" => Forced(l)' BY <1>2 DEF Forced
  <2>8. QED
    BY <1>1, <1>2, <1>3, <1>4, <2>1, <2>2, <2>3, <2>4, <2>5, <2>6, <2>7 DEF StopGood
<1>7. vm' \in [Names -> Vms] /\ \A m \in Names \ {l} : stopped'[m] = stopped[m] /\ vm'[m] = vm[m]
  BY <1>1, <1>3 DEF MachineOK
<1>8. QED BY <1>2, <1>6, <1>7, StopFrame DEF machine

LEMMA StopStep ==
    ASSUME IndInv, NEW l \in Names, NEW c \in Callers,
           Stop(l, c) \/ StopReturns(l, c) \/ StopFails(l, c)
    PROVE  IndInv'
<1>1. /\ ProcOK /\ LaunchOK /\ StopOK /\ MachineOK /\ RunnerOK /\ FaultsOK
      /\ StopGood(l)
  BY Parts DEF IndInv, AllGood
<1>2. CASE Stop(l, c)
  <2>1. CASE ~stopped[l] BY <1>2, <2>1, FirstStop
  <2>2. CASE stopped[l]
    <3>1. TakesDelete(l, c, "idle") /\ UNCHANGED <<startup, launch, stopped, machine, runner, faults>>
      BY <1>2, <2>2 DEF Stop
    <3>2. FaultsOK' /\ Fewer BY <1>1, <3>1, FewerIs
    <3>3. c = "launch" => pc[l] = "finally" BY <1>2 DEF Stop, Called
    <3>4. failed' = failed BY <1>2 DEF Stop
    <3>5. failed' \in SUBSET Names /\ (l \in failed' => faults' # 0)
      BY <1>1, <3>1, <3>4 DEF StopOK, StopGood
    <3>6. QED BY <2>2, <3>1, <3>2, <3>3, <3>4, <3>5, SecondHalf
  <2>3. QED BY <2>1, <2>2
<1>3. CASE StopReturns(l, c) \/ StopFails(l, c)
  <2>1. TakesDelete(l, c, "stop") /\ UNCHANGED <<startup, launch, stopped, machine, runner>>
    BY <1>3 DEF StopReturns, StopFails
  <2>2. stopped[l] BY <1>1, <2>1 DEF TakesDelete, At, StopGood
  <2>3. FaultsOK' /\ Fewer BY <1>1, <1>3, FewerIs DEF StopReturns, StopFails
  <2>4. vm[l] # "running" \/ l \in failed' BY <1>3 DEF StopReturns, StopFails
  <2>5. failed' = failed \/ (failed' = failed \union {l} /\ faults' # 0)
    BY <1>1, <1>3, FaultKeeps DEF StopReturns, StopFails
  <2>6. failed' \in SUBSET Names /\ (l \in failed' => faults' # 0)
    BY <1>1, <2>3, <2>5 DEF StopOK, StopGood, Fewer
  <2>7. QED BY <2>1, <2>2, <2>3, <2>4, <2>5, <2>6, SecondHalf
<1>4. QED BY <1>2, <1>3

LEMMA DeleteStep ==
    ASSUME IndInv, NEW l \in Names, NEW c \in Callers,
           DeleteReturns(l, c) \/ DeleteFails(l, c)
    PROVE  IndInv'
<1>1. StopOK /\ MachineOK /\ FaultsOK /\ StopGood(l)
  BY Parts DEF IndInv, AllGood
<1>2. /\ UNCHANGED <<startup, launch, stopped, deleted, failed, clone, ssh, runner>>
      /\ At(l, c, "delete", "done")
  BY DEF DeleteReturns, DeleteFails, machine
<1>3. FaultsOK' /\ Fewer BY <1>1, FewerIs DEF DeleteReturns, DeleteFails
<1>4. /\ stopper' \in [Names -> [Callers -> Stages]]
      /\ stopper[l][c] = "delete" /\ stopper'[l][c] = "done"
      /\ \A d \in Callers \ {c} : stopper'[l][d] = stopper[l][d]
      /\ \A m \in Names \ {l} : stopper'[m] = stopper[m]
  <2>1. "done" \in Stages BY DEF Stages
  <2>2. QED BY <1>1, <1>2, <2>1, AtKeeps
<1>5. StopOK' BY <1>1, <1>2, <1>4 DEF StopOK
<1>6. /\ vm' \in [Names -> Vms]
      /\ (vm[l] # "running" => vm'[l] # "running") /\ (vm[l] = "none" => vm'[l] = "none")
      /\ faults' = 0 /\ vm[l] # "running" => vm'[l] = "none"
      /\ \A m \in Names \ {l} : vm'[m] = vm[m]
  <2>1. CASE DeleteReturns(l, c)
    <3>1. Deleted(l) BY <2>1 DEF DeleteReturns
    <3>2. vm[l] \in Vms BY <1>1 DEF MachineOK
    <3>3. QED BY <1>1, <3>1, <3>2, DeletedKeeps DEF Vms
  <2>2. CASE DeleteFails(l, c)
    <3>1. vm' = vm /\ faults' # 0 BY <1>1, <2>2, FaultKeeps DEF DeleteFails, machine
    <3>2. QED BY <1>1, <3>1 DEF MachineOK
  <2>3. QED BY <2>1, <2>2
<1>7. StopGood(l)'
  <2>1. /\ pc'[l] = pc[l] /\ stopped'[l] = stopped[l] /\ deleted'[l] = deleted[l]
        /\ clone'[l] = clone[l] /\ failed' = failed
    BY <1>2 DEF launch
  <2>2. "launch" \in Callers /\ "drain" \in Callers /\ (c = "launch" \/ c = "drain")
    BY DEF Callers
  <2>3. \A d, e \in Callers :
           stopper'[l][d] = stopper'[l][e] /\ stopper'[l][d] \in {"stop", "delete"} => d = e
    BY <1>1, <1>4 DEF StopGood
  <2>4. (\A d \in Callers : stopper'[l][d] # "idle" => stopped[l])
        /\ (\A d \in Callers : stopper'[l][d] = "delete" => deleted[l])
    BY <1>1, <1>4 DEF StopGood
  <2>5. /\ stopper'[l]["launch"] # "idle" => pc[l] \in {"finally", "done", "lost"}
        /\ pc[l] = "done" => stopper'[l]["launch"] = "done"
    BY <1>1, <1>4, <2>2 DEF StopGood
  <2>6. c = "drain" => Forced(l)' BY <1>4 DEF Forced
  <2>7. c = "launch" /\ ~Forced(l)' /\ pc[l] \in {"finally", "done"} =>
           /\ l \notin failed' => vm'[l] # "running"
           /\ faults' = 0 => vm'[l] = "none"
    BY <1>1, <1>3, <1>4, <1>6, <2>1, <2>2 DEF StopGood, Forced, Fewer
  <2>8. c = "launch" => pc[l] \in {"finally", "done", "lost"} BY <1>1, <1>4 DEF StopGood
  <2>9. QED
    BY <1>1, <1>3, <1>4, <1>6, <2>1, <2>2, <2>3, <2>4, <2>5, <2>6, <2>7, <2>8
       DEF StopGood, Forced, Fewer
<1>8. QED BY <1>2, <1>3, <1>4, <1>5, <1>6, <1>7, StopFrame

\* The VM goes down: it is stopped, dies, or ends with its tart run.
LEMMA DownStep ==
    ASSUME IndInv, NEW l \in Names, VmStops(l) \/ VmDies(l) \/ VmTerminates(l) PROVE IndInv'
<1>1. StopOK /\ MachineOK /\ FaultsOK /\ StopGood(l)
  BY Parts DEF IndInv, AllGood
<1>2. UNCHANGED <<startup, launch, stops, clone, ssh, runner>> BY DEF VmStops, VmDies, VmTerminates
<1>3. FaultsOK' /\ Fewer BY <1>1, FewerIs DEF VmStops, VmDies, VmTerminates
<1>4. /\ vm' \in [Names -> Vms] /\ vm[l] = "running" /\ vm'[l] = "stopped"
      /\ \A m \in Names \ {l} : vm'[m] = vm[m]
  BY <1>1 DEF VmStops, VmDies, VmTerminates, MachineOK, Vms
<1>5. StopGood(l)'
  <2>1. /\ pc'[l] = pc[l] /\ stopped'[l] = stopped[l] /\ deleted'[l] = deleted[l]
        /\ stopper'[l] = stopper[l] /\ clone'[l] = clone[l] /\ failed' = failed
    BY <1>2 DEF launch, stops
  <2>2. QED BY <1>1, <1>3, <1>4, <2>1 DEF StopGood, Forced, Fewer
<1>6. StopOK' BY <1>1, <1>2 DEF stops, StopOK
<1>7. QED BY <1>2, <1>3, <1>4, <1>5, <1>6, StopFrame DEF stops

(***************************************************************************)
(* The end of a launch and of a process                                    *)
(***************************************************************************)
LEMMA SettleStep == ASSUME IndInv, NEW l \in Names, Settle(l) PROVE IndInv'
<1>1. /\ ProcOK /\ LaunchOK /\ StopOK /\ MachineOK /\ RunnerOK /\ FaultsOK
      /\ AllGood /\ ReapGood /\ StopGood(l)
  BY Parts DEF IndInv, AllGood
<1>2. UNCHANGED <<startup, seen, stops, machine, faults>> /\ stopper[l]["launch"] = "done"
  BY DEF Settle
<1>3. ProcOK' /\ StopOK' /\ FaultsOK' /\ Fewer
  BY <1>1, <1>2 DEF startup, stops, ProcOK, StopOK, FaultsOK, Fewer
<1>4. /\ LaunchOK' /\ pc[l] = "finally" /\ pc'[l] = "done"
      /\ \A m \in Names \ {l} : pc'[m] = pc[m]
  <2>1. Goes(l, "finally", "done") /\ "done" \in Places BY DEF Settle, Places
  <2>2. QED BY <1>1, <1>2, <2>1, GoesKeeps DEF LaunchOK
<1>5. MachineOK' /\ vm' = vm /\ clone' = clone BY <1>1, <1>2 DEF machine, MachineOK
<1>6. RunnerOK' /\ (runner[l] \in {"none", "removed"} => runner'[l] = "removed")
      /\ \A m \in Names \ {l} : runner'[m] = runner[m]
  BY <1>1 DEF Settle, RunnerOK, Runners
<1>7. StopGood(l)'
  <2>1. /\ stopped'[l] = stopped[l] /\ deleted'[l] = deleted[l]
        /\ stopper'[l] = stopper[l] /\ failed' = failed
    BY <1>2 DEF stops
  <2>2. QED BY <1>1, <1>2, <1>3, <1>4, <1>5, <2>1 DEF StopGood, Forced, Fewer
<1>8. AllGood'
  <2>1. \A m \in Names \ {l} : Same(m) BY <1>2, <1>4, <1>5 DEF Same, stops
  <2>2. QED BY <1>1, <1>3, <1>7, <2>1, AllGoodStep
<1>9. ReapGood'
  <2>1. Quieter BY <1>4, <1>6 DEF Quieter, Working
  <2>2. QED BY <1>1, <1>2, <1>6, <2>1, ReapGoodSame
<1>10. QED BY <1>3, <1>4, <1>5, <1>6, <1>8, <1>9, PartsPrimed DEF IndInv, AllGood

LEMMA RestartStep == ASSUME IndInv, Exits \/ Crash PROVE IndInv'
<1>1. /\ ProcOK /\ LaunchOK /\ StopOK /\ MachineOK /\ RunnerOK /\ FaultsOK
      /\ AllGood /\ ReapGood
  BY Parts DEF IndInv, AllGood
<1>2. Restarted BY DEF Exits, Crash
<1>3. UNCHANGED <<seen, stopped, deleted, failed, machine, runner>> BY <1>2 DEF Restarted
<1>4. MachineOK' /\ RunnerOK' BY <1>1, <1>3 DEF machine, MachineOK, RunnerOK
<1>5. FaultsOK' /\ Fewer BY <1>1, FewerIs DEF Exits, Crash
<1>6. ProcOK' /\ proc' = "list" BY <1>2 DEF Restarted, Nothing, ProcOK, Procs, Found
<1>7. \A l \in Names : pc'[l] = IF pc[l] \in Working THEN "lost" ELSE pc[l]
  BY <1>2, ActiveIs DEF Restarted
<1>8. LaunchOK'
  <2>1. \A l \in Names : (IF l \in Active THEN "lost" ELSE pc[l]) \in Places
    BY <1>1 DEF LaunchOK, Places
  <2>2. QED BY <1>1, <1>2, <1>3, <2>1 DEF Restarted, LaunchOK
<1>9. \A l \in Names : \A c \in Callers : stopper'[l][c] =
           IF stopper[l][c] \in {"stop", "delete"} THEN "lost" ELSE stopper[l][c]
  BY <1>2 DEF Restarted
<1>10. StopOK'
  <2>1. \A l \in Names : \A c \in Callers :
          (IF stopper[l][c] \in {"stop", "delete"} THEN "lost" ELSE stopper[l][c]) \in Stages
    BY <1>1 DEF StopOK, Stages
  <2>2. stopper' \in [Names -> [Callers -> Stages]] BY <1>2, <2>1 DEF Restarted
  <2>3. QED BY <1>1, <1>3, <2>2 DEF StopOK
<1>11. AllGood'
  <2>1. SUFFICES ASSUME NEW l \in Names PROVE StopGood(l)'
    BY DEF AllGood
  <2>2. StopGood(l) BY <1>1 DEF AllGood
  <2>3. "launch" \in Callers /\ "drain" \in Callers BY DEF Callers
  <2>4. /\ stopped'[l] = stopped[l] /\ deleted'[l] = deleted[l]
        /\ clone'[l] = clone[l] /\ vm'[l] = vm[l] /\ failed' = failed
    BY <1>3 DEF machine
  <2>5. /\ \A c \in Callers : stopper'[l][c] \notin {"stop", "delete"}
        /\ \A c \in Callers : stopper'[l][c] # "idle" => stopper[l][c] # "idle"
        /\ stopper[l]["launch"] = "done" => stopper'[l]["launch"] = "done"
        /\ stopper[l]["drain"] # "idle" => stopper'[l]["drain"] # "idle"
    BY <1>9, <2>3
  <2>6. /\ pc'[l] \in {"none", "done", "lost"} /\ (pc'[l] # "lost" => pc'[l] = pc[l])
        /\ (pc[l] = "none" => pc'[l] = "none")
        /\ (pc[l] \in {"none", "clone", "lost"} => pc'[l] \in {"none", "clone", "lost"})
        /\ (pc[l] \in {"finally", "done", "lost"} => pc'[l] \in {"finally", "done", "lost"})
    BY <1>1, <1>7 DEF LaunchOK, Places, Working
  <2>7. QED BY <1>5, <2>2, <2>3, <2>4, <2>5, <2>6 DEF StopGood, Forced, Fewer
<1>12. ReapGood'
  <2>1. Active' = {} BY <1>7, ActivePrimed DEF Working
  <2>2. QED BY <1>6, <2>1 DEF ReapGood
<1>13. QED BY <1>4, <1>5, <1>6, <1>8, <1>10, <1>11, <1>12, PartsPrimed DEF IndInv, AllGood

\* The client and the registration.
LEMMA RunnerStep ==
    ASSUME IndInv, NEW l \in Names,
           \/ SshBreaks(l) \/ RunnerConnects(l) \/ JobAssigned(l) \/ JobEnds(l) \/ RunnerLost(l)
           \/ ForceDeregister(l)
    PROVE  IndInv'
<1>1. /\ ProcOK /\ LaunchOK /\ StopOK /\ MachineOK /\ RunnerOK /\ FaultsOK
      /\ AllGood /\ ReapGood
  BY Parts DEF IndInv, AllGood
<1>2. UNCHANGED <<startup, launch, stops, clone, vm, faults>>
  BY DEF SshBreaks, RunnerConnects, JobAssigned, JobEnds, RunnerLost, ForceDeregister, machine
<1>3. ProcOK' /\ LaunchOK' /\ StopOK' /\ FaultsOK' /\ Fewer
  BY <1>1, <1>2 DEF startup, launch, stops, ProcOK, LaunchOK, StopOK, FaultsOK, Fewer
<1>4. MachineOK'
  <2>1. ssh' \in [Names -> BOOLEAN]
    BY <1>1 DEF SshBreaks, RunnerConnects, JobAssigned, JobEnds, RunnerLost, ForceDeregister,
               machine, MachineOK
  <2>2. QED BY <1>1, <1>2, <2>1 DEF MachineOK
<1>5. /\ RunnerOK'
      /\ \A m \in Names : runner[m] \in {"none", "removed"} => runner'[m] \in {"none", "removed"}
  BY <1>1 DEF SshBreaks, RunnerConnects, JobAssigned, JobEnds, RunnerLost, ForceDeregister,
             RunnerOK, Runners
<1>6. AllGood'
  <2>1. \A m \in Names : Same(m) BY <1>2 DEF Same, launch, stops
  <2>2. QED BY <1>1, <1>3, <2>1, AllSame
<1>7. ReapGood'
  <2>1. Quieter BY <1>2, <1>5 DEF Quieter, launch
  <2>2. QED BY <1>1, <1>2, <1>5, <2>1, ReapGoodSame
<1>8. QED BY <1>3, <1>4, <1>5, <1>6, <1>7, PartsPrimed DEF IndInv, AllGood

LEMMA InvStep == ASSUME IndInv, [Next]_vars PROVE IndInv'
BY ScanStep, PruneStep, ReapStep, LaunchStep, CloneStep, DriveStep, StopStep, DeleteStep, DownStep,
   SettleStep, RestartStep, RunnerStep
   DEF Next, Reaps, World, Steps

\* The inductive invariant holds in every state: one caller of stop runs tart
\* stop and one tart delete, and what the reconcile decided still holds when
\* the reaper acts on it.
THEOREM MacosInductive == Spec => []IndInv
BY InitInv, InvStep, PTL DEF Spec

\* LeavesNoVm: a launch that settled left no VM behind, unless tart failed or
\* the force-reap called stop beside it.
THEOREM NoVmLeft == Spec => []LeavesNoVm
<1>1. IndInv => LeavesNoVm BY DEF IndInv, StopGood, LeavesNoVm
<1>2. QED BY <1>1, MacosInductive, PTL

-----------------------------------------------------------------------------
(***************************************************************************)
(* The cap on the host's VMs                                               *)
(***************************************************************************)
Capped == IsFiniteSet(Active) /\ Cardinality(Active) <= MaxConcurrent

LEMMA CappedInit == Init => Capped
<1>1. SUFFICES ASSUME Init PROVE Capped
  OBVIOUS
<1>2. Active = {} BY <1>1, ActiveIs DEF Init, Working
<1>3. QED BY <1>2, FS_EmptySet, CapAssumption DEF Capped

\* Only a launch makes one more.
LEMMA ActiveShrinks ==
    ASSUME IndInv, [Next]_vars, \A l \in Names : ~Launch(l) PROVE Active' \subseteq Active
<1>1. LaunchOK BY Parts DEF IndInv
<1>2. CASE pc' = pc BY <1>2, ActiveIs, ActivePrimed
<1>3. CASE Restarted
  <2>1. \A l \in Names : pc'[l] \in Working => l \in Active
    BY <1>3, ActiveIs DEF Restarted, Working
  <2>2. QED BY <2>1, ActivePrimed
<1>4. ASSUME NEW l \in Names, NEW from \in Working, NEW to \in Places, Goes(l, from, to)
      PROVE  Active' \subseteq Active
  BY <1>1, <1>4, GoesKeeps, ActiveIs, ActivePrimed
<1>5. ASSUME NEW l \in Names, Steps(l) PROVE Active' \subseteq Active
  BY <1>2, <1>4, <1>5 DEF Steps, StartVm, NotReady, ChildCloses, LifetimeFires, Times, Settle, Stop,
                         StopReturns, DeleteReturns, launch, Working, Places
<1>6. ASSUME NEW l \in Names, IpFound(l) \/ SshReady(l) \/ JobSeen(l) \/ IdleFires(l)
      PROVE  Active' \subseteq Active
  BY <1>2, <1>4, <1>6 DEF IpFound, SshReady, JobSeen, IdleFires, Times, Working, Places
<1>7. ASSUME NEW l \in Names, Reaps(l) \/ World(l) PROVE pc' = pc
  BY <1>7 DEF Reaps, World, DeleteStale, DeleteStaleFails, ReapStop, ReapStopFails, ReapDelete,
              ReapDeleteFails, CloneEnds, CloneFails, VmStops, VmDies, VmTerminates, SshBreaks,
              RunnerConnects, JobAssigned, JobEnds, RunnerLost, launch
<1>8. ASSUME NEW l \in Names, NEW c \in Callers,
             ForceDeregister(l) \/ StopFails(l, c) \/ DeleteFails(l, c)
      PROVE  pc' = pc
  BY <1>8 DEF ForceDeregister, StopFails, DeleteFails, launch
<1>9. ASSUME NEW l \in Names, ForceDeregister(l) PROVE pc' = pc
  BY <1>9 DEF ForceDeregister, launch
<1>10. ASSUME \/ List \/ ListFails \/ ReapsOrNot \/ ReapList \/ ReapListFails \/ ReapDone
              \/ DeadlinePasses \/ UNCHANGED vars
       PROVE  pc' = pc
  BY <1>10 DEF List, ListFails, ReapsOrNot, ReapList, ReapListFails, ReapDone, DeadlinePasses,
               launch, vars
<1>11. QED
  BY <1>2, <1>3, <1>5, <1>6, <1>7, <1>8, <1>9, <1>10 DEF Next, Exits, Crash

LEMMA CappedStep == ASSUME IndInv, Capped, [Next]_vars PROVE Capped'
<1>1. CASE \E l \in Names : Launch(l)
  <2>1. PICK l \in Names : Launch(l) BY <1>1
  <2>2. LaunchOK BY Parts DEF IndInv
  <2>3. pc[l] = "none" /\ pc'[l] = "clone" /\ \A m \in Names \ {l} : pc'[m] = pc[m]
    BY <2>1, <2>2, GoesKeeps DEF Launch, Places, Working
  <2>4. l \notin Active /\ Active' = Active \union {l}
    BY <2>3, ActiveIs, ActivePrimed DEF Working
  <2>5. Cardinality(Active) < MaxConcurrent BY <2>1 DEF Launch
  <2>6. IsFiniteSet(Active') /\ Cardinality(Active') = Cardinality(Active) + 1
    BY <2>4, FS_AddElement DEF Capped
  <2>7. Cardinality(Active) \in Nat BY FS_CardinalityType DEF Capped
  <2>8. QED BY <2>5, <2>6, <2>7, CapAssumption DEF Capped
<1>2. CASE \A l \in Names : ~Launch(l)
  <2>1. Active' \subseteq Active BY <1>2, ActiveShrinks
  <2>2. IsFiniteSet(Active') /\ Cardinality(Active') <= Cardinality(Active)
    BY <2>1, FS_Subset DEF Capped
  <2>3. Cardinality(Active) \in Nat /\ Cardinality(Active') \in Nat
    BY <2>2, FS_CardinalityType DEF Capped
  <2>4. QED BY <2>2, <2>3, CapAssumption DEF Capped
<1>3. QED BY <1>1, <1>2

\* HostCap: MaxConcurrent VMs run on the host, beside those of processes
\* that are no more and those of launches that settled after tart stop had
\* failed or beside the force-reap.
THEOREM AtMostTheCap == Spec => []HostCap
<1>1. ASSUME IndInv, Capped PROVE HostCap
  <2>1. DEFINE Counted == {l \in Names : vm[l] = "running" /\ ~Uncounted(l)}
  <2>2. LaunchOK BY <1>1, Parts DEF IndInv
  <2>3. ASSUME NEW l \in Counted PROVE pc[l] \in Working
    <3>1. vm[l] = "running" /\ ~Uncounted(l) /\ StopGood(l) BY <1>1, <2>3 DEF IndInv
    <3>2. pc[l] # "none" /\ pc[l] # "lost" BY <3>1 DEF StopGood, Uncounted
    <3>3. pc[l] # "done" BY <3>1 DEF StopGood, Uncounted
    <3>4. QED BY <2>2, <3>2, <3>3 DEF LaunchOK, Places
  <2>4. Counted \subseteq Active BY <2>3, ActiveIs
  <2>5. IsFiniteSet(Counted) /\ Cardinality(Counted) <= Cardinality(Active)
    BY <1>1, <2>4, FS_Subset DEF Capped
  <2>6. Cardinality(Active) \in Nat /\ Cardinality(Counted) \in Nat
    BY <1>1, <2>5, FS_CardinalityType DEF Capped
  <2>7. Cardinality(Counted) <= MaxConcurrent
    BY <1>1, <2>5, <2>6, CapAssumption DEF Capped
  <2>8. QED BY <2>7 DEF HostCap
<1>2. Init => IndInv /\ Capped BY InitInv, CappedInit
<1>3. IndInv /\ Capped /\ [Next]_vars => (IndInv /\ Capped)' BY InvStep, CappedStep
<1>4. QED BY <1>1, <1>2, <1>3, PTL DEF Spec

-----------------------------------------------------------------------------
(***************************************************************************)
(* reapOrphans                                                             *)
(***************************************************************************)
ReapSparesJobsStep ==
    \A l \in Names : proc = "reap" /\ proc' = proc /\ found' # found /\ runner[l] = "busy"
                        => vm'[l] = vm[l]

\* ReapSparesJobs: the reaper takes no VM whose runner works on a job: when
\* it is reached, no registration of this host is left.
THEOREM JobsSpared == Spec => ReapSparesJobs
<1>1. IndInv => ReapSparesJobsStep BY DEF IndInv, ReapGood, ReapSparesJobsStep
<1>2. ReapSparesJobs <=> [][ReapSparesJobsStep]_vars BY DEF ReapSparesJobs, ReapSparesJobsStep
<1>3. QED BY <1>1, <1>2, MacosInductive, PTL DEF Spec

\* What the reaper has still to do.
ToReap ==
    /\ proc \in {"prune", "tart"} => found.at = Nobody
    /\ proc = "reap" =>
         \A l \in Names : vm[l] = "running" => l \in found.left \union (found.vms \ {found.at})

LEMMA ToReapScan ==
    ASSUME IndInv, ToReap,
           \/ List \/ ListFails \/ ReapsOrNot \/ ReapList \/ ReapListFails \/ ReapDone
           \/ DeadlinePasses \/ Exits \/ Crash \/ UNCHANGED vars
    PROVE  ToReap'
<1>1. ProcOK BY Parts DEF IndInv
<1>2. CASE List \/ ListFails BY <1>2 DEF List, ListFails, Nothing, ToReap
<1>3. CASE ReapsOrNot BY <1>3 DEF ReapsOrNot, ToReap
<1>4. CASE ReapList
  <2>1. /\ found' = [found EXCEPT !.vms = {l \in Names : vm[l] # "none"}] /\ vm' = vm
        /\ proc = "tart" /\ proc' = "reap"
    BY <1>4 DEF ReapList, machine
  <2>2. found'.vms = {l \in Names : vm[l] # "none"} /\ found'.at = Nobody
    BY <1>1, <2>1 DEF Found, ProcOK, ToReap
  <2>3. QED BY <2>1, <2>2, NobodyAssumption DEF ToReap
<1>5. CASE proc' \in {"serve", "drain", "list"} BY <1>5 DEF ToReap
<1>6. CASE UNCHANGED vars BY <1>6 DEF vars, startup, machine, ToReap
<1>7. QED
  BY <1>2, <1>3, <1>4, <1>5, <1>6
     DEF ReapListFails, ReapDone, DeadlinePasses, Exits, Crash, Restarted

LEMMA ToReapStarts ==
    ASSUME IndInv, ToReap, NEW l \in Names, Reaps(l) PROVE ToReap'
<1>1. ProcOK /\ MachineOK BY Parts DEF IndInv
<1>2. found \in Found /\ Nobody \notin found.vms BY <1>1, NobodyAssumption DEF ProcOK, Found
<1>3. CASE DeleteStale(l) \/ DeleteStaleFails(l)
  <2>1. proc = "prune" /\ proc' = proc BY <1>3 DEF DeleteStale, DeleteStaleFails
  <2>2. found'.at = found.at BY <1>2, <1>3 DEF DeleteStale, DeleteStaleFails, Found
  <2>3. QED BY <2>1, <2>2 DEF ToReap
<1>4. CASE ReapStop(l)
  <2>1. Down(l) /\ proc' = "reap" /\ proc = "reap" /\ found.at = Nobody BY <1>4 DEF ReapStop, Down
  <2>2. found'.at = l /\ found'.vms = found.vms /\ found'.left = found.left
    BY <1>2, <1>4 DEF ReapStop, Found
  <2>3. vm'[l] # "running" /\ \A m \in Names \ {l} : vm'[m] = vm[m] BY <1>1, <2>1, DownKeeps
  <2>4. QED BY <1>2, <2>1, <2>2, <2>3 DEF ToReap
<1>5. CASE ReapStopFails(l)
  <2>1. /\ found'.at = l /\ found'.vms = found.vms /\ found'.left = found.left \union {l}
        /\ found.at = Nobody /\ proc = "reap" /\ proc' = "reap" /\ vm' = vm
    BY <1>2, <1>5 DEF ReapStopFails, Found, machine
  <2>2. QED BY <1>2, <2>1 DEF ToReap
<1>6. CASE ReapDelete(l)
  <2>1. /\ found'.at = Nobody /\ found'.vms = found.vms \ {l} /\ found'.left = found.left
        /\ found.at = l /\ proc = "reap" /\ proc' = "reap" /\ Deleted(l)
    BY <1>2, <1>6 DEF ReapDelete, Found
  <2>2. \A m \in Names : vm'[m] = "running" => vm[m] = "running" BY <1>1, <2>1, DeletedKeeps
  <2>3. QED BY <1>2, <2>1, <2>2 DEF ToReap
<1>7. CASE ReapDeleteFails(l)
  <2>1. /\ found'.at = Nobody /\ found'.vms = found.vms \ {l} /\ found'.left = found.left \union {l}
        /\ found.at = l /\ proc = "reap" /\ proc' = "reap" /\ vm' = vm
    BY <1>2, <1>7 DEF ReapDeleteFails, Found, machine
  <2>2. QED BY <1>2, <2>1 DEF ToReap
<1>8. QED BY <1>3, <1>4, <1>5, <1>6, <1>7 DEF Reaps

\* While the reaper works no VM is started: no launch is active.
LEMMA ToReapFrame ==
    ASSUME IndInv, ToReap, UNCHANGED startup,
           \A m \in Names : vm'[m] = "running" => vm[m] = "running" \/ m \in Active
    PROVE  ToReap'
<1>1. proc \in {"list", "prune", "tart", "reap"} => Active = {} BY DEF IndInv, ReapGood
<1>2. QED BY <1>1 DEF ToReap, startup

LEMMA ToReapLaunch ==
    ASSUME IndInv, ToReap, NEW l \in Names,
           \/ World(l) \/ Steps(l) \/ Launch(l) \/ IpFound(l) \/ SshReady(l) \/ JobSeen(l)
           \/ IdleFires(l) \/ ForceDeregister(l)
           \/ \E c \in Callers : StopFails(l, c) \/ DeleteFails(l, c)
    PROVE  ToReap'
<1>1. MachineOK BY Parts DEF IndInv
<1>2. UNCHANGED startup
  BY DEF World, Steps, CloneEnds, CloneFails, VmStops, VmDies, VmTerminates, SshBreaks,
         RunnerConnects, JobAssigned, JobEnds, RunnerLost, StartVm, NotReady, ChildCloses, LifetimeFires, Times,
         Settle, Stop, StopReturns, DeleteReturns, Launch, IpFound, SshReady, JobSeen, IdleFires,
         ForceDeregister, StopFails, DeleteFails
<1>3. \A m \in Names : vm'[m] = "running" => vm[m] = "running" \/ m \in Active
  <2>1. CASE UNCHANGED vm BY <2>1
  <2>2. CASE StartVm(l)
    <3>1. l \in Active BY <2>2, ActiveIs DEF StartVm, Goes, Working
    <3>2. QED BY <1>1, <2>2, <3>1 DEF StartVm, MachineOK
  <2>3. CASE CloneEnds(l) \/ VmStops(l) \/ VmDies(l) \/ VmTerminates(l)
    BY <1>1, <2>3 DEF CloneEnds, VmStops, VmDies, VmTerminates, MachineOK
  <2>4. CASE \E c \in Callers : DeleteReturns(l, c)
    <3>1. Deleted(l) BY <2>4 DEF DeleteReturns
    <3>2. QED BY <1>1, <3>1, DeletedKeeps
  <2>5. QED
    BY <2>1, <2>2, <2>3, <2>4
    DEF World, Steps, CloneFails, SshBreaks, RunnerConnects, JobAssigned, JobEnds, RunnerLost,
        NotReady, ChildCloses, LifetimeFires, Times, Stop, StopReturns, Launch, IpFound, SshReady,
        JobSeen, IdleFires, Settle, ForceDeregister, StopFails, DeleteFails, machine
<1>4. QED BY <1>2, <1>3, ToReapFrame

ReapClearsStep == ReapDone => \A l \in Names : vm[l] = "running" => l \in found.left

\* ReapClears: when the reaper is done, no VM of an earlier process runs but
\* those that tart failed on.
THEOREM NoOrphanRuns == Spec => ReapClears
<1>1. Init => IndInv /\ ToReap BY InitInv DEF Init, ToReap
<1>2. ASSUME IndInv, ToReap, [Next]_vars PROVE (IndInv /\ ToReap)'
  BY <1>2, InvStep, ToReapScan, ToReapStarts, ToReapLaunch DEF Next
<1>3. ToReap => ReapClearsStep BY DEF ToReap, ReapClearsStep, ReapDone
<1>4. ReapClears <=> [][ReapClearsStep]_vars BY DEF ReapClears, ReapClearsStep
<1>5. QED BY <1>1, <1>2, <1>3, <1>4, PTL DEF Spec
=============================================================================
