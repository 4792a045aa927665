----------------------- MODULE ServiceOperationProofs -----------------------
(***************************************************************************)
(* ServiceOperation for any command lines, operations and faults: types,   *)
(* the lock, and, as long as no operation holds it for an hour, what is on *)
(* disk: the launcher, the rollback target and the journal.                *)
(***************************************************************************)
EXTENDS ServiceOperation, TLAPS

Kinds == {"install", "update", "force", "uninstall"}
\* Places without an id, with the lock, and after it.
Before == {"idle", "check", "lock", "look", "remove", "own"}
Steady == {"recover", "mark", "preflight", "begin", "nested", "stopold", "make", "rename", "note",
            "point", "start", "drain", "verify", "record", "undo", "fail", "commit", "prune",
            "stop", "unpoint", "wipe"}
Working == Steady \union {"wiping"}
After == {"reload", "unlock"}
Places == Before \union Working \union After
Stores == {"absent", "bare", "marked", "whole", "pruned", "wiped"}
Mems == [journal : Journals, was : BOOLEAN]

FrontOK ==
    /\ host \in Hosts /\ pc \in [Procs -> Places] /\ kind \in [Procs -> Kinds]
    /\ op \in [Procs -> Some] /\ started \in Some /\ ops \in Some
MemOK == mem \in [Procs -> Mems]
LockOK ==
    /\ dir \in BOOLEAN /\ lock \in Some /\ aged \in BOOLEAN /\ reused \in BOOLEAN
    /\ saw \in [Procs -> Some] /\ raced \in BOOLEAN
JournalOK == journal \in Journals
StoreOK == store \in [Ids -> Stores] /\ stable \in Some /\ old \in Some
ServiceOK ==
    /\ launcher \in Some \union {Torn} /\ current \in Some /\ running \in Some
    /\ busy \in BOOLEAN /\ draining \in BOOLEAN
FaultsOK == faults \in 0 .. MaxFaults

LEMMA Parts ==
    TypeOK <=> FrontOK /\ MemOK /\ LockOK /\ JournalOK /\ StoreOK /\ ServiceOK /\ FaultsOK
BY DEF TypeOK, FrontOK, MemOK, LockOK, JournalOK, StoreOK, ServiceOK, FaultsOK,
       Kinds, Places, Before, Steady, Working, After, Stores, Mems

LEMMA PartsPrimed ==
    FrontOK' /\ MemOK' /\ LockOK' /\ JournalOK' /\ StoreOK' /\ ServiceOK' /\ FaultsOK' => TypeOK'
BY DEF TypeOK, FrontOK, MemOK, LockOK, JournalOK, StoreOK, ServiceOK, FaultsOK,
       Kinds, Places, Before, Steady, Working, After, Stores, Mems

LEMMA Numbers == 0 \in Some /\ Ids \subseteq Some /\ \A n \in Some : n # 0 => n \in Ids
BY OpsAssumption DEF Some, Ids

LEMMA TornIs == Torn \notin Some /\ Torn \notin Ids
BY OpsAssumption DEF Torn, Some, Ids

LEMMA BlankOK == NoJournal \in Journals /\ Blank \in Mems
BY Numbers DEF NoJournal, Journals, Blank, Mems

LEMMA FaultKeeps == ASSUME FaultsOK, Fault PROVE FaultsOK'
BY OpsAssumption DEF FaultsOK, Fault

LEMMA FaultOrNot == ASSUME FaultsOK, Fault \/ UNCHANGED faults PROVE FaultsOK'
BY FaultKeeps DEF FaultsOK

LEMMA GoesKeeps ==
    ASSUME FrontOK, NEW p \in Procs, NEW from, NEW to \in Places, Goes(p, from, to)
    PROVE  /\ pc' \in [Procs -> Places] /\ pc[p] = from /\ pc'[p] = to
           /\ \A q \in Procs \ {p} : pc'[q] = pc[q]
BY DEF FrontOK, Goes

LEMMA EndsKeeps ==
    ASSUME FrontOK, MemOK, NEW p \in Procs, Ends(p)
    PROVE  /\ pc' \in [Procs -> Places] /\ kind' \in [Procs -> Kinds] /\ op' \in [Procs -> Some]
           /\ MemOK' /\ pc'[p] = "idle" /\ op'[p] = 0
           /\ \A q \in Procs \ {p} : pc'[q] = pc[q] /\ op'[q] = op[q] /\ mem'[q] = mem[q]
<1>1. pc' \in [Procs -> Places] /\ kind' \in [Procs -> Kinds] /\ op' \in [Procs -> Some]
  BY Numbers DEF Ends, FrontOK, Places, Before, Kinds
<1>2. MemOK' BY BlankOK DEF Ends, MemOK
<1>3. pc'[p] = "idle" /\ op'[p] = 0 BY DEF Ends, FrontOK
<1>4. \A q \in Procs \ {p} : pc'[q] = pc[q] /\ op'[q] = op[q] /\ mem'[q] = mem[q]
  BY DEF Ends, FrontOK, MemOK
<1>5. QED BY <1>1, <1>2, <1>3, <1>4

LEMMA InstalledOK == ASSUME ServiceOK PROVE Installed \in Some
BY Numbers DEF ServiceOK, Installed

LEMMA StartableOK == Startable \in Some
BY Numbers DEF Startable, Whole

LEMMA TargetOK == ASSUME JournalOK PROVE Target \in Some
BY DEF JournalOK, Journals, Target

-----------------------------------------------------------------------------
(***************************************************************************)
(* The steps of an operation that holds the lock                           *)
(***************************************************************************)
\* What they have in common: p goes on from a place to the next.
Works(p) ==
    /\ pc' \in [Procs -> Places] /\ pc[p] \in Steady /\ pc'[p] \in Steady \union {"unlock"}
    /\ \A q \in Procs \ {p} : pc'[q] = pc[q]
    /\ UNCHANGED <<host, kind, op, started, ops, dir, lock, aged, reused, saw, raced>>

Recovering(p) == NothingPending(p) \/ Restore(p) \/ RestoreFails(p) \/ MarkFailed(p)
Beginnings(p) ==
    Preflight(p) \/ PreflightFails(p) \/ Begin(p) \/ Nested(p) \/ StopOld(p) \/ StopOldFails(p)
Making(p) == Copy(p) \/ Rename(p) \/ NoteCurrent(p) \/ Point(p)
Starting(p) ==
    Restart(p) \/ StartUnit(p) \/ StartTask(p) \/ Restarted(p) \/ Verify(p) \/ Record(p)
Ending(p) ==
    StepFails(p) \/ Undo(p) \/ UndoFails(p) \/ Fail(p) \/ Commit(p) \/ Prune(p) \/ PruneFails(p)
Removing(p) == StopService(p) \/ StopServiceFails(p) \/ Unpoint(p) \/ UnpointFails(p)

LEMMA GoesWorks ==
    ASSUME FrontOK, NEW p \in Procs, NEW from \in Steady, NEW to \in Steady \union {"unlock"},
           Goes(p, from, to), UNCHANGED <<host, kind, op, started, locking>>
    PROVE  Works(p)
<1>1. to \in Places BY DEF Places, Working, After
<1>2. QED BY <1>1, GoesKeeps DEF Works, locking

LEMMA RecoveringWorks == ASSUME FrontOK, NEW p \in Procs, Recovering(p) PROVE Works(p)
<1>1. PICK from \in Steady, to \in Steady \union {"unlock"} : Goes(p, from, to)
  BY DEF Recovering, NothingPending, Restore, RestoreFails, MarkFailed, Recovered, Steady
<1>2. UNCHANGED <<host, kind, op, started, locking>>
  BY DEF Recovering, NothingPending, Restore, RestoreFails, MarkFailed
<1>3. QED BY <1>1, <1>2, GoesWorks

LEMMA BeginningsWorks == ASSUME FrontOK, NEW p \in Procs, Beginnings(p) PROVE Works(p)
<1>1. PICK from \in Steady, to \in Steady \union {"unlock"} : Goes(p, from, to)
  BY DEF Beginnings, Preflight, PreflightFails, Begin, Nested, StopOld, StopOldFails, Steady
<1>2. UNCHANGED <<host, kind, op, started, locking>>
  BY DEF Beginnings, Preflight, PreflightFails, Begin, Nested, StopOld, StopOldFails
<1>3. QED BY <1>1, <1>2, GoesWorks

LEMMA MakingWorks == ASSUME FrontOK, NEW p \in Procs, Making(p) PROVE Works(p)
<1>1. PICK from \in Steady, to \in Steady \union {"unlock"} : Goes(p, from, to)
  BY DEF Making, Copy, Rename, NoteCurrent, Point, Steady
<1>2. UNCHANGED <<host, kind, op, started, locking>>
  BY DEF Making, Copy, Rename, NoteCurrent, Point
<1>3. QED BY <1>1, <1>2, GoesWorks

LEMMA StartingWorks == ASSUME FrontOK, NEW p \in Procs, Starting(p) PROVE Works(p)
<1>1. PICK from \in Steady, to \in Steady \union {"unlock"} : Goes(p, from, to)
  BY DEF Starting, Restart, StartUnit, StartTask, Restarted, Verify, Record, Steady
<1>2. UNCHANGED <<host, kind, op, started, locking>>
  BY DEF Starting, Restart, StartUnit, StartTask, Restarted, Verify, Record
<1>3. QED BY <1>1, <1>2, GoesWorks

LEMMA EndingWorks == ASSUME FrontOK, NEW p \in Procs, Ending(p) PROVE Works(p)
<1>1. PICK from \in Steady, to \in Steady \union {"unlock"} : Goes(p, from, to)
  <2>1. CASE StepFails(p)
    <3>1. pc[p] \in Steady BY <2>1 DEF StepFails, Steady
    <3>2. Goes(p, pc[p], IF Rescued(p) /\ pc[p] # "commit" THEN "undo" ELSE "fail")
      BY <2>1 DEF StepFails, Goes
    <3>3. QED BY <3>1, <3>2 DEF Steady
  <2>2. QED
    BY <2>1 DEF Ending, Undo, UndoFails, Fail, Commit, Prune, PruneFails, Steady
<1>2. UNCHANGED <<host, kind, op, started, locking>>
  BY DEF Ending, StepFails, Undo, UndoFails, Fail, Commit, Prune, PruneFails
<1>3. QED BY <1>1, <1>2, GoesWorks

LEMMA RemovingWorks == ASSUME FrontOK, NEW p \in Procs, Removing(p) PROVE Works(p)
<1>1. PICK from \in Steady, to \in Steady \union {"unlock"} : Goes(p, from, to)
  BY DEF Removing, StopService, StopServiceFails, Unpoint, UnpointFails, Steady
<1>2. UNCHANGED <<host, kind, op, started, locking>>
  BY DEF Removing, StopService, StopServiceFails, Unpoint, UnpointFails
<1>3. QED BY <1>1, <1>2, GoesWorks

LEMMA WorksFront == ASSUME FrontOK, LockOK, NEW p \in Procs, Works(p) PROVE FrontOK' /\ LockOK'
BY DEF FrontOK, LockOK, Works

Data == MemOK /\ JournalOK /\ StoreOK /\ ServiceOK /\ FaultsOK

LEMMA RecoveringTypes ==
    ASSUME FrontOK, Data, NEW p \in Procs, Recovering(p) PROVE Data'
<1>1. MemOK' /\ StoreOK'
  BY DEF Data, Recovering, NothingPending, Restore, RestoreFails, MarkFailed, disk, MemOK, StoreOK
<1>2. FaultsOK'
  BY FaultOrNot DEF Data, Recovering, NothingPending, Restore, RestoreFails, MarkFailed
<1>3. Target \in Some BY TargetOK DEF Data
<1>4. JournalOK'
  <2>1. CASE MarkFailed(p)
    <3>1. journal \in Journals BY DEF Data, JournalOK
    <3>2. (IF Target # 0 THEN Target ELSE journal.current) \in Some
      BY <1>3, <3>1 DEF Journals
    <3>3. journal' = [journal EXCEPT !.phase = "failed",
                                     !.current = IF Target # 0 THEN Target ELSE journal.current]
      BY <2>1 DEF MarkFailed
    <3>4. QED BY <3>1, <3>2, <3>3 DEF JournalOK, Journals
  <2>2. CASE UNCHANGED journal BY <2>2 DEF Data, JournalOK
  <2>3. QED BY <2>1, <2>2 DEF Recovering, NothingPending, Restore, RestoreFails, disk
<1>5. ServiceOK'
  <2>1. CASE Restore(p) BY <1>3, <2>1 DEF Restore, Restored, Data, ServiceOK
  <2>2. CASE RestoreFails(p) BY <1>3, <2>2 DEF RestoreFails, Restored, Data, ServiceOK
  <2>3. CASE UNCHANGED service BY <2>3 DEF service, Data, ServiceOK
  <2>4. QED BY <2>1, <2>2, <2>3 DEF Recovering, NothingPending, MarkFailed
<1>6. QED BY <1>1, <1>2, <1>4, <1>5 DEF Data

LEMMA BeginningOK == ASSUME Data PROVE Beginning \in Journals
<1>1. Installed \in Some /\ journal \in Journals BY InstalledOK DEF Data, JournalOK
<1>2. QED BY <1>1 DEF Beginning, Journals

LEMMA BeginningsTypes ==
    ASSUME FrontOK, Data, NEW p \in Procs, Beginnings(p) PROVE Data'
<1>1. StoreOK'
  BY DEF Data, Beginnings, Preflight, PreflightFails, Begin, Nested, StopOld, StopOldFails, disk,
         StoreOK
<1>2. FaultsOK'
  BY FaultOrNot DEF Data, Beginnings, Preflight, PreflightFails, Begin, Nested, StopOld, StopOldFails
<1>3. MemOK' /\ JournalOK'
  <2>1. mem[p] \in Mems BY DEF Data, MemOK
  <2>2. CASE Begin(p)
    <3>1. Beginning \in Journals BY BeginningOK
    <3>2. mem' = [mem EXCEPT ![p].journal = Beginning] /\ journal' = Beginning
      BY <2>2 DEF Begin
    <3>3. QED BY <2>1, <3>1, <3>2 DEF Data, MemOK, Mems, JournalOK
  <2>3. CASE Preflight(p) \/ StopOld(p)
    <3>1. PICK was \in BOOLEAN : mem' = [mem EXCEPT ![p].was = was] /\ journal' = journal
      <4>1. (host = "systemd" /\ running # 0) \in BOOLEAN /\ (running # 0) \in BOOLEAN OBVIOUS
      <4>2. QED BY <2>3, <4>1 DEF Preflight, StopOld, disk
    <3>2. QED BY <2>1, <3>1 DEF Data, MemOK, Mems, JournalOK
  <2>4. CASE UNCHANGED <<mem, journal>> BY <2>4 DEF Data, MemOK, JournalOK
  <2>5. QED BY <2>2, <2>3, <2>4 DEF Beginnings, PreflightFails, Nested, StopOldFails, disk
<1>4. ServiceOK'
  <2>1. CASE StopOld(p) BY <2>1, Numbers DEF StopOld, Data, ServiceOK
  <2>2. CASE StopOldFails(p) BY <2>2, Numbers DEF StopOldFails, Data, ServiceOK
  <2>3. CASE UNCHANGED service BY <2>3 DEF service, Data, ServiceOK
  <2>4. QED BY <2>1, <2>2, <2>3 DEF Beginnings, Preflight, PreflightFails, Begin, Nested
<1>5. QED BY <1>1, <1>2, <1>3, <1>4 DEF Data

LEMMA MakingTypes ==
    ASSUME FrontOK, Data, NEW p \in Procs, Making(p) PROVE Data'
<1>1. op[p] \in Some BY DEF FrontOK
<1>2. FaultsOK' BY DEF Data, FaultsOK, Making, Copy, Rename, NoteCurrent, Point
<1>3. MemOK' /\ JournalOK'
  <2>1. CASE NoteCurrent(p)
    <3>1. mem[p] \in Mems /\ mem[p].journal \in Journals BY DEF Data, MemOK, Mems
    <3>2. [mem[p].journal EXCEPT !.current = op[p]] \in Journals BY <1>1, <3>1 DEF Journals
    <3>3. mem' = [mem EXCEPT ![p] = [mem[p] EXCEPT !.journal =
                     [mem[p].journal EXCEPT !.current = op[p]]]]
      BY <2>1 DEF NoteCurrent
    <3>4. [mem[p] EXCEPT !.journal = [mem[p].journal EXCEPT !.current = op[p]]] \in Mems
      BY <3>1, <3>2 DEF Mems
    <3>5. mem' \in [Procs -> Mems] /\ mem'[p].journal = [mem[p].journal EXCEPT !.current = op[p]]
      BY <3>1, <3>3, <3>4 DEF Data, MemOK, Mems
    <3>6. journal' = mem'[p].journal BY <2>1 DEF NoteCurrent
    <3>7. QED BY <3>2, <3>5, <3>6 DEF MemOK, JournalOK
  <2>2. CASE UNCHANGED <<mem, journal>> BY <2>2 DEF Data, MemOK, JournalOK
  <2>3. QED BY <2>1, <2>2 DEF Making, Copy, Rename, Point, disk
<1>4. StoreOK'
  <2>1. CASE Copy(p) BY <2>1 DEF Copy, Data, StoreOK, Stores
  <2>2. CASE Rename(p) BY <2>2 DEF Rename, Data, StoreOK, Stores
  <2>3. CASE UNCHANGED <<store, stable, old>> BY <2>3 DEF Data, StoreOK
  <2>4. QED BY <2>1, <2>2, <2>3 DEF Making, NoteCurrent, Point, disk
<1>5. ServiceOK'
  BY <1>1 DEF Data, ServiceOK, Making, Copy, Rename, NoteCurrent, Point, service
<1>6. QED BY <1>2, <1>3, <1>4, <1>5 DEF Data

LEMMA StartingTypes ==
    ASSUME FrontOK, Data, NEW p \in Procs, Starting(p) PROVE Data'
<1>1. op[p] \in Some BY DEF FrontOK
<1>2. MemOK' /\ JournalOK' /\ StoreOK' /\ FaultsOK'
  BY DEF Data, MemOK, JournalOK, StoreOK, FaultsOK, disk,
         Starting, Restart, StartUnit, StartTask, Restarted, Verify, Record
<1>3. ServiceOK'
  <2>1. CASE Restart(p) BY <2>1 DEF Restart, Data, ServiceOK
  <2>2. CASE StartUnit(p) BY <2>2, StartableOK DEF StartUnit, Data, ServiceOK
  <2>3. CASE StartTask(p) BY <2>3, StartableOK DEF StartTask, Data, ServiceOK
  <2>4. CASE Record(p) BY <1>1, <2>4 DEF Record, Data, ServiceOK
  <2>5. CASE UNCHANGED service BY <2>5 DEF service, Data, ServiceOK
  <2>6. QED BY <2>1, <2>2, <2>3, <2>4, <2>5 DEF Starting, Restarted, Verify
<1>4. QED BY <1>2, <1>3 DEF Data

LEMMA EndingTypes ==
    ASSUME FrontOK, Data, NEW p \in Procs, Ending(p) PROVE Data'
<1>1. op[p] \in Some /\ mem[p].journal \in Journals BY DEF FrontOK, Data, MemOK, Mems
<1>2. MemOK'
  BY BlankOK DEF Data, MemOK, Ending, StepFails, Undo, UndoFails, Fail, Commit, Prune, PruneFails
<1>3. FaultsOK'
  BY FaultOrNot DEF Data, Ending, StepFails, Undo, UndoFails, Fail, Commit, Prune, PruneFails
<1>4. JournalOK'
  <2>1. CASE Fail(p)
    <3>1. journal' = [mem[p].journal EXCEPT !.phase = "failed", !.current = mem[p].journal.previous]
      BY <2>1 DEF Fail
    <3>2. QED BY <1>1, <3>1 DEF JournalOK, Journals
  <2>2. CASE Commit(p)
    <3>1. Installed \in Some BY InstalledOK DEF Data
    <3>2. StablePrevious(mem[p].journal) \in Some BY <1>1, Numbers DEF StablePrevious, Journals
    <3>3. (IF host = "systemd" THEN op[p] ELSE Installed) \in Some BY <1>1, <3>1
    <3>4. journal' = [mem[p].journal EXCEPT !.phase = "committed",
                         !.current = IF host = "systemd" THEN op[p] ELSE Installed,
                         !.good = StablePrevious(mem[p].journal)]
      BY <2>2 DEF Commit
    <3>5. QED BY <1>1, <3>2, <3>3, <3>4 DEF JournalOK, Journals
  <2>3. CASE UNCHANGED journal BY <2>3 DEF Data, JournalOK
  <2>4. QED BY <2>1, <2>2, <2>3 DEF Ending, StepFails, Undo, UndoFails, Prune, PruneFails, disk
<1>5. StoreOK'
  <2>1. CASE StepFails(p)
    <3>1. \A r \in Ids :
            (IF r = op[p] /\ pc[p] = "rename" THEN "absent" ELSE store[r]) \in Stores
      BY DEF Data, StoreOK, Stores
    <3>2. QED BY <2>1, <3>1 DEF StepFails, Data, StoreOK
  <2>2. CASE Prune(p)
    <3>1. \A r \in Ids :
            (IF r \in Named \ (Kept \union Floor) THEN "pruned" ELSE store[r]) \in Stores
      BY DEF Data, StoreOK, Stores
    <3>2. QED BY <2>2, <3>1 DEF Prune, Data, StoreOK
  <2>3. CASE UNCHANGED <<store, stable, old>> BY <2>3 DEF Data, StoreOK
  <2>4. QED BY <2>1, <2>2, <2>3 DEF Ending, Undo, UndoFails, Fail, Commit, PruneFails, disk
<1>6. ServiceOK'
  <2>1. CASE StepFails(p) BY <1>1, <2>1 DEF StepFails, Data, ServiceOK
  <2>2. CASE Undo(p)
    <3>1. mem[p].journal.previous \in Some BY <1>1 DEF Journals
    <3>2. QED BY <2>2, <3>1 DEF Undo, Data, ServiceOK
  <2>3. CASE UndoFails(p) BY <2>3 DEF UndoFails, Data, ServiceOK
  <2>4. CASE UNCHANGED service BY <2>4 DEF service, Data, ServiceOK
  <2>5. QED BY <2>1, <2>2, <2>3, <2>4 DEF Ending, Fail, Commit, Prune, PruneFails
<1>7. QED BY <1>2, <1>3, <1>4, <1>5, <1>6 DEF Data

LEMMA RemovingTypes ==
    ASSUME FrontOK, Data, NEW p \in Procs, Removing(p) PROVE Data'
<1>1. MemOK' /\ JournalOK' /\ StoreOK'
  BY DEF Data, MemOK, JournalOK, StoreOK, disk, Removing, StopService, StopServiceFails, Unpoint, UnpointFails
<1>2. FaultsOK' BY FaultOrNot DEF Data, Removing, StopService, StopServiceFails, Unpoint, UnpointFails
<1>3. ServiceOK'
  <2>1. CASE StopService(p) BY <2>1, Numbers DEF StopService, Data, ServiceOK
  <2>2. CASE Unpoint(p) BY <2>2, Numbers DEF Unpoint, Data, ServiceOK
  <2>3. CASE UnpointFails(p) \/ StopServiceFails(p)
    BY <2>3 DEF UnpointFails, StopServiceFails, service, Data, ServiceOK
  <2>4. QED BY <2>1, <2>2, <2>3 DEF Removing
<1>4. QED BY <1>1, <1>2, <1>3 DEF Data

\* The service manager, the jobs and time touch no process and no lock.
LEMMA ManagerTypes ==
    ASSUME FrontOK, Data, LockOK, Manager \/ DaysPass PROVE FrontOK' /\ Data' /\ LockOK'
<1>1. UNCHANGED <<host, process, ops, journal, store, launcher, current>>
  BY DEF Manager, RestartEnds, DispatcherRestarts, DispatcherStops, JobStarts, JobEnds, PidReused,
         HourPasses, DaysPass, locking, disk, service
<1>2. FrontOK' /\ MemOK' /\ JournalOK'
  BY <1>1 DEF process, FrontOK, Data, MemOK, JournalOK
<1>3. LockOK'
  BY DEF LockOK, Manager, RestartEnds, DispatcherRestarts, DispatcherStops, JobStarts, JobEnds,
         PidReused, HourPasses, DaysPass, locking
<1>4. FaultsOK'
  BY FaultOrNot DEF Data, Manager, RestartEnds, DispatcherRestarts, DispatcherStops, JobStarts,
                    JobEnds, PidReused, HourPasses, DaysPass
<1>5. StoreOK'
  <2>1. CASE DaysPass
    <3>1. stable' = ops /\ old' = stable BY <2>1 DEF DaysPass
    <3>2. QED BY <1>1, <3>1 DEF Data, StoreOK, FrontOK
  <2>2. CASE Manager
    BY <2>2 DEF Data, StoreOK, Manager, RestartEnds, DispatcherRestarts, DispatcherStops, JobStarts,
               JobEnds, PidReused, HourPasses, disk
  <2>3. QED BY <2>1, <2>2
<1>6. ServiceOK'
  BY Numbers, StartableOK DEF Data, ServiceOK, Manager, RestartEnds, DispatcherRestarts, DispatcherStops,
                 JobStarts, JobEnds, PidReused, HourPasses, DaysPass, service
<1>7. QED BY <1>2, <1>3, <1>4, <1>5, <1>6 DEF Data

\* A command line is given, tries to get the lock, gives up, ends or dies.
Trying(p) == MakeDir(p) \/ Busy(p) \/ LookStale(p) \/ Remove(p)
Waiting(p) == (\E k \in Kinds : Call(p, k)) \/ UpdateGoesOn(p) \/ Trying(p) \/ Reload(p)
Leaving(p) == UpdateRefused(p) \/ LockTimesOut(p) \/ Unlock(p) \/ Crash(p)
Wiping(p) == WipeSome(p) \/ WipeRest(p) \/ WipeFails(p)

LEMMA TryingTypes ==
    ASSUME FrontOK, LockOK, NEW p \in Procs, Trying(p)
    PROVE  /\ LockOK' /\ pc' \in [Procs -> Places]
           /\ pc[p] \in Before /\ pc'[p] \in Before \ {"idle"}
           /\ \A q \in Procs \ {p} : pc'[q] = pc[q]
           /\ UNCHANGED <<host, kind, op, mem, started, ops, disk, service, faults>>
<1>1. UNCHANGED <<host, kind, op, mem, started, ops, disk, service, faults>>
  BY DEF Trying, MakeDir, Busy, LookStale, Remove, locking
<1>2. LockOK'
  <2>1. (\E q \in Procs : pc[q] = "wiping") \in BOOLEAN /\ (lock # saw[p] \/ BeingMade) \in BOOLEAN
    OBVIOUS
  <2>2. CASE MakeDir(p) BY <2>2, <2>1 DEF MakeDir, LockOK
  <2>3. CASE Busy(p) BY <2>3 DEF Busy, LockOK, locking
  <2>4. CASE LookStale(p) BY <2>4 DEF LookStale, LockOK
  <2>5. CASE Remove(p) BY <2>5, <2>1, Numbers DEF Remove, LockGoes, LockOK
  <2>6. QED BY <2>2, <2>3, <2>4, <2>5 DEF Trying
<1>3. PICK from \in Before, to \in Before \ {"idle"} : Goes(p, from, to)
  BY DEF Trying, MakeDir, Tries, Busy, LookStale, Remove, Goes, Before
<1>4. to \in Places BY DEF Places
<1>5. QED BY <1>1, <1>2, <1>3, <1>4, GoesKeeps

LEMMA WaitingTypes ==
    ASSUME FrontOK, Data, LockOK, NEW p \in Procs, Waiting(p)
    PROVE  /\ FrontOK' /\ Data' /\ LockOK'
           /\ \/ Trying(p)
              \/ /\ pc[p] \in {"idle", "check"} /\ pc'[p] \in {"check", "lock"}
                 /\ UNCHANGED locking
              \/ /\ pc[p] = "reload" /\ pc'[p] = "unlock"
                 /\ UNCHANGED locking
           /\ \A q \in Procs \ {p} : pc'[q] = pc[q]
           /\ pc'[p] \notin Working
           /\ UNCHANGED <<host, op, mem, ops, disk, service>>
<1>1. UNCHANGED <<host, op, mem, ops, disk, service, faults>>
  BY TryingTypes DEF Waiting, Call, UpdateGoesOn, Reload, locking
<1>2. Data' BY <1>1 DEF Data, MemOK, JournalOK, StoreOK, ServiceOK, FaultsOK, disk, service
<1>3. CASE \E k \in Kinds : Call(p, k)
  <2>1. PICK k \in Kinds : Call(p, k) BY <1>3
  <2>2. started + 1 \in Some BY <2>1, OpsAssumption DEF Call, FrontOK, Some
  <2>3. /\ pc' \in [Procs -> Places] /\ pc[p] = "idle" /\ pc'[p] \in {"check", "lock"}
        /\ \A q \in Procs \ {p} : pc'[q] = pc[q]
    BY <2>1, GoesKeeps DEF Call, Places, Before
  <2>4. FrontOK' BY <1>1, <2>1, <2>2, <2>3 DEF Call, FrontOK, Kinds
  <2>5. LockOK' /\ UNCHANGED locking BY <2>1 DEF Call, LockOK, locking
  <2>6. QED BY <1>1, <1>2, <2>3, <2>4, <2>5 DEF Working, Steady
<1>4. CASE UpdateGoesOn(p) \/ Reload(p)
  <2>1. /\ pc' \in [Procs -> Places]
        /\ \/ pc[p] = "check" /\ pc'[p] = "lock"
           \/ pc[p] = "reload" /\ pc'[p] = "unlock"
        /\ \A q \in Procs \ {p} : pc'[q] = pc[q]
    BY <1>4, GoesKeeps DEF UpdateGoesOn, Reload, Places, Before, After
  <2>2. UNCHANGED locking /\ kind' \in [Procs -> Kinds] /\ started' = started
    BY <1>4 DEF UpdateGoesOn, Reload, FrontOK, Kinds
  <2>3. FrontOK' /\ LockOK' BY <1>1, <2>1, <2>2 DEF FrontOK, LockOK, locking
  <2>4. QED BY <1>1, <1>2, <2>1, <2>2, <2>3 DEF Working, Steady
<1>5. CASE Trying(p)
  <2>1. FrontOK' BY <1>5, TryingTypes DEF FrontOK
  <2>2. pc'[p] \notin Working BY <1>5, TryingTypes DEF Working, Steady, Before
  <2>3. QED BY <1>1, <1>2, <1>5, <2>1, <2>2, TryingTypes
<1>6. QED BY <1>3, <1>4, <1>5 DEF Waiting

LEMMA LeavingTypes ==
    ASSUME FrontOK, Data, LockOK, NEW p \in Procs, Leaving(p)
    PROVE  /\ FrontOK' /\ Data' /\ LockOK' /\ pc'[p] = "idle" /\ op'[p] = 0
           /\ \A q \in Procs \ {p} : pc'[q] = pc[q] /\ op'[q] = op[q] /\ mem'[q] = mem[q]
           /\ UNCHANGED <<host, ops, raced, disk, current, running>>
           /\ launcher' = launcher \/ (Writing(p) /\ launcher' = Torn)
           /\ \/ /\ UNCHANGED <<dir, lock, aged, reused>>
                 /\ saw' = saw \/ saw' = [saw EXCEPT ![p] = 0]
              \/ pc[p] = "unlock" /\ lock = op[p] /\ LockGoes /\ saw' = saw
<1>1. Ends(p) /\ UNCHANGED <<host, started, ops, raced, disk, current, running, draining>>
  BY DEF Leaving, UpdateRefused, LockTimesOut, Unlock, Crash, locking, service
<1>2. /\ pc' \in [Procs -> Places] /\ kind' \in [Procs -> Kinds] /\ op' \in [Procs -> Some]
      /\ MemOK' /\ pc'[p] = "idle" /\ op'[p] = 0
      /\ \A q \in Procs \ {p} : pc'[q] = pc[q] /\ op'[q] = op[q] /\ mem'[q] = mem[q]
  BY <1>1, EndsKeeps DEF Data
<1>3. FrontOK' BY <1>1, <1>2 DEF FrontOK
<1>4. FaultsOK' BY FaultOrNot DEF Data, Leaving, UpdateRefused, LockTimesOut, Unlock, Crash
<1>5. /\ launcher' = launcher \/ (Writing(p) /\ launcher' = Torn)
      /\ busy' = busy
  BY DEF Leaving, UpdateRefused, LockTimesOut, Unlock, Crash, service
<1>6. Data' BY <1>1, <1>2, <1>4, <1>5 DEF Data, JournalOK, StoreOK, ServiceOK, disk
<1>7. \/ /\ UNCHANGED <<dir, lock, aged, reused>>
         /\ saw' = saw \/ saw' = [saw EXCEPT ![p] = 0]
      \/ pc[p] = "unlock" /\ lock = op[p] /\ LockGoes /\ saw' = saw
  BY DEF Leaving, UpdateRefused, LockTimesOut, Unlock, Crash, locking
<1>8. LockOK' BY <1>1, <1>7, Numbers DEF LockOK, LockGoes
<1>9. QED BY <1>1, <1>2, <1>3, <1>5, <1>6, <1>7, <1>8

LEMMA WriteOwnerTypes ==
    ASSUME FrontOK, Data, LockOK, NEW p \in Procs, WriteOwner(p)
    PROVE  /\ FrontOK' /\ Data' /\ LockOK'
           /\ pc[p] = "own" /\ pc'[p] = "recover"
           /\ ops + 1 \in Ids /\ ops' = ops + 1 /\ op'[p] = ops + 1 /\ lock' = ops + 1 /\ dir'
           /\ \A q \in Procs \ {p} : pc'[q] = pc[q] /\ op'[q] = op[q]
           /\ UNCHANGED <<host, mem, aged, reused, saw, raced, disk, service>>
<1>1. UNCHANGED <<host, kind, mem, started, aged, reused, saw, raced, disk, service, faults>>
  BY DEF WriteOwner
<1>2. ops + 1 \in Ids /\ ops + 1 \in Some BY OpsAssumption DEF WriteOwner, FrontOK, Some, Ids
<1>3. /\ pc' \in [Procs -> Places] /\ pc[p] = "own" /\ pc'[p] = "recover"
      /\ \A q \in Procs \ {p} : pc'[q] = pc[q]
  BY GoesKeeps DEF WriteOwner, Places, Working, Steady
<1>4. op' \in [Procs -> Some] /\ op'[p] = ops + 1 /\ \A q \in Procs \ {p} : op'[q] = op[q]
  BY <1>2 DEF WriteOwner, FrontOK
<1>5. ops' = ops + 1 /\ lock' = ops + 1 /\ dir' = TRUE BY DEF WriteOwner
<1>6. FrontOK' /\ LockOK' BY <1>1, <1>2, <1>3, <1>4, <1>5 DEF FrontOK, LockOK
<1>7. Data' BY <1>1 DEF Data, MemOK, JournalOK, StoreOK, ServiceOK, FaultsOK, disk, service
<1>8. QED BY <1>1, <1>2, <1>3, <1>4, <1>5, <1>6, <1>7

LEMMA WipingTypes ==
    ASSUME FrontOK, Data, LockOK, NEW p \in Procs, Wiping(p)
    PROVE  /\ FrontOK' /\ Data' /\ LockOK'
           /\ \/ pc[p] = "wipe" /\ pc'[p] = "wiping"
              \/ pc[p] = "wiping" /\ pc'[p] \in {"reload", "unlock"}
           /\ \A q \in Procs \ {p} : pc'[q] = pc[q]
           /\ UNCHANGED <<dir, lock, aged, reused>> \/ LockGoes
           /\ UNCHANGED <<host, kind, op, mem, started, ops, saw, raced, launcher, running>>
<1>1. UNCHANGED <<host, kind, op, mem, started, ops, saw, raced, stable, old, launcher, running, busy,
                  draining>>
  BY DEF Wiping, WipeSome, WipeRest, WipeFails, locking, disk, service
<1>2. PICK from \in {"wipe", "wiping"}, to \in {"wiping", "reload", "unlock"} :
        Goes(p, from, to) /\ (from = "wipe" <=> to = "wiping")
  BY DEF Wiping, WipeSome, WipeRest, WipeFails
<1>3. to \in Places BY DEF Places, After, Working
<1>4. /\ pc' \in [Procs -> Places] /\ pc[p] = from /\ pc'[p] = to
      /\ \A q \in Procs \ {p} : pc'[q] = pc[q]
  BY <1>2, <1>3, GoesKeeps
<1>5. FrontOK' BY <1>1, <1>4 DEF FrontOK
<1>6. UNCHANGED <<dir, lock, aged, reused>> \/ LockGoes
  BY DEF Wiping, WipeSome, WipeRest, WipeFails, locking
<1>7. LockOK' BY <1>1, <1>6, Numbers DEF LockGoes, LockOK
<1>8. StoreOK'
  <2>1. ASSUME NEW gone PROVE Wiped(gone) \in [Ids -> Stores]
    BY DEF Wiped, Data, StoreOK, Stores
  <2>2. store' \in [Ids -> Stores]
    BY <2>1 DEF Wiping, WipeSome, WipeRest, WipeFails, disk, Data, StoreOK
  <2>3. QED BY <1>1, <2>2 DEF Data, StoreOK
<1>9. JournalOK'
  BY BlankOK DEF Wiping, WipeSome, WipeRest, WipeFails, disk, Data, JournalOK
<1>10. ServiceOK'
  BY <1>1, Numbers DEF Wiping, WipeSome, WipeRest, WipeFails, service, Data, ServiceOK
<1>11. MemOK' BY <1>1 DEF Data, MemOK
<1>12. FaultsOK' BY FaultOrNot DEF Data, Wiping, WipeSome, WipeRest, WipeFails
<1>13. QED BY <1>1, <1>2, <1>4, <1>5, <1>6, <1>7, <1>8, <1>9, <1>10, <1>11, <1>12 DEF Data

Every(p) ==
    Recovering(p) \/ Beginnings(p) \/ Making(p) \/ Starting(p) \/ Ending(p) \/ Removing(p)

LEMMA EveryWorks == ASSUME FrontOK, NEW p \in Procs, Every(p) PROVE Works(p)
BY RecoveringWorks, BeginningsWorks, MakingWorks, StartingWorks, EndingWorks, RemovingWorks DEF Every

LEMMA EveryTypes == ASSUME FrontOK, Data, NEW p \in Procs, Every(p) PROVE Data'
BY RecoveringTypes, BeginningsTypes, MakingTypes, StartingTypes, EndingTypes, RemovingTypes DEF Every

\* The actions, grouped as the lemmas are.
LEMMA NextIs ==
    [Next]_vars =>
        \/ ~raced /\ \E p \in Procs : Waiting(p) \/ Leaving(p) \/ WriteOwner(p) \/ Wiping(p) \/ Every(p)
        \/ ~raced /\ (Manager \/ DaysPass)
        \/ UNCHANGED vars
BY DEF Next, Step, Fails, Acquires, Recovers, Installs, Uninstalls, Trying, Waiting, Leaving, Wiping,
       Every, Recovering, Beginnings, Making, Starting, Ending, Removing, Kinds

LEMMA SameTypes == ASSUME FrontOK, Data, LockOK, UNCHANGED vars PROVE FrontOK' /\ Data' /\ LockOK'
BY DEF FrontOK, Data, MemOK, LockOK, JournalOK, StoreOK, ServiceOK, FaultsOK,
       vars, process, locking, disk, service

LEMMA TypeStep ==
    ASSUME FrontOK, Data, LockOK, [Next]_vars PROVE FrontOK' /\ Data' /\ LockOK'
<1>1. ASSUME NEW p \in Procs, Every(p) PROVE FrontOK' /\ Data' /\ LockOK'
  BY <1>1, EveryWorks, EveryTypes, WorksFront
<1>2. QED
  BY <1>1, NextIs, WaitingTypes, LeavingTypes, WriteOwnerTypes, WipingTypes, ManagerTypes, SameTypes

-----------------------------------------------------------------------------
(***************************************************************************)
(* The lock                                                                *)
(***************************************************************************)
\* Only the holder of the lock works, and its id is in it.
LEMMA HoldsIs ==
    ASSUME FrontOK, LockInv, NEW p \in Procs
    PROVE  (Holds(p) <=> pc[p] \in Working) /\ (pc[p] \in Working \union After <=> op[p] # 0)
BY DEF FrontOK, LockInv, Holds, Places, Before, Working, Steady, After

LEMMA OnlyHolder ==
    ASSUME FrontOK, LockInv, ~SlowHolders, ~raced, NEW p \in Procs, NEW q \in Procs, Holds(p), Holds(q)
    PROVE  p = q
BY DEF LockInv, Sole

\* The parts of LockInv: of the ids, of the lock, and of who has it.
IdsInv ==
    /\ lock <= ops /\ \A p \in Procs : op[p] <= ops /\ saw[p] <= ops
    /\ \A p \in Procs : op[p] = 0 <=> pc[p] \in Before
    /\ \A p, q \in Procs : op[p] # 0 /\ op[p] = op[q] => p = q
    /\ lock # 0 => dir
Removals ==
    /\ aged \/ reused => lock # 0 /\ Dead(lock)
    /\ \A p \in Procs : pc[p] = "remove" /\ saw[p] # 0 => Dead(saw[p])
Owns(p) ==
    /\ Holds(p) /\ pc[p] # "wiping" => dir /\ lock = op[p]
    /\ pc[p] = "own" => dir /\ lock = 0
    /\ Holds(p) \/ pc[p] = "own" => Sole(p)

LEMMA LockParts ==
    LockInv <=> /\ IdsInv /\ (~SlowHolders => Removals)
                /\ ~SlowHolders /\ ~raced => \A p \in Procs : Owns(p)
BY DEF LockInv, IdsInv, Removals, Owns, Before

LEMMA LockPartsPrimed ==
    IdsInv' /\ (~SlowHolders => Removals') /\ (~SlowHolders /\ ~raced' => \A p \in Procs : Owns(p)')
        => LockInv'
BY DEF LockInv, IdsInv, Removals, Owns, Before

\* Who does not come to have the lock disturbs nobody who has it.
LEMMA SoleKept ==
    ASSUME \A q \in Procs : Holds(q)' => Holds(q), \A q \in Procs : pc'[q] = "own" => pc[q] = "own",
           NEW q \in Procs, Sole(q)
    PROVE  Sole(q)'
BY DEF Sole

LEMMA OwnsKept ==
    ASSUME \A q \in Procs : Owns(q), \A q \in Procs : Holds(q)' => Holds(q) /\ op'[q] = op[q],
           \A q \in Procs : Holds(q)' /\ pc'[q] # "wiping" => pc[q] # "wiping",
           \A q \in Procs : pc'[q] = "own" => pc[q] = "own", UNCHANGED <<dir, lock>>
    PROVE  \A q \in Procs : Owns(q)'
BY SoleKept DEF Owns

\* Nobody who has the lock is left, or only who has given it up.
LEMMA OwnsNone ==
    ASSUME \A q \in Procs : Holds(q)' => pc'[q] = "wiping" /\ Sole(q)',
           \A q \in Procs : pc'[q] # "own"
    PROVE  \A q \in Procs : Owns(q)'
BY DEF Owns

LEMMA WorksLock == ASSUME FrontOK, LockInv, NEW p \in Procs, Works(p) PROVE LockInv'
<1>1. \A q \in Procs : op'[q] = op[q] BY DEF Works
<1>2. pc[p] \in Steady /\ pc'[p] \in Steady \union {"unlock"} BY DEF Works
<1>3. \A q \in Procs \ {p} : pc'[q] = pc[q] BY DEF Works
<1>4. UNCHANGED <<ops, dir, lock, aged, reused, saw, raced>> BY DEF Works
<1>5. \A q \in Procs : op'[q] = 0 <=> pc'[q] \in Before
  BY <1>1, <1>2, <1>3, LockParts DEF IdsInv, Before, Steady
<1>6. IdsInv' BY <1>1, <1>4, <1>5, LockParts DEF IdsInv
<1>7. \A q \in Procs : pc'[q] = "remove" => pc[q] = "remove" BY <1>2, <1>3 DEF Steady
<1>8. ~SlowHolders => Removals' BY <1>1, <1>4, <1>7, LockParts DEF Removals, Dead
<1>9. \A q \in Procs : Holds(q)' => Holds(q) /\ (pc'[q] # "wiping" => pc[q] # "wiping")
  BY <1>1, <1>2, <1>3 DEF Holds, Steady
<1>10. \A q \in Procs : pc'[q] = "own" => pc[q] = "own" BY <1>2, <1>3 DEF Steady
<1>11. ~SlowHolders /\ ~raced' => \A q \in Procs : Owns(q)'
  BY <1>1, <1>4, <1>9, <1>10, LockParts, OwnsKept
<1>12. QED BY <1>6, <1>8, <1>11, LockPartsPrimed

\* A removal that removes what its process had read hits nobody who has the
\* lock, and a directory is made only where there is none.
LEMMA TryingLock ==
    ASSUME FrontOK, LockOK, LockInv, ~raced, NEW p \in Procs, Trying(p) PROVE LockInv'
<1>1. /\ pc[p] \in Before /\ pc'[p] \in Before
      /\ \A q \in Procs \ {p} : pc'[q] = pc[q]
      /\ op' = op /\ ops' = ops
  BY TryingTypes
<1>2. ops \in Nat /\ 0 <= ops BY OpsAssumption DEF FrontOK, Some
<1>3. \A q \in Procs : saw'[q] \in {saw[q], lock, 0}
  BY DEF Trying, MakeDir, Busy, LookStale, Remove, LockOK, locking
<1>4. lock' \in {lock, 0} /\ (lock' # 0 => (dir => dir'))
  BY DEF Trying, MakeDir, Busy, LookStale, Remove, LockGoes, LockOK, locking
<1>5. IdsInv' BY <1>1, <1>2, <1>3, <1>4, LockParts DEF IdsInv
<1>6. \A q \in Procs : Holds(q)' => Holds(q) /\ q # p /\ op'[q] = op[q] /\ pc'[q] = pc[q]
  BY <1>1, LockParts DEF Holds, IdsInv
<1>7. CASE MakeDir(p)
  <2>1. ~dir /\ dir' /\ pc'[p] = "own" /\ UNCHANGED <<lock, aged, reused, saw>>
        /\ (~raced' => \A q \in Procs : pc[q] # "wiping")
    BY <1>7 DEF MakeDir, FrontOK
  <2>2. ~SlowHolders => Removals' BY <1>1, <2>1, LockParts DEF Removals, Dead
  <2>3. lock = 0 BY <2>1, LockParts DEF IdsInv
  <2>4. ~SlowHolders /\ ~raced' => \A q \in Procs : ~Holds(q) /\ pc[q] # "own"
    BY <2>1, LockParts DEF Owns
  <2>5. ~SlowHolders /\ ~raced' => \A q \in Procs : Owns(q)'
    BY <1>1, <1>6, <2>1, <2>3, <2>4 DEF Owns, Sole
  <2>6. QED BY <1>5, <2>2, <2>5, LockPartsPrimed
<1>8. CASE Busy(p) \/ LookStale(p)
  <2>1. UNCHANGED <<dir, lock, aged, reused, raced>> /\ pc'[p] # "own"
    BY <1>8 DEF Busy, LookStale, Goes, FrontOK, locking
  <2>2. ~SlowHolders /\ pc'[p] = "remove" /\ saw'[p] # 0 => Dead(saw'[p])
    <3>1. CASE Busy(p) BY <3>1 DEF Busy, Goes, FrontOK
    <3>2. CASE LookStale(p)
      <4>1. saw'[p] = lock /\ Stale BY <3>2 DEF LookStale, LockOK
      <4>2. QED BY <4>1, LockParts DEF Stale, Removals
    <3>3. QED BY <1>8, <3>1, <3>2
  <2>3. \A q \in Procs \ {p} : saw'[q] = saw[q] BY <1>8 DEF Busy, LookStale, LockOK, locking
  <2>4. ~SlowHolders => Removals' BY <1>1, <2>1, <2>2, <2>3, LockParts DEF Removals, Dead
  <2>5. \A q \in Procs : pc'[q] = "own" => pc[q] = "own" BY <1>1, <2>1
  <2>6. ~SlowHolders /\ ~raced' => \A q \in Procs : Owns(q)'
    BY <1>6, <2>1, <2>5, LockParts, OwnsKept
  <2>7. QED BY <1>5, <2>4, <2>6, LockPartsPrimed
<1>9. CASE Remove(p)
  <2>1. /\ pc[p] = "remove" /\ pc'[p] = "lock" /\ lock' = 0 /\ ~aged' /\ ~reused'
        /\ (~raced' => lock = saw[p] /\ \A q \in Procs : pc[q] # "own")
    BY <1>9 DEF Remove, Goes, FrontOK, LockGoes, BeingMade
  <2>2. \A q \in Procs \ {p} : saw'[q] = saw[q] BY <1>9 DEF Remove, LockOK
  <2>3. ~SlowHolders => Removals' BY <1>1, <2>1, <2>2, LockParts DEF Removals, Dead
  <2>4. ASSUME ~SlowHolders, ~raced', NEW q \in Procs, Holds(q) PROVE pc[q] = "wiping"
    <3>1. lock # 0 => Dead(lock) BY <2>1, <2>4, LockParts DEF Removals
    <3>2. op[q] # 0 BY <2>4 DEF Holds
    <3>3. QED BY <2>4, <3>1, <3>2, LockParts DEF Owns, Dead
  <2>5. \A q \in Procs : pc'[q] = "own" => pc[q] = "own" BY <1>1, <2>1
  <2>6. ~SlowHolders /\ ~raced' => \A q \in Procs : Owns(q)'
    <3>1. SUFFICES ASSUME ~SlowHolders, ~raced' PROVE \A q \in Procs : Owns(q)' OBVIOUS
    <3>2. \A q \in Procs : pc'[q] # "own" BY <2>1, <2>5, <3>1
    <3>3. \A q \in Procs : Holds(q)' => pc'[q] = "wiping" BY <1>6, <2>4, <3>1
    <3>4. \A q \in Procs : Holds(q)' => Sole(q)'
      BY <1>6, <2>5, <3>1, LockParts, SoleKept DEF Owns
    <3>5. QED BY <3>2, <3>3, <3>4, OwnsNone
  <2>7. QED BY <1>5, <2>3, <2>6, LockPartsPrimed
<1>10. QED BY <1>7, <1>8, <1>9 DEF Trying

LEMMA WaitingLock ==
    ASSUME FrontOK, Data, LockOK, LockInv, ~raced, NEW p \in Procs, Waiting(p) PROVE LockInv'
<1>1. CASE Trying(p) BY <1>1, TryingLock
<1>2. CASE ~Trying(p)
  <2>1. /\ \/ pc[p] \in {"idle", "check"} /\ pc'[p] \in {"check", "lock"}
           \/ pc[p] = "reload" /\ pc'[p] = "unlock"
        /\ \A q \in Procs \ {p} : pc'[q] = pc[q]
        /\ UNCHANGED <<op, ops, dir, lock, aged, reused, saw, raced>>
    BY <1>2, WaitingTypes DEF locking
  <2>2. IdsInv' BY <2>1, LockParts DEF IdsInv, Before
  <2>3. ~SlowHolders => Removals' BY <2>1, LockParts DEF Removals, Dead
  <2>4. \A q \in Procs : Holds(q)' => Holds(q) /\ op'[q] = op[q] /\ pc'[q] = pc[q]
    BY <2>1, LockParts DEF Holds, IdsInv, Before
  <2>5. \A q \in Procs : pc'[q] = "own" => pc[q] = "own" BY <2>1
  <2>6. ~SlowHolders /\ ~raced' => \A q \in Procs : Owns(q)'
    BY <2>1, <2>4, <2>5, LockParts, OwnsKept
  <2>7. QED BY <2>2, <2>3, <2>6, LockPartsPrimed
<1>3. QED BY <1>1, <1>2

LEMMA LeavingLock ==
    ASSUME FrontOK, Data, LockOK, LockInv, ~raced, NEW p \in Procs, Leaving(p) PROVE LockInv'
<1>1. /\ pc'[p] = "idle" /\ op'[p] = 0
      /\ \A q \in Procs \ {p} : pc'[q] = pc[q] /\ op'[q] = op[q]
      /\ ops' = ops /\ raced' = raced
  BY LeavingTypes
<1>2. \A q \in Procs : saw'[q] = saw[q] \/ (q = p /\ saw'[q] = 0) BY LeavingTypes DEF LockOK
<1>3. ops \in Nat /\ 0 <= ops BY OpsAssumption DEF FrontOK, Some
<1>4. \A q \in Procs : op'[q] = 0 <=> pc'[q] \in Before BY <1>1, LockParts DEF IdsInv, Before
<1>5. \A q, r \in Procs : op'[q] # 0 /\ op'[q] = op'[r] => q = r BY <1>1, LockParts DEF IdsInv
<1>6. \A q \in Procs : Holds(q)' => Holds(q) /\ q # p /\ op'[q] = op[q] /\ pc'[q] = pc[q]
  BY <1>1 DEF Holds
<1>7. \A q \in Procs : pc'[q] = "own" => pc[q] = "own" BY <1>1
<1>8. \A id \in Some \ {0} : Dead(id) => Dead(id)' BY <1>1 DEF Dead
<1>9. \A q \in Procs : pc'[q] = "remove" /\ saw'[q] # 0 => pc[q] = "remove" /\ saw'[q] = saw[q]
  BY <1>1, <1>2
<1>10. CASE UNCHANGED <<dir, lock, aged, reused>>
  <2>1. IdsInv' BY <1>1, <1>2, <1>3, <1>4, <1>5, <1>10, LockParts DEF IdsInv
  <2>2. ~SlowHolders => Removals' BY <1>8, <1>9, <1>10, LockParts DEF Removals, LockOK
  <2>3. ~SlowHolders /\ ~raced' => \A q \in Procs : Owns(q)'
    BY <1>6, <1>7, <1>10, LockParts, OwnsKept
  <2>4. QED BY <2>1, <2>2, <2>3, LockPartsPrimed
<1>11. CASE pc[p] = "unlock" /\ lock = op[p] /\ LockGoes /\ saw' = saw
  <2>1. lock' = 0 /\ ~aged' /\ ~reused' BY <1>11 DEF LockGoes
  <2>2. IdsInv' BY <1>1, <1>2, <1>3, <1>4, <1>5, <2>1, LockParts DEF IdsInv
  <2>3. ~SlowHolders => Removals' BY <1>8, <1>9, <2>1, LockParts DEF Removals, LockOK
  <2>4. lock # 0 BY <1>11, LockParts DEF IdsInv, Before
  <2>5. ~SlowHolders => \A q \in Procs : pc[q] # "own" BY <2>4, LockParts DEF Owns
  <2>6. ~SlowHolders => \A q \in Procs \ {p} : Holds(q) => pc[q] = "wiping"
    BY <1>11, <2>4, LockParts DEF Owns, IdsInv
  <2>7. ~SlowHolders => \A q \in Procs : Holds(q)' => Sole(q)'
    BY <1>6, <1>7, LockParts, SoleKept DEF Owns
  <2>8. ~SlowHolders /\ ~raced' => \A q \in Procs : Owns(q)'
    BY <1>6, <1>7, <2>5, <2>6, <2>7, OwnsNone
  <2>9. QED BY <2>2, <2>3, <2>8, LockPartsPrimed
<1>12. QED BY <1>10, <1>11, LeavingTypes

LEMMA WriteOwnerLock ==
    ASSUME FrontOK, Data, LockOK, LockInv, ~raced, NEW p \in Procs, WriteOwner(p) PROVE LockInv'
<1>1. /\ pc[p] = "own" /\ pc'[p] = "recover"
      /\ ops + 1 \in Ids /\ ops' = ops + 1 /\ op'[p] = ops + 1 /\ lock' = ops + 1 /\ dir'
      /\ \A q \in Procs \ {p} : pc'[q] = pc[q] /\ op'[q] = op[q]
      /\ UNCHANGED <<aged, reused, saw, raced>>
  BY WriteOwnerTypes
<1>2. /\ ops \in Nat /\ \A q \in Procs : op[q] \in Nat /\ saw[q] \in Nat
  BY OpsAssumption DEF FrontOK, LockOK, Some
<1>3. \A q \in Procs : op[q] <= ops /\ saw[q] <= ops BY LockParts DEF IdsInv
<1>4. ops + 1 # 0 /\ \A q \in Procs : op[q] # ops + 1 /\ saw[q] # ops + 1 BY <1>2, <1>3
<1>5. lock' <= ops' /\ \A q \in Procs : op'[q] <= ops' /\ saw'[q] <= ops' BY <1>1, <1>2, <1>3
<1>6. \A q \in Procs : op'[q] = 0 <=> pc'[q] \in Before BY <1>1, <1>4, LockParts DEF IdsInv, Before
<1>7. \A q, r \in Procs : op'[q] # 0 /\ op'[q] = op'[r] => q = r BY <1>1, <1>4, LockParts DEF IdsInv
<1>8. IdsInv' BY <1>1, <1>5, <1>6, <1>7 DEF IdsInv
<1>9. ~SlowHolders => ~aged /\ ~reused BY <1>1, LockParts DEF Owns, Removals
<1>10. ~SlowHolders => Removals' BY <1>1, <1>4, <1>9, LockParts DEF Removals, Dead
<1>11. ~SlowHolders => \A q \in Procs \ {p} : ~Holds(q) /\ pc[q] # "own"
  BY <1>1, LockParts DEF Owns, Sole
<1>12. ~SlowHolders => \A q \in Procs : Owns(q)'
  BY <1>1, <1>11 DEF Owns, Sole, Holds
<1>13. QED BY <1>8, <1>10, <1>12, LockPartsPrimed

LEMMA WipingLock ==
    ASSUME FrontOK, Data, LockOK, LockInv, ~raced, NEW p \in Procs, Wiping(p) PROVE LockInv'
<1>1. /\ \/ pc[p] = "wipe" /\ pc'[p] = "wiping"
         \/ pc[p] = "wiping" /\ pc'[p] \in {"reload", "unlock"}
      /\ \A q \in Procs \ {p} : pc'[q] = pc[q]
      /\ UNCHANGED <<op, ops, saw, raced>>
      /\ UNCHANGED <<dir, lock, aged, reused>> \/ (lock' = 0 /\ ~aged' /\ ~reused')
  BY WipingTypes DEF LockGoes
<1>2. ops \in Nat /\ 0 <= ops BY OpsAssumption DEF FrontOK, Some
<1>3. IdsInv' BY <1>1, <1>2, LockParts DEF IdsInv, Before
<1>4. ~SlowHolders => Removals' BY <1>1, LockParts DEF Removals, Dead
<1>5. Holds(p) BY <1>1, LockParts DEF Holds, IdsInv, Before
<1>6. ~SlowHolders => \A q \in Procs \ {p} : ~Holds(q) /\ pc[q] # "own"
  BY <1>5, LockParts DEF Owns, Sole
<1>7. ~SlowHolders => \A q \in Procs : pc'[q] # "own" /\ (Holds(q)' => q = p /\ pc'[q] = "wiping")
  BY <1>1, <1>6 DEF Holds
<1>8. ~SlowHolders => \A q \in Procs : Holds(q)' => Sole(q)' BY <1>7 DEF Sole
<1>9. ~SlowHolders => \A q \in Procs : Owns(q)' BY <1>7, <1>8, OwnsNone
<1>10. QED BY <1>3, <1>4, <1>9, LockPartsPrimed

LEMMA ManagerLock ==
    ASSUME LockInv, Manager \/ DaysPass \/ UNCHANGED vars PROVE LockInv'
<1>1. /\ UNCHANGED <<pc, op, ops, dir, lock, saw, raced>>
      /\ \/ ~SlowHolders => UNCHANGED <<aged, reused>>
         \/ PidReused
         \/ HourPasses
  BY DEF Manager, RestartEnds, DispatcherRestarts, DispatcherStops, JobStarts, JobEnds, DaysPass,
         PidReused, HourPasses, vars, process, locking
<1>2. IdsInv' BY <1>1, LockParts DEF IdsInv
<1>3. ~SlowHolders /\ (aged' \/ reused') => lock # 0 /\ Dead(lock)
  BY <1>1, LockParts DEF Removals, PidReused, HourPasses
<1>4. ~SlowHolders => Removals' BY <1>1, <1>3, LockParts DEF Removals, Dead
<1>5. ~SlowHolders /\ ~raced' => \A q \in Procs : Owns(q)'
  BY <1>1, LockParts DEF Owns, Sole, Holds
<1>6. QED BY <1>2, <1>4, <1>5, LockPartsPrimed

LEMMA LockStep ==
    ASSUME FrontOK, Data, LockOK, LockInv, [Next]_vars PROVE LockInv'
<1>1. ASSUME NEW p \in Procs, Every(p) PROVE LockInv' BY <1>1, EveryWorks, WorksLock
<1>2. QED BY <1>1, NextIs, WaitingLock, LeavingLock, WriteOwnerLock, WipingLock, ManagerLock

-----------------------------------------------------------------------------
(***************************************************************************)
(* What is on disk, while no operation holds the lock for an hour          *)
(***************************************************************************)
Survives == Back(journal.good) /\ (Pending => Back(journal.previous))
Beyond == \A r \in Ids : r > ops => store[r] = "absent"
Rest == LauncherWorks /\ Survives /\ CommittedIsLaunched /\ Beyond

LEMMA DiskParts == DiskInv <=> Rest /\ \A p \in Procs : HolderGood(p)
<1>1. TargetSurvives <=> Survives BY DEF TargetSurvives, Survives, Back
<1>2. QED BY <1>1 DEF DiskInv, Rest, Beyond

LEMMA DiskPartsPrimed == Rest' /\ (\A p \in Procs : HolderGood(p)') => DiskInv'
<1>1. Survives' => TargetSurvives' BY DEF TargetSurvives, Survives, Back
<1>2. QED BY <1>1 DEF DiskInv, Rest, Beyond

\* Somebody who does not work is relied on for nothing.
LEMMA Resting == \A p \in Procs : pc[p] \notin Working => HolderGood(p)
BY DEF HolderGood, Working, Steady

LEMMA RestingPrimed == \A p \in Procs : pc'[p] \notin Working => HolderGood(p)'
BY DEF HolderGood, Working, Steady

\* While p works, nobody else does.
LEMMA Alone ==
    ASSUME FrontOK, LockInv, ~SlowHolders, ~raced, NEW p \in Procs, pc[p] \in Working
    PROVE  op[p] \in Ids /\ op[p] <= ops /\ \A q \in Procs \ {p} : pc[q] \notin Working
<1>1. Holds(p) /\ op[p] # 0 BY HoldsIs
<1>2. op[p] \in Ids BY <1>1, Numbers DEF FrontOK
<1>3. \A q \in Procs \ {p} : pc[q] \notin Working BY <1>1, HoldsIs, OnlyHolder
<1>4. QED BY <1>2, <1>3 DEF LockInv

LEMMA AloneStep ==
    ASSUME FrontOK, LockInv, ~SlowHolders, ~raced, NEW p \in Procs, pc[p] \in Working,
           \A q \in Procs \ {p} : pc'[q] = pc[q], Rest', HolderGood(p)'
    PROVE  DiskInv'
<1>1. \A q \in Procs \ {p} : HolderGood(q)' BY Alone, RestingPrimed
<1>2. QED BY <1>1, DiskPartsPrimed

\* Nothing that Rest speaks of changes.
LEMMA RestKept ==
    ASSUME Rest, UNCHANGED <<host, ops, journal, store, launcher>> PROVE Rest'
BY DEF Rest, LauncherWorks, Survives, CommittedIsLaunched, Orphaned, Beyond, Whole, Back, Pending

LEMMA HolderKept ==
    ASSUME NEW p \in Procs, HolderGood(p), pc'[p] = pc[p], op'[p] = op[p], mem'[p] = mem[p],
           UNCHANGED <<host, journal, store, launcher, current>>
    PROVE  HolderGood(p)'
BY DEF HolderGood, Back

LEMMA WaitingDisk ==
    ASSUME FrontOK, Data, LockOK, DiskInv, NEW p \in Procs, Waiting(p) PROVE DiskInv'
<1>1. /\ pc'[p] \notin Working
      /\ \A q \in Procs \ {p} : pc'[q] = pc[q]
      /\ UNCHANGED <<host, op, mem, ops, journal, store, launcher, current>>
  BY WaitingTypes DEF disk, service
<1>2. \A q \in Procs : HolderGood(q)' BY <1>1, DiskParts, HolderKept, RestingPrimed
<1>3. QED BY <1>1, <1>2, DiskParts, DiskPartsPrimed, RestKept

\* A process that dies may leave a unit or launcher cut off, and then the
\* journal is pending.
LEMMA LeavingDisk ==
    ASSUME FrontOK, Data, LockOK, LockInv, DiskInv, ~SlowHolders, ~raced, NEW p \in Procs, Leaving(p)
    PROVE  DiskInv'
<1>1. /\ pc'[p] \notin Working
      /\ \A q \in Procs \ {p} : pc'[q] = pc[q] /\ op'[q] = op[q] /\ mem'[q] = mem[q]
      /\ UNCHANGED <<host, ops, journal, store, current>>
      /\ launcher' = launcher \/ (Writing(p) /\ launcher' = Torn)
  BY LeavingTypes DEF Working, Steady, disk
<1>2. Rest /\ HolderGood(p) BY DiskParts
<1>3. CASE launcher' = launcher
  <2>1. \A q \in Procs : HolderGood(q)' BY <1>1, <1>3, DiskParts, HolderKept, RestingPrimed
  <2>2. QED BY <1>1, <1>2, <1>3, <2>1, DiskPartsPrimed, RestKept
<1>4. CASE Writing(p) /\ launcher' = Torn
  <2>1. pc[p] \in Working BY <1>4 DEF Writing, Working, Steady
  <2>2. \A q \in Procs \ {p} : pc'[q] \notin Working BY <1>1, <2>1, Alone
  <2>3. \A q \in Procs : HolderGood(q)' BY <1>1, <2>2, RestingPrimed
  <2>4. journal.phase = "pending"
    BY <1>2, <1>4 DEF Writing, Restores, Pending, HolderGood
  <2>5. LauncherWorks' BY <1>4 DEF LauncherWorks, Orphaned
  <2>6. CommittedIsLaunched' BY <1>1, <2>4 DEF CommittedIsLaunched, Orphaned
  <2>7. Survives' /\ Beyond' BY <1>1, <1>2 DEF Rest, Survives, Beyond, Back, Pending
  <2>8. QED BY <2>3, <2>5, <2>6, <2>7, DiskPartsPrimed DEF Rest
<1>5. QED BY <1>1, <1>3, <1>4

LEMMA WriteOwnerDisk ==
    ASSUME FrontOK, Data, LockOK, DiskInv, NEW p \in Procs, WriteOwner(p) PROVE DiskInv'
<1>1. /\ pc'[p] = "recover" /\ ops + 1 \in Ids /\ ops' = ops + 1 /\ op'[p] = ops + 1
      /\ \A q \in Procs \ {p} : pc'[q] = pc[q] /\ op'[q] = op[q]
      /\ UNCHANGED <<host, mem, journal, store, launcher, current>>
  BY WriteOwnerTypes DEF disk, service
<1>2. ops \in Nat /\ \A r \in Ids : r \in Nat BY OpsAssumption DEF FrontOK, Some, Ids
<1>3. store[ops + 1] = "absent" BY <1>1, <1>2, DiskParts DEF Rest, Beyond
<1>4. HolderGood(p)' BY <1>1, <1>3 DEF HolderGood
<1>5. \A q \in Procs : HolderGood(q)' BY <1>1, <1>4, DiskParts, HolderKept
<1>6. Beyond' BY <1>1, <1>2, DiskParts DEF Rest, Beyond
<1>7. LauncherWorks' /\ Survives' /\ CommittedIsLaunched'
  BY <1>1, DiskParts
     DEF Rest, LauncherWorks, Survives, CommittedIsLaunched, Orphaned, Whole, Back, Pending
<1>8. QED BY <1>5, <1>6, <1>7, DiskPartsPrimed DEF Rest

LEMMA ManagerDisk ==
    ASSUME DiskInv, Manager \/ DaysPass \/ UNCHANGED vars PROVE DiskInv'
<1>1. UNCHANGED <<host, pc, op, mem, ops, journal, store, launcher, current>>
  BY DEF Manager, RestartEnds, DispatcherRestarts, DispatcherStops, JobStarts, JobEnds,
         PidReused, HourPasses, DaysPass, vars, process, locking, disk, service
<1>2. \A q \in Procs : HolderGood(q)' BY <1>1, DiskParts, HolderKept
<1>3. QED BY <1>1, <1>2, DiskParts, DiskPartsPrimed, RestKept

LEMMA RecoveringDisk ==
    ASSUME FrontOK, Data, LockInv, DiskInv, ~SlowHolders, ~raced, NEW p \in Procs, Recovering(p)
    PROVE  Rest' /\ HolderGood(p)'
<1>1. Rest /\ HolderGood(p) BY DiskParts
<1>2. pc'[p] \in {"mark", "preflight", "stop", "unlock"} /\ pc[p] \in {"recover", "mark"}
  BY DEF Recovering, NothingPending, Restore, RestoreFails, MarkFailed, Recovered, Goes, FrontOK
<1>3. UNCHANGED <<host, op, mem, ops, store>>
  BY DEF Recovering, NothingPending, Restore, RestoreFails, MarkFailed, locking, disk
<1>4. HolderGood(p)' BY <1>1, <1>2, <1>3 DEF HolderGood
<1>5. Beyond' BY <1>1, <1>3 DEF Rest, Beyond
<1>6. CASE Restore(p) \/ RestoreFails(p)
  <2>1. Pending /\ journal' = journal BY <1>6 DEF Restore, RestoreFails, Restores, disk
  <2>2. launcher' \in {launcher, Torn} \/ (launcher' = Target /\ Whole(Target))
    BY <1>6 DEF Restore, RestoreFails, Restored
  <2>3. LauncherWorks' BY <1>1, <1>3, <2>2 DEF Rest, LauncherWorks, Orphaned, Whole
  <2>4. Survives' /\ CommittedIsLaunched'
    BY <1>1, <1>3, <2>1 DEF Rest, Survives, CommittedIsLaunched, Orphaned, Back, Pending
  <2>5. QED BY <1>4, <1>5, <2>3, <2>4 DEF Rest
<1>7. CASE MarkFailed(p)
  <2>1. launcher' = launcher BY <1>7 DEF MarkFailed, service
  <2>2. journal \in Journals BY DEF Data, JournalOK
  <2>3. journal'.phase = "failed" /\ journal'.good = journal.good
    BY <1>7, <2>2 DEF MarkFailed, Journals
  <2>4. LauncherWorks' BY <1>1, <1>3, <2>1 DEF Rest, LauncherWorks, Orphaned, Whole
  <2>5. Survives' /\ CommittedIsLaunched'
    BY <1>1, <1>3, <2>3 DEF Rest, Survives, CommittedIsLaunched, Orphaned, Back, Pending
  <2>6. QED BY <1>4, <1>5, <2>4, <2>5 DEF Rest
<1>8. CASE NothingPending(p)
  BY <1>1, <1>4, <1>8, RestKept DEF NothingPending, disk, service, locking
<1>9. QED BY <1>6, <1>7, <1>8 DEF Recovering

LEMMA InstalledBack == ASSUME FrontOK, LauncherWorks PROVE Back(Installed)
BY HostsAssumption DEF FrontOK, LauncherWorks, Orphaned, Installed, Back, Whole

LEMMA BeginningsDisk ==
    ASSUME FrontOK, Data, LockInv, DiskInv, ~SlowHolders, ~raced, NEW p \in Procs, Beginnings(p)
    PROVE  Rest' /\ HolderGood(p)'
<1>1. Rest /\ HolderGood(p) BY DiskParts
<1>2. UNCHANGED <<host, op, ops, store, launcher, current>>
  BY DEF Beginnings, Preflight, PreflightFails, Begin, Nested, StopOld, StopOldFails,
         locking, disk, service
<1>3. mem[p] \in Mems BY DEF Data, MemOK
<1>4. CASE Begin(p)
  <2>1. pc[p] = "begin" /\ pc'[p] \in {"nested", "make"} BY <1>4 DEF Begin, Goes, FrontOK
  <2>2. mem'[p].journal = Beginning /\ journal' = Beginning
    BY <1>3, <1>4 DEF Begin, Data, MemOK, Mems
  <2>3. Back(journal.good) /\ Back(Installed) BY <1>1, InstalledBack DEF Rest, Survives
  <2>4. Beginning.phase = "pending" /\ Back(Beginning.good) /\ Back(Beginning.previous)
    BY <2>3 DEF Beginning
  <2>5. store[op[p]] = "absent" BY <1>1, <2>1 DEF HolderGood
  <2>6. HolderGood(p)' BY <1>2, <2>1, <2>2, <2>4, <2>5 DEF HolderGood, Back
  <2>7. Survives' BY <1>2, <2>2, <2>4 DEF Survives, Back, Pending
  <2>8. CommittedIsLaunched' BY <2>2, <2>4 DEF CommittedIsLaunched, Orphaned
  <2>9. LauncherWorks' /\ Beyond' BY <1>1, <1>2 DEF Rest, LauncherWorks, Orphaned, Beyond, Whole
  <2>10. QED BY <2>6, <2>7, <2>8, <2>9 DEF Rest
<1>5. CASE ~Begin(p)
  <2>1. journal' = journal
    BY <1>5 DEF Beginnings, Preflight, PreflightFails, Nested, StopOld, StopOldFails, disk
  <2>2. mem'[p].journal = mem[p].journal
    BY <1>3, <1>5 DEF Beginnings, Preflight, PreflightFails, Nested, StopOld, StopOldFails,
                      Data, MemOK, Mems
  <2>3. \/ pc[p] = "preflight" /\ pc'[p] \in {"begin", "unlock"}
        \/ pc[p] = "nested" /\ pc'[p] = "stopold"
        \/ pc[p] = "stopold" /\ pc'[p] \in {"make", "fail"}
    BY <1>5 DEF Beginnings, Preflight, PreflightFails, Nested, StopOld, StopOldFails, Goes, FrontOK
  <2>4. HolderGood(p)' BY <1>1, <1>2, <2>1, <2>2, <2>3 DEF HolderGood, Back
  <2>5. QED BY <1>1, <1>2, <2>1, <2>4, RestKept
<1>6. QED BY <1>4, <1>5

LEMMA MakingDisk ==
    ASSUME FrontOK, Data, LockInv, DiskInv, ~SlowHolders, ~raced, NEW p \in Procs, Making(p)
    PROVE  Rest' /\ HolderGood(p)'
<1>1. Rest /\ HolderGood(p) BY DiskParts
<1>2. pc[p] \in {"make", "rename", "note", "point"}
  BY DEF Making, Copy, Rename, NoteCurrent, Point, Goes
<1>3. op[p] \in Ids /\ op[p] <= ops /\ ops' = ops /\ op' = op /\ host' = host /\ current' = current
  BY <1>2, Alone DEF Making, Copy, Rename, NoteCurrent, Point, locking, service, Working, Steady
<1>4. /\ journal.phase = "pending" /\ mem[p].journal.phase = "pending"
      /\ Back(mem[p].journal.good) /\ Back(mem[p].journal.previous)
  BY <1>1, <1>2 DEF HolderGood
<1>5. CASE Copy(p) \/ Rename(p)
  <2>1. /\ store[op[p]] \in {"absent", "bare", "marked"}
        /\ \/ pc'[p] = "rename" /\ store'[op[p]] \in {"bare", "marked"}
           \/ pc'[p] = "note" /\ store'[op[p]] = "whole"
        /\ \A r \in Ids \ {op[p]} : store'[r] = store[r]
        /\ UNCHANGED <<mem, journal, launcher>>
    BY <1>1, <1>3, <1>5 DEF HolderGood, Copy, Rename, Goes, FrontOK, Data, StoreOK, service
  <2>2. \A r \in Some : r # 0 /\ store[r] \in {"whole", "wiped"} => store'[r] = store[r]
    BY <2>1, Numbers
  <2>3. launcher \in Some \union {Torn} /\ journal.good \in Some /\ journal.previous \in Some
        /\ mem[p].journal.good \in Some /\ mem[p].journal.previous \in Some
    BY DEF Data, ServiceOK, JournalOK, MemOK, Mems, Journals
  <2>4. LauncherWorks' BY <1>1, <1>3, <2>1, <2>2, <2>3 DEF Rest, LauncherWorks, Orphaned, Whole
  <2>5. Survives' BY <1>1, <2>1, <2>2, <2>3 DEF Rest, Survives, Back, Pending
  <2>6. CommittedIsLaunched' BY <1>4, <2>1 DEF CommittedIsLaunched, Orphaned
  <2>7. \A r \in Ids : r > ops => r # op[p]
    BY <1>3, OpsAssumption DEF Ids, FrontOK, Some
  <2>8. Beyond' BY <1>1, <1>3, <2>1, <2>7 DEF Rest, Beyond
  <2>9. Back(mem[p].journal.good)' /\ Back(mem[p].journal.previous)'
    BY <1>4, <2>1, <2>2, <2>3 DEF Back
  <2>10. HolderGood(p)' BY <1>3, <1>4, <2>1, <2>9 DEF HolderGood
  <2>11. QED BY <2>4, <2>5, <2>6, <2>8, <2>10 DEF Rest
<1>6. CASE NoteCurrent(p)
  <2>1. pc[p] = "note" /\ pc'[p] = "point" /\ UNCHANGED <<store, launcher>>
    BY <1>6 DEF NoteCurrent, Goes, FrontOK, service
  <2>2. mem[p] \in Mems /\ mem[p].journal \in Journals BY DEF Data, MemOK, Mems
  <2>3. /\ mem'[p].journal = [mem[p].journal EXCEPT !.current = op[p]]
        /\ journal' = mem'[p].journal
    BY <1>6, <2>2 DEF NoteCurrent, Data, MemOK, Mems
  <2>4. /\ mem'[p].journal.good = mem[p].journal.good
        /\ mem'[p].journal.previous = mem[p].journal.previous
        /\ mem'[p].journal.phase = mem[p].journal.phase
    BY <2>2, <2>3 DEF Journals
  <2>5. HolderGood(p)' BY <1>1, <1>3, <1>4, <2>1, <2>3, <2>4 DEF HolderGood, Back
  <2>6. Survives' BY <1>4, <2>1, <2>3, <2>4 DEF Survives, Back, Pending
  <2>7. CommittedIsLaunched' BY <1>4, <2>3, <2>4 DEF CommittedIsLaunched, Orphaned
  <2>8. LauncherWorks' /\ Beyond' BY <1>1, <1>3, <2>1 DEF Rest, LauncherWorks, Orphaned, Beyond, Whole
  <2>9. QED BY <2>5, <2>6, <2>7, <2>8 DEF Rest
<1>7. CASE Point(p)
  <2>1. pc[p] = "point" /\ pc'[p] = "start" /\ launcher' = op[p] /\ UNCHANGED <<mem, journal, store>>
    BY <1>7 DEF Point, Goes, FrontOK, disk
  <2>2. store[op[p]] = "whole" BY <1>1, <2>1 DEF HolderGood
  <2>3. HolderGood(p)' BY <1>1, <1>3, <1>4, <2>1, <2>2 DEF HolderGood, Back
  <2>4. LauncherWorks' BY <1>3, <2>1, <2>2, Numbers DEF LauncherWorks, Orphaned, Whole
  <2>5. Survives' /\ CommittedIsLaunched' /\ Beyond'
    BY <1>1, <1>3, <1>4, <2>1 DEF Rest, Survives, CommittedIsLaunched, Orphaned, Beyond, Back, Pending
  <2>6. QED BY <2>3, <2>4, <2>5 DEF Rest
<1>8. QED BY <1>5, <1>6, <1>7 DEF Making

LEMMA StartingDisk ==
    ASSUME FrontOK, Data, LockInv, DiskInv, ~SlowHolders, ~raced, NEW p \in Procs, Starting(p)
    PROVE  Rest' /\ HolderGood(p)'
<1>1. Rest /\ HolderGood(p) BY DiskParts
<1>2. UNCHANGED <<host, op, ops, mem, journal, store, launcher>>
  BY DEF Starting, Restart, StartUnit, StartTask, Restarted, Verify, Record, locking, disk, service
<1>3. \/ /\ pc[p] = "start" /\ pc'[p] \in {"drain", "verify"} /\ host = "systemd"
      \/ /\ pc[p] = "start" /\ pc'[p] = "record"
      \/ /\ pc[p] = "drain" /\ pc'[p] = "verify"
      \/ /\ pc[p] = "verify" /\ pc'[p] \in {"commit", "fail"}
      \/ /\ pc[p] = "record" /\ pc'[p] = "commit" /\ current' = op[p]
  BY DEF Starting, Restart, StartUnit, StartTask, Restarted, Verify, Record, Goes, FrontOK
<1>4. HolderGood(p)' BY <1>1, <1>2, <1>3 DEF HolderGood, Back
<1>5. QED BY <1>1, <1>2, <1>4, RestKept

LEMMA StepFailsDisk ==
    ASSUME FrontOK, Data, LockInv, DiskInv, ~SlowHolders, ~raced, NEW p \in Procs, StepFails(p)
    PROVE  Rest' /\ HolderGood(p)'
<1>1. Rest /\ HolderGood(p) BY DiskParts
<1>2. /\ pc[p] \in {"make", "rename", "note", "point", "start", "verify", "record", "commit"}
      /\ pc'[p] \in {"undo", "fail"}
      /\ UNCHANGED <<host, op, ops, mem, journal, current>>
  BY DEF StepFails, FrontOK, locking
<1>3. op[p] \in Ids /\ op[p] <= ops BY <1>2, Alone DEF Working, Steady
<1>4. /\ journal.phase = "pending" /\ mem[p].journal.phase = "pending"
      /\ Back(mem[p].journal.good) /\ Back(mem[p].journal.previous)
  BY <1>1, <1>2 DEF HolderGood
<1>5. \A r \in Ids : store'[r] = IF r = op[p] /\ pc[p] = "rename" THEN "absent" ELSE store[r]
  BY DEF StepFails
<1>6. pc[p] = "rename" => store[op[p]] \in {"bare", "marked"} BY <1>1 DEF HolderGood
<1>7. \A r \in Some : r # 0 /\ store[r] \in {"whole", "wiped"} => store'[r] = store[r]
  BY <1>5, <1>6, Numbers
<1>8. launcher \in Some \union {Torn} /\ journal.good \in Some /\ journal.previous \in Some
      /\ mem[p].journal.good \in Some /\ mem[p].journal.previous \in Some
  BY DEF Data, ServiceOK, JournalOK, MemOK, Mems, Journals
<1>9. LauncherWorks'
  <2>1. launcher' \in {launcher, Torn} \/ (launcher' = op[p] /\ store[op[p]] = "whole")
    BY <1>1 DEF StepFails, HolderGood
  <2>2. QED BY <1>1, <1>2, <1>3, <1>7, <1>8, <2>1, Numbers DEF Rest, LauncherWorks, Orphaned, Whole
<1>10. Survives' BY <1>1, <1>2, <1>7, <1>8 DEF Rest, Survives, Back, Pending
<1>11. CommittedIsLaunched' BY <1>2, <1>4 DEF CommittedIsLaunched, Orphaned
<1>12. Beyond' BY <1>1, <1>2, <1>5 DEF Rest, Beyond
<1>13. Back(mem[p].journal.good)' /\ Back(mem[p].journal.previous)'
  BY <1>2, <1>4, <1>7, <1>8 DEF Back
<1>14. HolderGood(p)' BY <1>2, <1>4, <1>13 DEF HolderGood
<1>15. QED BY <1>9, <1>10, <1>11, <1>12, <1>14 DEF Rest

LEMMA CommitDisk ==
    ASSUME FrontOK, Data, LockInv, DiskInv, ~SlowHolders, ~raced, NEW p \in Procs, Commit(p)
    PROVE  Rest' /\ HolderGood(p)'
<1>1. Rest /\ HolderGood(p) BY DiskParts
<1>2. /\ pc[p] = "commit" /\ pc'[p] = "prune"
      /\ UNCHANGED <<host, op, ops, store, launcher, current>>
  BY DEF Commit, Goes, FrontOK, locking, service
<1>3. op[p] \in Ids /\ op[p] # 0 BY <1>2, Alone, OpsAssumption DEF Working, Steady, Ids
<1>4. launcher = op[p] /\ store[op[p]] = "whole" /\ (host = "windows" => current = op[p])
      /\ Back(mem[p].journal.good) /\ Back(mem[p].journal.previous)
  BY <1>1, <1>2 DEF HolderGood
<1>5. mem[p].journal \in Journals BY DEF Data, MemOK, Mems
<1>6. (IF host = "systemd" THEN op[p] ELSE Installed) = op[p]
  BY <1>3, <1>4, TornIs, HostsAssumption DEF FrontOK, Installed, Whole
<1>7. journal' = [mem[p].journal EXCEPT !.phase = "committed", !.current = op[p],
                                        !.good = StablePrevious(mem[p].journal)]
  BY <1>6 DEF Commit
<1>8. /\ journal'.phase = "committed" /\ journal'.current = op[p]
      /\ journal'.good = StablePrevious(mem[p].journal)
  BY <1>5, <1>7 DEF Journals
<1>9. Back(StablePrevious(mem[p].journal)) BY <1>4 DEF StablePrevious, Back
<1>10. Survives' BY <1>2, <1>8, <1>9 DEF Survives, Back, Pending
<1>11. CommittedIsLaunched' BY <1>2, <1>4, <1>8 DEF CommittedIsLaunched, Orphaned
<1>12. LauncherWorks' /\ Beyond' BY <1>1, <1>2 DEF Rest, LauncherWorks, Orphaned, Beyond, Whole
<1>13. HolderGood(p)' BY <1>2, <1>4 DEF HolderGood
<1>14. QED BY <1>10, <1>11, <1>12, <1>13 DEF Rest

\* What is launched and what recovery goes back to are protected.
LEMMA PruneDisk ==
    ASSUME FrontOK, Data, LockInv, DiskInv, ~SlowHolders, ~raced, NEW p \in Procs, Prune(p)
    PROVE  Rest' /\ HolderGood(p)'
<1>1. Rest /\ HolderGood(p) BY DiskParts
<1>2. /\ pc[p] = "prune" /\ pc'[p] = "unlock"
      /\ UNCHANGED <<host, op, ops, mem, journal, launcher, current>>
  BY DEF Prune, Goes, FrontOK, locking, service
<1>3. launcher = op[p] /\ (host = "windows" => current = op[p]) BY <1>1, <1>2 DEF HolderGood
<1>4. op[p] \in Ids /\ op[p] # 0 BY <1>2, Alone, OpsAssumption DEF Working, Steady, Ids
<1>5. store[launcher] = "whole" \/ store[launcher] = "wiped"
  BY <1>1, <1>3, <1>4, TornIs DEF Rest, LauncherWorks, Orphaned, Whole
<1>6. \A r \in Ids : store[r] = "whole" /\ r \in Protected => r \in Kept
  BY DEF Kept, Named
<1>7. \A r \in Ids : store'[r] = store[r] \/ (store'[r] = "pruned" /\ r \in Named /\ r \notin Kept)
  BY DEF Prune
<1>8. \A r \in Ids : store[r] = "wiped" \/ (store[r] = "whole" /\ r \in Protected)
                     => store'[r] = store[r]
  BY <1>6, <1>7 DEF Named
<1>9. store'[launcher] = store[launcher]
  <2>1. store[launcher] = "whole" => Installed = launcher
    BY <1>3, <1>4, TornIs, HostsAssumption DEF FrontOK, Installed, Whole
  <2>2. QED BY <1>3, <1>4, <1>5, <1>8, <2>1 DEF Protected
<1>10. \A r \in Some : Back(r) /\ r \in Protected => r = 0 \/ store'[r] \in {"whole", "wiped"}
  BY <1>8, Numbers DEF Back
<1>11. journal.good \in Some /\ journal.previous \in Some
  BY DEF Data, JournalOK, Journals
<1>12. Survives'
  <2>1. Back(journal.good)'
    BY <1>1, <1>2, <1>10, <1>11 DEF Rest, Survives, Protected, Back
  <2>2. Pending => Back(journal.previous)'
    BY <1>1, <1>2, <1>10, <1>11 DEF Rest, Survives, Protected, Back
  <2>3. QED BY <1>2, <2>1, <2>2 DEF Survives, Pending
<1>13. LauncherWorks' BY <1>1, <1>2, <1>9 DEF Rest, LauncherWorks, Orphaned, Whole
<1>14. CommittedIsLaunched' BY <1>1, <1>2, <1>9 DEF Rest, CommittedIsLaunched, Orphaned
<1>15. Beyond'
  <2>1. \A r \in Ids : store[r] = "absent" => store'[r] = store[r] BY <1>7 DEF Named
  <2>2. QED BY <1>1, <1>2, <2>1 DEF Rest, Beyond
<1>16. HolderGood(p)' BY <1>2 DEF HolderGood
<1>17. QED BY <1>12, <1>13, <1>14, <1>15, <1>16 DEF Rest

LEMMA EndingDisk ==
    ASSUME FrontOK, Data, LockInv, DiskInv, ~SlowHolders, ~raced, NEW p \in Procs, Ending(p)
    PROVE  Rest' /\ HolderGood(p)'
<1>1. Rest /\ HolderGood(p) BY DiskParts
<1>2. CASE Undo(p) \/ UndoFails(p)
  <2>1. /\ pc[p] = "undo" /\ pc'[p] = "fail"
        /\ UNCHANGED <<host, op, ops, mem, journal, store>>
    BY <1>2 DEF Undo, UndoFails, Goes, FrontOK, locking, disk
  <2>2. launcher' \in {launcher, Torn} \/ Whole(launcher')
    BY <1>2 DEF Undo, UndoFails
  <2>3. LauncherWorks' BY <1>1, <2>1, <2>2 DEF Rest, LauncherWorks, Orphaned, Whole
  <2>4. HolderGood(p)' BY <1>1, <2>1 DEF HolderGood, Back
  <2>5. Survives' /\ CommittedIsLaunched' /\ Beyond'
    BY <1>1, <2>1 DEF Rest, HolderGood, Survives, CommittedIsLaunched, Orphaned, Beyond, Back, Pending
  <2>6. QED BY <2>3, <2>4, <2>5 DEF Rest
<1>3. CASE Fail(p)
  <2>1. /\ pc[p] = "fail" /\ pc'[p] = "unlock"
        /\ UNCHANGED <<host, op, ops, store, launcher>>
    BY <1>3 DEF Fail, Goes, FrontOK, locking, service
  <2>2. mem[p].journal \in Journals BY DEF Data, MemOK, Mems
  <2>3. journal'.phase = "failed" /\ journal'.good = mem[p].journal.good
    BY <1>3, <2>2 DEF Fail, Journals
  <2>4. Back(mem[p].journal.good) BY <1>1, <2>1 DEF HolderGood
  <2>5. Survives' /\ CommittedIsLaunched'
    BY <2>1, <2>3, <2>4 DEF Survives, CommittedIsLaunched, Orphaned, Back, Pending
  <2>6. LauncherWorks' /\ Beyond' BY <1>1, <2>1 DEF Rest, LauncherWorks, Orphaned, Beyond, Whole
  <2>7. HolderGood(p)' BY <2>1 DEF HolderGood
  <2>8. QED BY <2>5, <2>6, <2>7 DEF Rest
<1>4. CASE PruneFails(p)
  <2>1. pc'[p] = "unlock" /\ UNCHANGED <<host, ops, journal, store, launcher>>
    BY <1>4 DEF PruneFails, Goes, FrontOK, locking, disk, service
  <2>2. HolderGood(p)' BY <2>1 DEF HolderGood
  <2>3. QED BY <1>1, <2>1, <2>2, RestKept
<1>5. QED BY <1>2, <1>3, <1>4, StepFailsDisk, CommitDisk, PruneDisk DEF Ending

LEMMA RemovingDisk ==
    ASSUME FrontOK, Data, LockInv, DiskInv, ~SlowHolders, ~raced, NEW p \in Procs, Removing(p)
    PROVE  Rest' /\ HolderGood(p)'
<1>1. Rest /\ HolderGood(p) BY DiskParts
<1>2. UNCHANGED <<host, ops, journal, store>> /\ launcher' \in {launcher, 0}
  BY DEF Removing, StopService, StopServiceFails, Unpoint, UnpointFails, locking, disk, service
<1>3. \/ pc'[p] \in {"unpoint", "unlock"}
      \/ pc'[p] = "wipe" /\ (host = "systemd" => launcher' = 0)
  BY DEF Removing, StopService, StopServiceFails, Unpoint, UnpointFails, Goes, FrontOK
<1>4. HolderGood(p)' BY <1>2, <1>3 DEF HolderGood
<1>5. Rest'
  BY <1>1, <1>2
     DEF Rest, LauncherWorks, Survives, CommittedIsLaunched, Orphaned, Beyond, Whole, Back, Pending
<1>6. QED BY <1>4, <1>5

LEMMA WipingDisk ==
    ASSUME FrontOK, Data, LockOK, LockInv, DiskInv, ~SlowHolders, ~raced, NEW p \in Procs, Wiping(p)
    PROVE  Rest' /\ HolderGood(p)'
<1>1. Rest /\ HolderGood(p) BY DiskParts
<1>2. /\ pc[p] \in {"wipe", "wiping"} /\ pc'[p] \in {"wiping", "reload", "unlock"}
      /\ UNCHANGED <<host, ops, launcher>>
  BY WipingTypes
<1>3. HolderGood(p)' BY <1>1, <1>2 DEF HolderGood
<1>4. \A r \in Ids : /\ store[r] \in {"whole", "wiped"} => store'[r] \in {store[r], "wiped"}
                     /\ store[r] = "absent" => store'[r] = "absent"
  BY DEF Wiping, WipeSome, WipeRest, WipeFails, Wiped, Named, disk
<1>5. launcher \in Some \union {Torn} /\ journal.good \in Some /\ journal.previous \in Some
  BY DEF Data, ServiceOK, JournalOK, Journals
<1>6. Beyond' BY <1>1, <1>2, <1>4 DEF Rest, Beyond
<1>7. journal' = journal \/ (host = "systemd" /\ journal' = NoJournal)
  BY DEF Wiping, WipeSome, WipeRest, WipeFails, disk
<1>8. Survives'
  <2>1. \A r \in Some : Back(r) => Back(r)' BY <1>4, Numbers DEF Back
  <2>2. CASE journal' = journal BY <1>1, <1>5, <2>1, <2>2 DEF Rest, Survives, Back, Pending
  <2>3. CASE journal' = NoJournal BY <2>3 DEF NoJournal, Survives, Back, Pending
  <2>4. QED BY <1>7, <2>2, <2>3
<1>9. CASE host = "systemd"
  <2>1. launcher = 0 BY <1>1, <1>2, <1>9 DEF HolderGood
  <2>2. LauncherWorks' /\ CommittedIsLaunched'
    BY <1>2, <2>1 DEF LauncherWorks, CommittedIsLaunched, Orphaned
  <2>3. QED BY <1>3, <1>6, <1>8, <2>2 DEF Rest
<1>10. CASE host = "windows"
  <2>1. journal' = journal BY <1>7, <1>10
  <2>2. LauncherWorks'
    BY <1>1, <1>2, <1>4, <1>5, <1>10, Numbers DEF Rest, LauncherWorks, Orphaned, Whole
  <2>3. store[launcher] = "wiped" /\ launcher \in Ids => store'[launcher] = "wiped"
    BY <1>4
  <2>4. CommittedIsLaunched'
    BY <1>1, <1>2, <1>5, <1>10, <2>1, <2>3, Numbers DEF Rest, CommittedIsLaunched, Orphaned, LauncherWorks, Whole
  <2>5. QED BY <1>3, <1>6, <1>8, <2>2, <2>4 DEF Rest
<1>11. QED BY <1>9, <1>10, HostsAssumption DEF FrontOK

LEMMA DiskStep ==
    ASSUME FrontOK, Data, LockOK, LockInv, DiskInv, ~SlowHolders, [Next]_vars
    PROVE  DiskInv'
<1>1. ASSUME ~raced, NEW p \in Procs, Every(p) PROVE DiskInv'
  <2>1. Rest' /\ HolderGood(p)'
    BY <1>1, RecoveringDisk, BeginningsDisk, MakingDisk, StartingDisk, EndingDisk, RemovingDisk
       DEF Every
  <2>2. pc[p] \in Working /\ \A q \in Procs \ {p} : pc'[q] = pc[q]
    BY <1>1, EveryWorks DEF Works, Working
  <2>3. QED BY <1>1, <2>1, <2>2, AloneStep
<1>2. ASSUME ~raced, NEW p \in Procs, Wiping(p) PROVE DiskInv'
  <2>1. pc[p] \in Working /\ \A q \in Procs \ {p} : pc'[q] = pc[q]
    BY <1>2, WipingTypes DEF Working, Steady
  <2>2. QED BY <1>2, <2>1, WipingDisk, AloneStep
<1>3. QED BY <1>1, <1>2, NextIs, WaitingDisk, LeavingDisk, WriteOwnerDisk, ManagerDisk

-----------------------------------------------------------------------------
(***************************************************************************)
(* Theorems                                                                *)
(***************************************************************************)
LEMMA InitInv == Init => IndInv
<1> SUFFICES ASSUME Init PROVE IndInv OBVIOUS
<1>2. FrontOK BY Numbers DEF Init, FrontOK, Places, Before, Kinds
<1>3. MemOK /\ JournalOK BY BlankOK DEF Init, MemOK, JournalOK
<1>4. LockOK /\ ServiceOK BY Numbers DEF Init, LockOK, ServiceOK
<1>5. StoreOK BY Numbers DEF Init, StoreOK, Stores
<1>6. FaultsOK BY OpsAssumption DEF Init, FaultsOK
<1>7. TypeOK BY <1>2, <1>3, <1>4, <1>5, <1>6, Parts
<1>8. LockInv BY DEF Init, LockInv, Holds, Dead
<1>9. Rest
  BY DEF Init, Rest, LauncherWorks, Survives, CommittedIsLaunched, Orphaned, Beyond, Back, Pending, NoJournal
<1>10. \A p \in Procs : HolderGood(p) BY Resting DEF Init, Working, Steady
<1>11. QED BY <1>7, <1>8, <1>9, <1>10, DiskParts DEF IndInv

\* Every variable keeps its type, a holder's id is in the lock as long as no
\* operation holds it for an hour, and then the disk is as the holder's
\* place says: the journal, the new release and the launcher.
THEOREM ServiceInductive == Spec => []IndInv
<1>1. IndInv /\ [Next]_vars => IndInv'
  <2>1. SUFFICES ASSUME IndInv, [Next]_vars PROVE IndInv' OBVIOUS
  <2>2. FrontOK /\ Data /\ LockOK /\ LockInv BY <2>1, Parts DEF IndInv, Data
  <2>3. TypeOK' BY <2>1, <2>2, TypeStep, PartsPrimed DEF Data
  <2>4. LockInv' BY <2>1, <2>2, LockStep
  <2>5. ~SlowHolders => DiskInv' BY <2>1, <2>2, DiskStep DEF IndInv
  <2>6. QED BY <2>3, <2>4, <2>5 DEF IndInv
<1>2. QED BY <1>1, InitInv, PTL DEF Spec

LEMMA IndFront == IndInv => FrontOK /\ LockInv
BY Parts DEF IndInv

\* acquireServiceLock: two operations never work at once on the journal, the
\* releases and the launcher, unless one held the lock for an hour, or a
\* process removed a lock that it had not read, or that was being made, or
\* took it from an uninstall that was still removing the rest.
THEOREM OneAtATime == ASSUME ~SlowHolders PROVE Spec => []OneOperation
<1>1. IndInv => OneOperation BY IndFront, OnlyHolder DEF OneOperation
<1>2. QED BY <1>1, ServiceInductive, PTL

\* installSystemd, installWindows, recoverPendingOperation, pruneReleases:
\* wherever a process dies, what the manager starts is a whole release.
THEOREM LaunchersWork == ASSUME ~SlowHolders PROVE Spec => []LauncherWorks
<1>1. IndInv => LauncherWorks BY DEF IndInv, DiskInv
<1>2. QED BY <1>1, ServiceInductive, PTL

\* pruneReleases, failedOperation: the release the next recovery goes back to
\* stays whole until an uninstall.
THEOREM TargetsSurvive == ASSUME ~SlowHolders PROVE Spec => []TargetSurvives
<1>1. IndInv => TargetSurvives BY DEF IndInv, DiskInv
<1>2. QED BY <1>1, ServiceInductive, PTL

\* beginOperation, successfulOperation: a committed journal names what the
\* manager starts.
THEOREM CommittedLaunched == ASSUME ~SlowHolders PROVE Spec => []CommittedIsLaunched
<1>1. IndInv => CommittedIsLaunched BY DEF IndInv, DiskInv
<1>2. QED BY <1>1, ServiceInductive, PTL

-----------------------------------------------------------------------------
(***************************************************************************)
(* The running dispatcher                                                  *)
(***************************************************************************)
\* Places of the Windows installer, and what verifySystemdInstall saw, which
\* is still so at the commit.
WindowsOnly == \A p \in Procs : pc[p] \in {"nested", "stopold", "record"} => host = "windows"
Verified == \A p \in Procs : pc[p] = "commit" /\ host = "systemd" => running \in {0, op[p]}
RunInv == WindowsOnly /\ (~SlowHolders => Verified)

LEMMA EveryWindows ==
    ASSUME FrontOK, WindowsOnly, NEW p \in Procs, Every(p),
           pc'[p] \in {"nested", "stopold", "record"}
    PROVE  host = "windows"
<1>1. ~Recovering(p)
  BY DEF Recovering, NothingPending, Restore, RestoreFails, MarkFailed, Recovered, Goes, FrontOK
<1>2. CASE Beginnings(p)
  BY <1>2 DEF Beginnings, Preflight, PreflightFails, Begin, Nested, StopOld, StopOldFails, Goes,
              FrontOK, WindowsOnly
<1>3. ~Making(p) BY DEF Making, Copy, Rename, NoteCurrent, Point, Goes, FrontOK
<1>4. CASE Starting(p)
  BY <1>4 DEF Starting, Restart, StartUnit, StartTask, Restarted, Verify, Record, Goes, FrontOK
<1>5. ~Ending(p)
  BY DEF Ending, StepFails, Undo, UndoFails, Fail, Commit, Prune, PruneFails, Goes, FrontOK
<1>6. ~Removing(p) BY DEF Removing, StopService, StopServiceFails, Unpoint, UnpointFails, Goes, FrontOK
<1>7. QED BY <1>1, <1>2, <1>3, <1>4, <1>5, <1>6 DEF Every

LEMMA ManagerStays ==
    ASSUME Manager \/ DaysPass \/ UNCHANGED vars PROVE UNCHANGED <<host, pc, op, launcher>>
BY DEF Manager, RestartEnds, DispatcherRestarts, DispatcherStops, JobStarts, JobEnds, PidReused,
       HourPasses, DaysPass, vars, process, service

LEMMA WindowsStep ==
    ASSUME FrontOK, Data, LockOK, WindowsOnly, [Next]_vars PROVE WindowsOnly'
<1>1. ASSUME NEW p \in Procs, Every(p) PROVE WindowsOnly'
  <2>1. host' = host /\ \A q \in Procs \ {p} : pc'[q] = pc[q] BY <1>1, EveryWorks DEF Works
  <2>2. QED BY <1>1, <2>1, EveryWindows DEF WindowsOnly
<1>2. ASSUME NEW p \in Procs, Waiting(p) \/ Leaving(p) \/ WriteOwner(p) \/ Wiping(p)
      PROVE  WindowsOnly'
  <2>1. /\ host' = host /\ pc'[p] \notin {"nested", "stopold", "record"}
        /\ \A q \in Procs \ {p} : pc'[q] = pc[q]
    BY <1>2, WaitingTypes, LeavingTypes, WriteOwnerTypes, WipingTypes DEF Working, Steady
  <2>2. QED BY <2>1 DEF WindowsOnly
<1>3. CASE Manager \/ DaysPass \/ UNCHANGED vars BY <1>3, ManagerStays DEF WindowsOnly
<1>4. QED BY <1>1, <1>2, <1>3, NextIs

\* Only verify and record lead to the commit.
LEMMA EveryVerified ==
    ASSUME FrontOK, WindowsOnly, NEW p \in Procs, Every(p), pc'[p] = "commit", host = "systemd"
    PROVE  running' = op[p]
<1>1. ~Recovering(p)
  BY DEF Recovering, NothingPending, Restore, RestoreFails, MarkFailed, Recovered, Goes, FrontOK
<1>2. ~Beginnings(p)
  BY DEF Beginnings, Preflight, PreflightFails, Begin, Nested, StopOld, StopOldFails, Goes, FrontOK
<1>3. ~Making(p) BY DEF Making, Copy, Rename, NoteCurrent, Point, Goes, FrontOK
<1>4. CASE Starting(p)
  <2>1. Verify(p) \/ Record(p)
    BY <1>4 DEF Starting, Restart, StartUnit, StartTask, Restarted, Goes, FrontOK
  <2>2. ~Record(p) BY DEF Record, Goes, WindowsOnly
  <2>3. running = op[p] /\ running' = running
    BY <2>1, <2>2 DEF Verify, Goes, FrontOK, service
  <2>4. QED BY <2>3
<1>5. ~Ending(p)
  BY DEF Ending, StepFails, Undo, UndoFails, Fail, Commit, Prune, PruneFails, Goes, FrontOK
<1>6. ~Removing(p) BY DEF Removing, StopService, StopServiceFails, Unpoint, UnpointFails, Goes, FrontOK
<1>7. QED BY <1>1, <1>2, <1>3, <1>4, <1>5, <1>6 DEF Every

LEMMA VerifiedStep ==
    ASSUME FrontOK, Data, LockOK, LockInv, DiskInv, WindowsOnly, Verified, ~SlowHolders, [Next]_vars
    PROVE  Verified'
<1>1. ASSUME ~raced, NEW p \in Procs, Every(p) PROVE Verified'
  <2>1. /\ host' = host /\ op' = op /\ pc[p] \in Working
        /\ \A q \in Procs \ {p} : pc'[q] = pc[q]
    BY <1>1, EveryWorks DEF Works, Working
  <2>2. \A q \in Procs \ {p} : pc[q] # "commit" BY <1>1, <2>1, Alone DEF Working, Steady
  <2>3. pc'[p] = "commit" /\ host = "systemd" => running' = op[p] BY <1>1, EveryVerified
  <2>4. QED BY <2>1, <2>2, <2>3 DEF Verified
<1>2. ASSUME NEW p \in Procs, Waiting(p) \/ Leaving(p) \/ WriteOwner(p) \/ Wiping(p) PROVE Verified'
  <2>1. /\ host' = host /\ running' = running /\ pc'[p] # "commit"
        /\ \A q \in Procs \ {p} : pc'[q] = pc[q] /\ op'[q] = op[q]
    BY <1>2, WaitingTypes, LeavingTypes, WriteOwnerTypes, WipingTypes DEF service, Working, Steady
  <2>2. QED BY <2>1 DEF Verified
<1>3. CASE Manager \/ DaysPass \/ UNCHANGED vars
  <2>1. UNCHANGED <<host, pc, op, launcher>> BY <1>3, ManagerStays
  <2>2. running' \in {0, launcher, running}
    BY <1>3 DEF Manager, RestartEnds, DispatcherRestarts, DispatcherStops, JobStarts, JobEnds, PidReused,
                HourPasses, Startable, DaysPass, vars, service
  <2>3. \A q \in Procs : pc[q] = "commit" => launcher = op[q] BY DiskParts DEF HolderGood
  <2>4. QED BY <2>1, <2>2, <2>3 DEF Verified
<1>4. QED BY <1>1, <1>2, <1>3, NextIs

LEMMA RunInductive == Spec => []RunInv
<1>1. Init => RunInv BY DEF Init, RunInv, WindowsOnly, Verified
<1>2. IndInv /\ RunInv /\ [Next]_vars => RunInv'
  <2>1. SUFFICES ASSUME IndInv, RunInv, [Next]_vars PROVE RunInv' OBVIOUS
  <2>2. FrontOK /\ Data /\ LockOK /\ LockInv BY <2>1, Parts DEF IndInv, Data
  <2>3. WindowsOnly' BY <2>1, <2>2, WindowsStep DEF RunInv
  <2>4. ~SlowHolders => Verified' BY <2>1, <2>2, VerifiedStep DEF IndInv, RunInv
  <2>5. QED BY <2>3, <2>4 DEF RunInv
<1>3. QED BY <1>1, <1>2, ServiceInductive, PTL DEF Spec

\* verifySystemdInstall: no install is committed while a dispatcher of an
\* older release runs, whatever restarts or stops it after the verification.
THEOREM NeverOverOld == ASSUME ~SlowHolders PROVE Spec => NeverCommitsOverOld
<1>1. RunInv => \A p \in Procs : Commit(p) /\ host = "systemd" => running \in {0, op[p]}
  BY DEF RunInv, Verified, Commit, Goes
<1>2. RunInv /\ [Next]_vars
        => [\A p \in Procs : Commit(p) /\ host = "systemd" => running \in {0, op[p]}]_vars
  BY <1>1
<1>3. QED BY <1>2, RunInductive, PTL DEF Spec, NeverCommitsOverOld

\* installSystemd, uninstallSystemd: what ends a running job is the job
\* itself, a fault, or --force.
THEOREM OnlyForce == Spec => OnlyForceInterrupts
<1>1. ASSUME IndInv, RunInv, [Next]_vars, host = "systemd", faults' = faults, busy, ~busy'
      PROVE  JobEnds \/ \E p \in Procs : kind[p] = "force" /\ Restart(p)
  <2>1. ~Fault BY <1>1, OpsAssumption DEF IndInv, TypeOK, Fault
  <2>2. busy' # busy BY <1>1
  <2>3. ASSUME NEW p \in Procs, Every(p) PROVE kind[p] = "force" /\ Restart(p)
    <3>1. ~Recovering(p)
      BY <2>2 DEF Recovering, NothingPending, Restore, RestoreFails, MarkFailed, service
    <3>2. ~Beginnings(p)
      <4>1. ~StopOld(p) BY <1>1 DEF StopOld, Goes, RunInv, WindowsOnly
      <4>2. QED
        BY <2>1, <2>2, <4>1 DEF Beginnings, Preflight, PreflightFails, Begin, Nested, StopOldFails, service
    <3>3. ~Making(p) BY <2>2 DEF Making, Copy, Rename, NoteCurrent, Point, service
    <3>4. ~Ending(p)
      BY <2>2 DEF Ending, StepFails, Undo, UndoFails, Fail, Commit, Prune, PruneFails, service
    <3>5. ~Removing(p) BY <2>2 DEF Removing, StopService, StopServiceFails, Unpoint, UnpointFails, service
    <3>6. Starting(p) BY <2>3, <3>1, <3>2, <3>3, <3>4, <3>5 DEF Every
    <3>7. Restart(p)
      BY <2>2, <3>6 DEF Starting, StartUnit, StartTask, Restarted, Verify, Record, service
    <3>8. QED BY <1>1, <3>7 DEF Restart
  <2>4. \A p \in Procs : ~Waiting(p) /\ ~Leaving(p) /\ ~WriteOwner(p) /\ ~Wiping(p)
    BY <2>1, <2>2 DEF Waiting, Call, UpdateGoesOn, Trying, MakeDir, Busy, LookStale, Remove, Reload,
                      Leaving, UpdateRefused, LockTimesOut, Unlock, Crash, WriteOwner, Wiping,
                      WipeSome, WipeRest, WipeFails, service
  <2>5. CASE Manager \/ DaysPass \/ UNCHANGED vars
    BY <1>1, <2>1, <2>2, <2>5 DEF Manager, RestartEnds, DispatcherRestarts, DispatcherStops, JobStarts,
                                  PidReused, HourPasses, DaysPass, vars, service
  <2>6. QED BY <1>1, <2>3, <2>4, <2>5, NextIs
<1>2. IndInv /\ RunInv /\ [Next]_vars
        => [host = "systemd" /\ faults' = faults /\ busy /\ ~busy'
              => JobEnds \/ \E p \in Procs : kind[p] = "force" /\ Restart(p)]_vars
  BY <1>1
<1>3. QED BY <1>2, RunInductive, ServiceInductive, PTL DEF Spec, OnlyForceInterrupts
=============================================================================
