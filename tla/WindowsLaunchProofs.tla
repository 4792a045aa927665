------------------------ MODULE WindowsLaunchProofs ------------------------
(***************************************************************************)
(* WindowsLaunch for any processes, users of the cache and faults: the     *)
(* inductive invariant, the binary that is shared, the sandbox that is not *)
(* left behind, and, for one process, the job that startup spares and the  *)
(* waits that end.                                                         *)
(***************************************************************************)
EXTENDS WindowsLaunch, TLAPS

Places == {"boot", "delete", "reap", "reaped", "idle", "cache", "clear", "cleared", "start",
           "up", "wait", "share", "run", "finally", "stopping"}
Owners == Procs \union {Nobody, Old, Hand}
Runners == {"none", "offline", "online", "job", "done"}
Boxes == [who : Owners, closing : BOOLEAN, runner : Runners]

PlaceOK == pc \in [Procs -> Places]
LocalOK ==
    /\ target \in [Procs -> Owners]
    /\ retried \in [Procs -> BOOLEAN] /\ control \in [Procs -> BOOLEAN]
    /\ forced \in [Procs -> {"no", "blind", "asked"}] /\ reg \in [Procs -> BOOLEAN]
    /\ log \in [Procs -> BOOLEAN] /\ seen \in [Procs -> BOOLEAN]
    /\ stale \in [Procs -> SUBSET (Procs \union {Old})] /\ keep \in [Procs -> BOOLEAN]
    /\ lag \in [Procs \union {Old} -> {"no", "pending", "up"}]
BoxOK == box \in Boxes
FaultsOK == faults \in 0 .. MaxFaults
CacheOK == Cache!TypeOK /\ Cache!CacheWhole
AllGood == \A p \in Procs : BoxGood(p)

LEMMA Parts ==
    IndInv <=> PlaceOK /\ LocalOK /\ BoxOK /\ FaultsOK /\ CacheOK /\ AllGood
BY DEF IndInv, TypeOK, PlaceOK, LocalOK, startup, BoxOK, FaultsOK, CacheOK, AllGood,
       Places, Owners, Runners, Boxes

LEMMA PartsPrimed ==
    PlaceOK' /\ LocalOK' /\ BoxOK' /\ FaultsOK' /\ CacheOK' /\ AllGood' => IndInv'
BY DEF IndInv, TypeOK, PlaceOK, LocalOK, startup, BoxOK, FaultsOK, CacheOK, AllGood,
       Places, Owners, Runners, Boxes

LEMMA InitInv == Init => IndInv
<1> SUFFICES ASSUME Init PROVE IndInv
  OBVIOUS
<1>1. PlaceOK /\ LocalOK BY DEF Init, PlaceOK, LocalOK, startup, Places, Owners
<1>2. BoxOK BY DEF Init, NoBox, BoxOK, Boxes, Owners, Runners
<1>3. FaultsOK BY FaultsAssumption DEF Init, FaultsOK
<1>4. CacheOK BY DEF Init, CacheOK, Cache!Init, Cache!TypeOK, Cache!CacheWhole
<1>5. AllGood
  <2>1. SUFFICES ASSUME NEW p \in Procs PROVE BoxGood(p)
    BY DEF AllGood
  <2>2. /\ pc[p] = "boot" /\ ~control[p] /\ forced[p] = "no" /\ ~seen[p] /\ lag[p] = "no"
        /\ box.who # p
    BY NobodyAssumption DEF Init, NoBox
  <2>3. QED BY <2>2 DEF BoxGood
<1>6. QED BY <1>1, <1>2, <1>3, <1>4, <1>5, Parts

(***************************************************************************)
(* The shared operators                                                    *)
(***************************************************************************)
LEMMA FaultKeeps == ASSUME FaultsOK, Fault PROVE FaultsOK' /\ faults' # faults
BY FaultsAssumption DEF FaultsOK, Fault

LEMMA CacheFaultKeeps == ASSUME FaultsOK, Cache!Fault PROVE FaultsOK'
BY FaultsAssumption DEF FaultsOK, Cache!Fault

LEMMA GoesKeeps ==
    ASSUME PlaceOK, NEW p \in Procs, NEW from, NEW to \in Places, Goes(p, from, to)
    PROVE  PlaceOK' /\ pc[p] = from /\ pc'[p] = to /\ \A q \in Procs \ {p} : pc'[q] = pc[q]
BY DEF PlaceOK, Goes

\* A stop closes the sandbox it names and leaves the others as they are.
LEMMA StopAskedKeeps ==
    ASSUME BoxOK, NEW who, StopAsked(who)
    PROVE  /\ BoxOK' /\ box'.who = box.who /\ box'.runner = box.runner
           /\ box.closing => box'.closing
           /\ box.who = who /\ who # Nobody => box'.closing
<1>1. box \in Boxes BY DEF BoxOK
<1>2. (box.closing \/ (box.who = who /\ who # Nobody)) \in BOOLEAN BY <1>1 DEF Boxes
<1>3. box' = [box EXCEPT !.closing = box.closing \/ (box.who = who /\ who # Nobody)]
  BY DEF StopAsked
<1>4. QED BY <1>1, <1>2, <1>3 DEF BoxOK, Boxes

LEMMA EndsKeeps ==
    ASSUME PlaceOK, LocalOK, BoxOK, NEW p \in Procs, NEW to \in Places, Ends(p, to)
    PROVE  /\ PlaceOK' /\ LocalOK' /\ BoxOK'
           /\ pc'[p] = to /\ ~control'[p] /\ forced'[p] = "no" /\ ~seen'[p]
           /\ box'.who = (IF box.who = p THEN Old ELSE box.who)
           /\ box'.closing = box.closing /\ box'.runner = box.runner
           /\ \A q \in Procs \ {p} : /\ pc'[q] = pc[q] /\ control'[q] = control[q]
                                     /\ forced'[q] = forced[q]
                                     /\ seen'[q] = seen[q] /\ log'[q] = log[q]
                                     /\ lag'[q] = lag[q]
           /\ lag'[p] = "no"
<1>1. PlaceOK' /\ pc'[p] = to /\ \A q \in Procs \ {p} : pc'[q] = pc[q] BY DEF Ends, PlaceOK
<1>2. LocalOK' /\ lag'[p] = "no" /\ \A q \in Procs \ {p} : lag'[q] = lag[q]
  <2>1. \A q \in Procs : {IF w = p THEN Old ELSE w : w \in stale[q]} \subseteq Procs \union {Old}
    BY DEF LocalOK
  <2>2. stale' \in [Procs -> SUBSET (Procs \union {Old})] BY <2>1 DEF Ends
  <2>3. PICK old \in {"no", "pending", "up"} : lag' = [lag EXCEPT ![p] = "no", ![Old] = old]
    <3>1. (IF lag[p] = "pending" THEN "pending" ELSE lag[Old]) \in {"no", "pending", "up"}
      BY DEF LocalOK
    <3>2. QED BY <3>1 DEF Ends
  <2>4. /\ lag' \in [Procs \union {Old} -> {"no", "pending", "up"}]
        /\ lag'[p] = "no" /\ \A q \in Procs \ {p} : lag'[q] = lag[q]
    BY <2>3, NobodyAssumption DEF LocalOK
  <2>5. QED BY <2>2, <2>4 DEF Ends, LocalOK, Owners
<1>3. ~control'[p] /\ forced'[p] = "no" /\ ~seen'[p] BY DEF Ends, LocalOK, startup
<1>4. \A q \in Procs \ {p} : /\ control'[q] = control[q] /\ forced'[q] = forced[q]
                             /\ seen'[q] = seen[q] /\ log'[q] = log[q]
  BY DEF Ends, LocalOK, startup
<1>5. /\ BoxOK' /\ box'.who = (IF box.who = p THEN Old ELSE box.who)
      /\ box'.closing = box.closing /\ box'.runner = box.runner
  BY DEF Ends, BoxOK, Boxes, Owners
<1>6. QED BY <1>1, <1>2, <1>3, <1>4, <1>5

LEMMA RunnerMovesKeeps ==
    ASSUME BoxOK, NEW from, NEW to \in Runners, RunnerMoves(from, to)
    PROVE  /\ BoxOK' /\ box'.who = box.who /\ box'.closing = box.closing
           /\ box.runner = from
BY DEF BoxOK, Boxes, RunnerMoves

\* A deletion at startup touches no sandbox's owner, and no launch's start.
Deletes(p, w) == Delete(p, w) \/ DeleteRefused(p, w) \/ DeleteFails(p, w)

LEMMA DeletesKeeps ==
    ASSUME BoxOK, LocalOK, FaultsOK, NEW p \in Procs, NEW w, Deletes(p, w)
    PROVE  /\ BoxOK' /\ LocalOK' /\ FaultsOK' /\ box'.who = box.who
           /\ box'.closing = box.closing /\ pc[p] = "delete"
           /\ UNCHANGED <<pc, target, control, forced, seen, log, lag, binary>>
<1>1. Handled(p, w) BY DEF Deletes, Delete, DeleteRefused, DeleteFails
<1>2. /\ pc[p] = "delete"
      /\ UNCHANGED <<pc, target, retried, control, forced, log, seen, lag, binary>>
      /\ stale' \in [Procs -> SUBSET (Procs \union {Old})]
  BY <1>1 DEF Handled, LocalOK
<1>3. reg' \in [Procs -> BOOLEAN] /\ keep' \in [Procs -> BOOLEAN]
  <2>1. CASE Delete(p, w)
    <3>1. \A q \in Procs : (reg[q] /\ q # w) \in BOOLEAN OBVIOUS
    <3>2. QED BY <2>1, <3>1 DEF Delete, LocalOK
  <2>2. CASE DeleteRefused(p, w) \/ DeleteFails(p, w)
    BY <2>2 DEF DeleteRefused, DeleteFails, LocalOK
  <2>3. QED BY <2>1, <2>2 DEF Deletes
<1>4. LocalOK' BY <1>2, <1>3 DEF LocalOK
<1>5. BoxOK' /\ box'.who = box.who /\ box'.closing = box.closing
  <2>1. CASE Delete(p, w) BY <2>1 DEF Delete, BoxOK, Boxes, Runners
  <2>2. CASE UNCHANGED box BY <2>2 DEF BoxOK
  <2>3. QED BY <2>1, <2>2 DEF Deletes, DeleteRefused, DeleteFails
<1>6. FaultsOK'
  <2>1. CASE Fault BY <2>1, FaultKeeps
  <2>2. CASE UNCHANGED faults BY <2>2 DEF FaultsOK
  <2>3. QED BY <2>1, <2>2 DEF Deletes, Delete, DeleteRefused, DeleteFails
<1>7. QED BY <1>2, <1>4, <1>5, <1>6

(***************************************************************************)
(* The runner cache                                                        *)
(***************************************************************************)
LEMMA CacheKeeps ==
    ASSUME CacheOK, NEW u \in Users, Cache!Ensure(u) \/ Cache!EnsureFails(u) \/ Cache!Done(u)
    PROVE  CacheOK' /\ (cache = "whole" => cache' = "whole")
<1>1. CASE Cache!Look(u)
  BY <1>1 DEF CacheOK, Cache!TypeOK, Cache!CacheWhole, Cache!Look
<1>2. CASE Cache!Download(u)
  BY <1>2 DEF CacheOK, Cache!TypeOK, Cache!CacheWhole, Cache!Download
<1>3. CASE Cache!Verify(u)
  BY <1>3 DEF CacheOK, Cache!TypeOK, Cache!CacheWhole, Cache!Verify
<1>4. CASE Cache!Place(u)
  <2>1. temp[u] = "whole" BY <1>4 DEF CacheOK, Cache!CacheWhole, Cache!Place
  <2>2. cache' = "whole"
    BY <1>4, <2>1 DEF CacheOK, Cache!TypeOK, Cache!CacheWhole, Cache!Place
  <2>3. Cache!TypeOK' BY <1>4, <2>2 DEF CacheOK, Cache!TypeOK, Cache!Place
  <2>4. Cache!CacheWhole'
    BY <1>4, <2>2 DEF CacheOK, Cache!TypeOK, Cache!CacheWhole, Cache!Place
  <2>5. QED BY <2>2, <2>3, <2>4 DEF CacheOK
<1>5. CASE Cache!DownloadCorrupt(u)
  BY <1>5 DEF CacheOK, Cache!TypeOK, Cache!CacheWhole, Cache!DownloadCorrupt
<1>6. CASE Cache!FetchFails(u)
  BY <1>6 DEF CacheOK, Cache!TypeOK, Cache!CacheWhole, Cache!FetchFails
<1>7. CASE Cache!Done(u)
  BY <1>7 DEF CacheOK, Cache!TypeOK, Cache!CacheWhole, Cache!Done
<1>8. QED BY <1>1, <1>2, <1>3, <1>4, <1>5, <1>6, <1>7 DEF Cache!Ensure, Cache!EnsureFails

LEMMA CacheFaults ==
    ASSUME FaultsOK, NEW u \in Users,
           Cache!Ensure(u) \/ Cache!EnsureFails(u) \/ Cache!Done(u)
    PROVE  FaultsOK'
<1>1. CASE Cache!Fault BY <1>1, CacheFaultKeeps
<1>2. CASE UNCHANGED faults BY <1>2 DEF FaultsOK
<1>3. QED
  BY <1>1, <1>2 DEF Cache!Ensure, Cache!EnsureFails, Cache!Done, Cache!Look, Cache!Download,
     Cache!Verify, Cache!Place, Cache!DownloadCorrupt, Cache!FetchFails

LEMMA DiesKeeps ==
    ASSUME CacheOK, NEW u \in Users, Cache!Dies(u) PROVE CacheOK' /\ cache' = cache
BY DEF CacheOK, Cache!TypeOK, Cache!CacheWhole, Cache!Dies

LEMMA SameCache == ASSUME CacheOK, UNCHANGED binary PROVE CacheOK' /\ cache' = cache
BY DEF binary, CacheOK, Cache!TypeOK, Cache!CacheWhole

\* A process that takes no part in a step stays good.
LEMMA OtherGood ==
    ASSUME NEW p \in Procs, BoxGood(p),
           pc'[p] = pc[p], control'[p] = control[p], forced'[p] = forced[p],
           seen'[p] = seen[p], lag'[p] = lag[p], log[p] => log'[p],
           box'.who = p => box.who = p /\ (box.closing => box'.closing),
           cache = "whole" => cache' = "whole"
    PROVE  BoxGood(p)'
BY DEF BoxGood

-----------------------------------------------------------------------------
(***************************************************************************)
(* The steps                                                               *)
(***************************************************************************)
LEMMA AllGoodStep ==
    ASSUME AllGood, NEW p \in Procs, BoxGood(p) => BoxGood(p)',
           \A q \in Procs \ {p} : /\ pc'[q] = pc[q] /\ control'[q] = control[q]
                                  /\ forced'[q] = forced[q] /\ seen'[q] = seen[q]
                                  /\ lag'[q] = lag[q] /\ (log[q] => log'[q])
                                  /\ box'.who = q => box.who = q /\ (box.closing => box'.closing),
           cache = "whole" => cache' = "whole"
    PROVE  AllGood'
<1>1. SUFFICES ASSUME NEW q \in Procs PROVE BoxGood(q)'
  BY DEF AllGood
<1>2. BoxGood(q) BY DEF AllGood
<1>3. CASE q = p BY <1>2, <1>3
<1>4. CASE q # p BY <1>2, <1>4, OtherGood
<1>5. QED BY <1>3, <1>4

\* Startup and the registration: no sandbox is this process's own.
Quiet == {"boot", "delete", "reap", "reaped", "idle", "cache"}

LEMMA StartupStep ==
    ASSUME IndInv, NEW p \in Procs,
           \/ List(p) \/ ListFails(p) \/ Reconciled(p)
           \/ ReapAsk(p) \/ ReapGone(p) \/ ReapFails(p) \/ Begin(p)
    PROVE  IndInv'
<1>1. PlaceOK /\ LocalOK /\ BoxOK /\ FaultsOK /\ CacheOK /\ AllGood BY Parts
<1>2. /\ PlaceOK' /\ pc[p] \in Quiet /\ pc'[p] \in Quiet
      /\ \A q \in Procs \ {p} : pc'[q] = pc[q]
  <2>1. PICK from, to \in Quiet : Goes(p, from, to)
    BY DEF List, ListFails, Reconciled, ReapAsk, ReapGone, ReapFails, Begin, Quiet
  <2>2. to \in Places /\ from \in Quiet BY DEF Quiet, Places
  <2>3. QED BY <1>1, <2>1, <2>2, GoesKeeps
<1>3. /\ BoxOK' /\ box'.who = box.who /\ (box.closing => box'.closing)
  <2>1. CASE StopAsked(box.who) BY <1>1, <2>1, StopAskedKeeps
  <2>2. CASE UNCHANGED box BY <1>1, <2>2 DEF BoxOK
  <2>3. QED BY <2>1, <2>2
        DEF List, ListFails, Reconciled, ReapAsk, ReapGone, ReapFails, Begin
<1>4. LocalOK' /\ UNCHANGED <<control, forced, seen, log, lag>>
  <2>1. Offline \subseteq Procs \union {Old} BY DEF Offline
  <2>2. CASE List(p)
    <3>1. (box.runner \in {"online", "job"}) \in BOOLEAN OBVIOUS
    <3>2. QED BY <1>1, <2>1, <2>2, <3>1 DEF List, LocalOK
  <2>3. CASE ListFails(p) BY <1>1, <2>1, <2>3 DEF ListFails, LocalOK
  <2>4. CASE Reconciled(p) BY <1>1, <2>4 DEF Reconciled, LocalOK
  <2>5. CASE ReapAsk(p)
    <3>1. box.who \in Owners BY <1>1 DEF BoxOK, Boxes
    <3>2. QED BY <1>1, <2>5, <3>1 DEF ReapAsk, LocalOK, startup
  <2>6. CASE ReapGone(p) BY <1>1, <2>6 DEF ReapGone, LocalOK, startup, Owners
  <2>7. CASE ReapFails(p) BY <1>1, <2>7 DEF ReapFails, LocalOK, startup, Owners
  <2>8. CASE Begin(p) BY <1>1, <2>8 DEF Begin, LocalOK, startup
  <2>9. QED BY <2>2, <2>3, <2>4, <2>5, <2>6, <2>7, <2>8
<1>5. FaultsOK'
  <2>1. CASE Fault BY <1>1, <2>1, FaultKeeps
  <2>2. CASE UNCHANGED faults BY <1>1, <2>2 DEF FaultsOK
  <2>3. QED BY <2>1, <2>2
        DEF List, ListFails, Reconciled, ReapAsk, ReapGone, ReapFails, Begin
<1>6. CacheOK' /\ cache' = cache
  <2>1. UNCHANGED binary
    BY DEF List, ListFails, Reconciled, ReapAsk, ReapGone, ReapFails, Begin
  <2>2. QED BY <1>1, <2>1, SameCache
<1>7. BoxGood(p) => BoxGood(p)' BY <1>2, <1>3, <1>4 DEF BoxGood, Quiet
<1>8. AllGood' BY <1>1, <1>2, <1>3, <1>4, <1>6, <1>7, AllGoodStep
<1>9. QED BY <1>2, <1>3, <1>4, <1>5, <1>6, <1>8, PartsPrimed

LEMMA DeleteStep ==
    ASSUME IndInv, NEW p \in Procs, NEW w, Deletes(p, w) PROVE IndInv'
<1>1. PlaceOK /\ LocalOK /\ BoxOK /\ FaultsOK /\ CacheOK /\ AllGood BY Parts
<1>2. /\ BoxOK' /\ LocalOK' /\ FaultsOK' /\ box'.who = box.who /\ box'.closing = box.closing
      /\ UNCHANGED <<pc, control, forced, seen, log, lag, binary>>
  BY <1>1, DeletesKeeps
<1>3. PlaceOK' BY <1>1, <1>2 DEF PlaceOK
<1>4. CacheOK' /\ cache' = cache BY <1>1, <1>2, SameCache
<1>5. BoxGood(p) => BoxGood(p)' BY <1>2, <1>4 DEF BoxGood
<1>6. AllGood' BY <1>1, <1>2, <1>4, <1>5, AllGoodStep
<1>7. QED BY <1>2, <1>3, <1>4, <1>6, PartsPrimed

\* Up to wsb start: the binary is there, and control not yet handed out.
LEMMA StartStep ==
    ASSUME IndInv, NEW p \in Procs,
           \/ ClearAsk(p) \/ ClearGone(p) \/ ClearFails(p)
           \/ Start(p) \/ StartRefused(p) \/ StartFails(p)
    PROVE  IndInv'
<1>1. PlaceOK /\ LocalOK /\ BoxOK /\ FaultsOK /\ CacheOK /\ AllGood BY Parts
<1>2. BoxGood(p) BY <1>1 DEF AllGood
<1>3. /\ PlaceOK' /\ pc[p] \in {"clear", "cleared", "start"}
      /\ pc'[p] \in {"clear", "cleared", "start", "up", "finally"}
      /\ \A q \in Procs \ {p} : pc'[q] = pc[q]
  <2>1. PICK from \in {"clear", "cleared", "start"},
             to \in {"clear", "cleared", "start", "up", "finally"} : Goes(p, from, to)
    BY DEF ClearAsk, ClearGone, ClearFails, Start, StartRefused, StartFails
  <2>2. to \in Places BY DEF Places
  <2>3. QED BY <1>1, <2>1, <2>2, GoesKeeps
<1>4. /\ BoxOK' /\ (box'.who = p => pc'[p] \in {"up", "finally"})
      /\ \A q \in Procs \ {p} : box'.who = q => box.who = q /\ (box.closing => box'.closing)
  <2>1. box.who # p BY <1>2, <1>3 DEF BoxGood
  <2>2. CASE ClearAsk(p)
    <3>1. StopAsked(box.who) BY <2>2 DEF ClearAsk
    <3>2. QED BY <1>1, <2>1, <3>1, StopAskedKeeps
  <2>3. CASE UNCHANGED box BY <1>1, <2>1, <2>3 DEF BoxOK
  <2>4. CASE /\ box' = [NoBox EXCEPT !.who = p] /\ pc'[p] \in {"up", "finally"}
    <3>1. box' \in Boxes /\ box'.who = p
      BY <2>4 DEF NoBox, Boxes, Owners, Runners
    <3>2. QED BY <2>4, <3>1 DEF BoxOK
  <2>5. CASE Start(p) BY <1>1, <2>4, <2>5, GoesKeeps DEF Start, Places
  <2>6. CASE StartFails(p)
    <3>1. pc'[p] = "finally" BY <1>1, <2>6, GoesKeeps DEF StartFails, Places
    <3>2. box' = box \/ box' = [NoBox EXCEPT !.who = p] BY <2>6 DEF StartFails
    <3>3. QED BY <2>3, <2>4, <3>1, <3>2
  <2>7. QED BY <2>2, <2>3, <2>5, <2>6 DEF ClearGone, ClearFails, StartRefused
<1>5. /\ LocalOK' /\ UNCHANGED <<control, forced, seen, log>>
      /\ \A q \in Procs \ {p} : lag'[q] = lag[q]
      /\ lag'[p] = lag[p] \/ pc'[p] = "finally"
  <2>1. CASE ClearAsk(p)
    <3>1. box.who \in Owners BY <1>1 DEF BoxOK, Boxes
    <3>2. QED BY <1>1, <2>1, <3>1 DEF ClearAsk, LocalOK, startup
  <2>2. CASE ClearGone(p) BY <1>1, <2>2 DEF ClearGone, LocalOK, startup, Owners
  <2>3. CASE ClearFails(p) BY <1>1, <2>3 DEF ClearFails, LocalOK, startup, Owners
  <2>4. CASE Start(p) BY <1>1, <2>4 DEF Start, LocalOK, startup
  <2>5. CASE StartRefused(p) BY <1>1, <2>5 DEF StartRefused, LocalOK, startup
  <2>6. CASE StartFails(p)
    <3>1. pc'[p] = "finally" BY <1>1, <2>6, GoesKeeps DEF StartFails, Places
    <3>2. lag' \in {lag, [lag EXCEPT ![p] = "pending"]} BY <2>6 DEF StartFails
    <3>3. /\ lag' \in [Procs \union {Old} -> {"no", "pending", "up"}]
          /\ \A q \in Procs \ {p} : lag'[q] = lag[q]
      BY <1>1, <3>2 DEF LocalOK
    <3>4. QED BY <1>1, <2>6, <3>1, <3>3 DEF StartFails, LocalOK, startup
  <2>7. QED BY <2>1, <2>2, <2>3, <2>4, <2>5, <2>6
<1>6. FaultsOK'
  <2>1. CASE Fault BY <1>1, <2>1, FaultKeeps
  <2>2. CASE UNCHANGED faults BY <1>1, <2>2 DEF FaultsOK
  <2>3. QED BY <2>1, <2>2
        DEF ClearAsk, ClearGone, ClearFails, Start, StartRefused, StartFails
<1>7. CacheOK' /\ cache' = cache
  <2>1. UNCHANGED binary
    BY DEF ClearAsk, ClearGone, ClearFails, Start, StartRefused, StartFails
  <2>2. QED BY <1>1, <2>1, SameCache
<1>8. BoxGood(p)' BY <1>2, <1>3, <1>4, <1>5, <1>7 DEF BoxGood
<1>9. AllGood' BY <1>1, <1>3, <1>4, <1>5, <1>7, <1>8, AllGoodStep
<1>10. QED BY <1>3, <1>4, <1>5, <1>6, <1>7, <1>9, PartsPrimed

\* From wsb start's return to wsb stop: control is known, and who owns the
\* sandbox does not change.
LEMMA RunStep ==
    ASSUME IndInv, NEW p \in Procs,
           \/ Control(p) \/ ExecReady(p) \/ NotReady(p) \/ Exec(p) \/ ShareFails(p)
           \/ ExecEnds(p) \/ IdleEnds(p) \/ LifetimeEnds(p) \/ StopAsk(p)
    PROVE  IndInv'
<1>1. PlaceOK /\ LocalOK /\ BoxOK /\ FaultsOK /\ CacheOK /\ AllGood BY Parts
<1>2. BoxGood(p) BY <1>1 DEF AllGood
<1>3. /\ PlaceOK' /\ pc[p] \in {"up", "wait", "share", "run", "finally"}
      /\ pc'[p] \in {"wait", "share", "run", "finally", "stopping"}
      /\ \A q \in Procs \ {p} : pc'[q] = pc[q]
  <2>1. PICK from \in {"up", "wait", "share", "run", "finally"},
             to \in {"wait", "share", "run", "finally", "stopping"} : Goes(p, from, to)
    BY DEF Control, ExecReady, NotReady, Exec, ShareFails, ExecEnds, IdleEnds, LifetimeEnds,
           StopAsk
  <2>2. to \in Places BY DEF Places
  <2>3. QED BY <1>1, <2>1, <2>2, GoesKeeps
<1>4. BoxOK' /\ box'.who = box.who /\ (box.closing => box'.closing)
  <2>1. CASE Exec(p)
    <3>1. (IF reg[p] THEN "offline" ELSE "done") \in Runners BY DEF Runners
    <3>2. QED BY <1>1, <2>1, <3>1 DEF Exec, BoxOK, Boxes
  <2>2. CASE StopAsked(p) BY <1>1, <2>2, StopAskedKeeps
  <2>3. CASE UNCHANGED box BY <1>1, <2>3 DEF BoxOK
  <2>4. QED BY <2>1, <2>2, <2>3
        DEF Control, ExecReady, NotReady, ShareFails, ExecEnds, IdleEnds, LifetimeEnds, StopAsk
<1>5. /\ LocalOK' /\ forced' = forced /\ log' = log
      /\ \A q \in Procs \ {p} : control'[q] = control[q] /\ seen'[q] = seen[q]
      /\ lag' = lag
      /\ (control[p] => control'[p]) /\ (control'[p] => control[p] \/ pc[p] = "up")
      /\ (seen'[p] => seen[p] \/ log[p])
      /\ pc[p] = "up" => control'[p]
  <2>1. CASE Control(p)
    <3>1. control' = [control EXCEPT ![p] = TRUE] /\ UNCHANGED <<seen, log>> /\ pc[p] = "up"
      BY <2>1 DEF Control, Goes
    <3>2. QED BY <1>1, <2>1, <3>1 DEF Control, LocalOK, startup
  <2>2. CASE ExecEnds(p)
    <3>1. (seen[p] \/ log[p]) \in BOOLEAN OBVIOUS
    <3>2. seen' = [seen EXCEPT ![p] = seen[p] \/ log[p]] BY <2>2 DEF ExecEnds
    <3>3. seen' \in [Procs -> BOOLEAN] /\ (seen'[p] <=> seen[p] \/ log[p])
          /\ \A q \in Procs \ {p} : seen'[q] = seen[q]
      BY <1>1, <3>1, <3>2 DEF LocalOK, startup
    <3>4. pc[p] = "run" BY <2>2 DEF ExecEnds, Goes
    <3>5. QED BY <1>1, <2>2, <3>3, <3>4 DEF ExecEnds, LocalOK, startup
  <2>3. CASE /\ UNCHANGED <<target, retried, control, forced, reg, log, seen, lag, startup>>
             /\ pc[p] # "up"
    BY <1>1, <2>3 DEF LocalOK, startup
  <2>4. QED BY <2>1, <2>2, <2>3
        DEF ExecReady, NotReady, Exec, ShareFails, IdleEnds, LifetimeEnds, StopAsk, Goes
<1>6. FaultsOK'
  <2>1. UNCHANGED faults
    BY DEF Control, ExecReady, NotReady, Exec, ShareFails, ExecEnds, IdleEnds, LifetimeEnds,
           StopAsk
  <2>2. QED BY <1>1, <2>1 DEF FaultsOK
<1>7. CacheOK' /\ cache' = cache
  <2>1. UNCHANGED binary
    BY DEF Control, ExecReady, NotReady, Exec, ShareFails, ExecEnds, IdleEnds, LifetimeEnds,
           StopAsk
  <2>2. QED BY <1>1, <2>1, SameCache
<1>8. pc[p] \in {"finally"} => pc'[p] = "stopping"
  BY <1>1, GoesKeeps
     DEF Control, ExecReady, NotReady, Exec, ShareFails, ExecEnds, IdleEnds, LifetimeEnds,
         StopAsk, Places
<1>9. pc'[p] = "stopping" /\ box'.who = p => box'.closing
  <2>1. CASE StopAsk(p) BY <1>1, <2>1, NobodyAssumption, StopAskedKeeps DEF StopAsk
  <2>2. CASE ~StopAsk(p)
    <3>1. pc'[p] # "stopping"
      BY <1>1, <2>2, GoesKeeps
         DEF Control, ExecReady, NotReady, Exec, ShareFails, ExecEnds, IdleEnds, LifetimeEnds,
             Places
    <3>2. QED BY <3>1
  <2>3. QED BY <2>1, <2>2
<1>10. BoxGood(p)' BY <1>2, <1>3, <1>4, <1>5, <1>7, <1>8, <1>9 DEF BoxGood
<1>11. AllGood' BY <1>1, <1>3, <1>4, <1>5, <1>7, <1>10, AllGoodStep
<1>12. QED BY <1>3, <1>4, <1>5, <1>6, <1>7, <1>11, PartsPrimed

\* The log is read, or the force-reap comes: the launch stays where it is.
LEMMA SignalStep ==
    ASSUME IndInv, NEW p \in Procs, JobSeen(p) \/ ForceStop(p) PROVE IndInv'
<1>1. PlaceOK /\ LocalOK /\ BoxOK /\ FaultsOK /\ CacheOK /\ AllGood BY Parts
<1>2. BoxGood(p) BY <1>1 DEF AllGood
<1>3. UNCHANGED <<pc, target, retried, control, reg, log, lag, stale, keep, binary, faults>>
  BY DEF JobSeen, ForceStop, startup
<1>4. PlaceOK' /\ FaultsOK' BY <1>1, <1>3 DEF PlaceOK, FaultsOK
<1>5. CacheOK' /\ cache' = cache BY <1>1, <1>3, SameCache
<1>6. CASE JobSeen(p)
  <2>1. LocalOK' /\ BoxOK' /\ forced' = forced /\ box' = box
        /\ \A q \in Procs \ {p} : seen'[q] = seen[q]
    BY <1>1, <1>3, <1>6 DEF JobSeen, LocalOK, startup, BoxOK
  <2>2. BoxGood(p)' BY <1>2, <1>3, <1>5, <1>6, <2>1 DEF BoxGood, JobSeen
  <2>3. AllGood' BY <1>1, <1>3, <1>5, <2>1, <2>2, AllGoodStep
  <2>4. QED BY <1>4, <1>5, <2>1, <2>3, PartsPrimed
<1>7. CASE ForceStop(p)
  <2>1. /\ BoxOK' /\ box'.who = box.who /\ (box.closing => box'.closing)
        /\ control[p] /\ box.who = p => box'.closing
    <3>1. p # Nobody BY NobodyAssumption
    <3>2. CASE StopAsked(p) BY <1>1, <3>1, <3>2, StopAskedKeeps
    <3>3. CASE ~control[p] /\ UNCHANGED box BY <1>1, <3>3 DEF BoxOK
    <3>4. QED BY <1>7, <3>2, <3>3 DEF ForceStop
  <2>2. /\ LocalOK' /\ seen' = seen /\ \A q \in Procs \ {p} : forced'[q] = forced[q]
        /\ forced'[p] = "asked" => control[p]
    BY <1>1, <1>3, <1>7 DEF ForceStop, LocalOK, startup
  <2>3. BoxGood(p)' BY <1>2, <1>3, <1>5, <2>1, <2>2 DEF BoxGood
  <2>4. AllGood' BY <1>1, <1>3, <1>5, <2>1, <2>2, <2>3, AllGoodStep
  <2>5. QED BY <1>4, <1>5, <2>1, <2>2, <2>4, PartsPrimed
<1>8. QED BY <1>6, <1>7

\* A launch settles, or its process ends: what it leaves is nobody's.
LEMMA EndStep ==
    ASSUME IndInv, NEW p \in Procs, NEW to \in Quiet, Ends(p, to), FaultsOK', CacheOK',
           cache' = cache
    PROVE  IndInv'
<1>1. PlaceOK /\ LocalOK /\ BoxOK /\ FaultsOK /\ CacheOK /\ AllGood BY Parts
<1>2. to \in Places BY DEF Quiet, Places
<1>3. Old # p /\ \A q \in Procs : Old # q BY NobodyAssumption
<1>4. BoxGood(p)' BY <1>1, <1>2, <1>3, EndsKeeps DEF BoxGood, Quiet
<1>5. AllGood' BY <1>1, <1>2, <1>3, <1>4, EndsKeeps, AllGoodStep
<1>6. QED BY <1>1, <1>2, <1>5, EndsKeeps, PartsPrimed

LEMMA SettleStep ==
    ASSUME IndInv, NEW p \in Procs,
           StopGone(p) \/ StopTimesOut(p) \/ StopFails(p) \/ Exits(p) \/ Crash(p)
    PROVE  IndInv'
<1>1. FaultsOK /\ CacheOK BY Parts
<1>2. PICK to \in Quiet : Ends(p, to) BY DEF StopGone, StopTimesOut, StopFails, Exits, Crash, Quiet
<1>3. FaultsOK'
  <2>1. CASE Fault BY <1>1, <2>1, FaultKeeps
  <2>2. CASE UNCHANGED faults BY <1>1, <2>2 DEF FaultsOK
  <2>3. QED BY <2>1, <2>2 DEF StopGone, StopTimesOut, StopFails, Exits, Crash
<1>4. CacheOK' /\ cache' = cache
  <2>1. CASE Cache!Dies(p) BY <1>1, <2>1, UsersAssumption, DiesKeeps
  <2>2. CASE UNCHANGED binary BY <1>1, <2>2, SameCache
  <2>3. QED BY <2>1, <2>2 DEF StopGone, StopTimesOut, StopFails, Exits, Crash
<1>5. QED BY <1>2, <1>3, <1>4, EndStep

\* The cache answers: a binary that is found is whole.
LEMMA HaveStep == ASSUME IndInv, NEW p \in Procs, Have(p) PROVE IndInv'
<1>1. PlaceOK /\ LocalOK /\ BoxOK /\ FaultsOK /\ CacheOK /\ AllGood BY Parts
<1>2. p \in Users /\ Cache!Done(p) BY UsersAssumption DEF Have
<1>3. FaultsOK' BY <1>1, <1>2, CacheFaults
<1>4. CacheOK' /\ cache' = cache BY <1>1, <1>2, CacheKeeps DEF Cache!Done
<1>5. CASE get[p] = "have"
  <2>1. cache = "whole" BY <1>1, <1>2, <1>5 DEF CacheOK, Cache!CacheWhole
  <2>2. /\ pc[p] = "cache" /\ pc' = [pc EXCEPT ![p] = "clear"]
        /\ UNCHANGED <<target, retried, control, forced, reg, log, seen, lag, startup, box>>
    BY <1>5 DEF Have
  <2>3. PlaceOK' /\ pc'[p] = "clear" /\ \A q \in Procs \ {p} : pc'[q] = pc[q]
    BY <1>1, <2>2 DEF PlaceOK, Places
  <2>4. LocalOK' /\ BoxOK' BY <1>1, <2>2 DEF LocalOK, startup, BoxOK
  <2>5. BoxGood(p) => BoxGood(p)' BY <1>4, <2>1, <2>2, <2>3 DEF BoxGood
  <2>6. AllGood' BY <1>1, <1>4, <2>2, <2>3, <2>5, AllGoodStep
  <2>7. QED BY <1>3, <1>4, <2>3, <2>4, <2>6, PartsPrimed
<1>6. CASE get[p] # "have"
  <2>1. Ends(p, "idle") /\ "idle" \in Quiet BY <1>6 DEF Have, Quiet
  <2>2. QED BY <1>3, <1>4, <2>1, EndStep
<1>7. QED BY <1>5, <1>6

\* The cache's users, the sandbox and GitHub.
LEMMA CacheUserStep ==
    ASSUME IndInv, NEW u \in Users, CacheSteps(u) \/ Other(u) PROVE IndInv'
<1>1. PlaceOK /\ LocalOK /\ BoxOK /\ FaultsOK /\ CacheOK /\ AllGood BY Parts
<1>2. UNCHANGED <<launch, box>> /\ (Cache!Ensure(u) \/ Cache!EnsureFails(u) \/ Cache!Done(u))
  BY DEF CacheSteps, Other
<1>3. FaultsOK' /\ CacheOK' /\ (cache = "whole" => cache' = "whole")
  BY <1>1, <1>2, CacheFaults, CacheKeeps
<1>4. PlaceOK' /\ LocalOK' /\ BoxOK' BY <1>1, <1>2 DEF launch, PlaceOK, LocalOK, startup, BoxOK
<1>5. AllGood'
  <2>1. SUFFICES ASSUME NEW q \in Procs PROVE BoxGood(q)'
    BY DEF AllGood
  <2>2. BoxGood(q) BY <1>1 DEF AllGood
  <2>3. QED BY <1>2, <1>3, <2>2, OtherGood DEF launch
<1>6. QED BY <1>3, <1>4, <1>5, PartsPrimed

LEMMA WorldStep ==
    ASSUME IndInv,
           \/ BoxCloses \/ OpenedByHand \/ RunnerConnects \/ JobStarts \/ JobEnds
           \/ UNCHANGED vars
    PROVE  IndInv'
<1>1. PlaceOK /\ LocalOK /\ BoxOK /\ FaultsOK /\ CacheOK /\ AllGood BY Parts
<1>2. UNCHANGED <<pc, target, retried, control, forced, reg, seen, lag, stale, keep, binary>>
  BY DEF BoxCloses, OpenedByHand, RunnerConnects, JobStarts, JobEnds, RunnerMoves, launch,
         startup, binary, vars
<1>3. PlaceOK' /\ CacheOK' /\ cache' = cache BY <1>1, <1>2, SameCache DEF PlaceOK
<1>4. /\ BoxOK'
      /\ \A q \in Procs : box'.who = q => box.who = q /\ (box.closing => box'.closing)
  <2>1. CASE BoxCloses
    <3>1. box' = NoBox BY <2>1 DEF BoxCloses
    <3>2. QED BY <3>1, NobodyAssumption DEF NoBox, BoxOK, Boxes, Owners, Runners
  <2>2. CASE OpenedByHand
    <3>1. box' = [NoBox EXCEPT !.who = Hand] BY <2>2 DEF OpenedByHand
    <3>2. QED BY <3>1, NobodyAssumption DEF NoBox, BoxOK, Boxes, Owners, Runners
  <2>3. CASE RunnerConnects \/ JobStarts \/ JobEnds
    <3>1. PICK from, to \in Runners : RunnerMoves(from, to)
      BY <2>3 DEF RunnerConnects, JobStarts, JobEnds, Runners
    <3>2. QED BY <1>1, <3>1, RunnerMovesKeeps
  <2>4. CASE UNCHANGED vars BY <1>1, <2>4 DEF vars, BoxOK
  <2>5. QED BY <2>1, <2>2, <2>3, <2>4
<1>5. LocalOK' /\ \A q \in Procs : log[q] => log'[q]
  <2>1. CASE JobStarts
    <3>1. \A q \in Procs : (log[q] \/ box.who = q) \in BOOLEAN OBVIOUS
    <3>2. log' = [q \in Procs |-> log[q] \/ box.who = q] BY <2>1 DEF JobStarts
    <3>3. log' \in [Procs -> BOOLEAN] /\ \A q \in Procs : log[q] => log'[q]
      BY <3>1, <3>2
    <3>4. QED BY <1>1, <1>2, <3>3 DEF LocalOK, startup
  <2>2. CASE UNCHANGED log BY <1>1, <1>2, <2>2 DEF LocalOK, startup
  <2>3. QED BY <2>1, <2>2
        DEF BoxCloses, OpenedByHand, RunnerConnects, JobEnds, launch, vars
<1>6. FaultsOK'
  <2>1. CASE Fault BY <1>1, <2>1, FaultKeeps
  <2>2. CASE UNCHANGED faults BY <1>1, <2>2 DEF FaultsOK
  <2>3. QED BY <2>1, <2>2
        DEF BoxCloses, OpenedByHand, RunnerConnects, JobStarts, JobEnds, RunnerMoves, vars
<1>7. AllGood'
  <2>1. SUFFICES ASSUME NEW q \in Procs PROVE BoxGood(q)'
    BY DEF AllGood
  <2>2. BoxGood(q) BY <1>1 DEF AllGood
  <2>3. QED BY <1>2, <1>3, <1>4, <1>5, <2>2, OtherGood
<1>8. QED BY <1>3, <1>4, <1>5, <1>6, <1>7, PartsPrimed

\* A start that was given up: the launch that gave it up is about to stop it,
\* or is no more.
LEMMA LateStep ==
    ASSUME IndInv, NEW w \in Procs \union {Old}, LateStart(w) PROVE IndInv'
<1>1. PlaceOK /\ LocalOK /\ BoxOK /\ FaultsOK /\ CacheOK /\ AllGood BY Parts
<1>2. /\ UNCHANGED <<pc, target, retried, control, forced, reg, log, seen, startup, binary>>
      /\ UNCHANGED faults /\ lag[w] = "pending" /\ lag' = [lag EXCEPT ![w] = "up"]
      /\ box' = [NoBox EXCEPT !.who = w] /\ box.who = Nobody
  BY DEF LateStart
<1>3. PlaceOK' /\ CacheOK' /\ cache' = cache /\ FaultsOK'
  BY <1>1, <1>2, SameCache DEF PlaceOK, FaultsOK
<1>4. LocalOK' /\ lag'[w] = "up" /\ \A q \in Procs \ {w} : lag'[q] = lag[q]
  BY <1>1, <1>2 DEF LocalOK, startup
<1>5. BoxOK' /\ box'.who = w BY <1>2 DEF NoBox, BoxOK, Boxes, Owners, Runners
<1>6. AllGood'
  <2>1. SUFFICES ASSUME NEW q \in Procs PROVE BoxGood(q)'
    BY DEF AllGood
  <2>2. BoxGood(q) BY <1>1 DEF AllGood
  <2>3. CASE q = w
    <3>1. pc[q] \in {"finally", "stopping"} /\ ~control[q] BY <1>2, <2>2, <2>3 DEF BoxGood
    <3>2. forced[q] # "asked" BY <2>2, <3>1 DEF BoxGood
    <3>3. QED BY <1>2, <1>3, <1>4, <2>2, <3>1, <3>2 DEF BoxGood
  <2>4. CASE q # w BY <1>2, <1>3, <1>4, <1>5, <2>2, <2>4, OtherGood
  <2>5. QED BY <2>3, <2>4
<1>7. QED BY <1>3, <1>4, <1>5, <1>6, PartsPrimed

LEMMA InvStep == ASSUME IndInv, [Next]_vars PROVE IndInv'
BY StartupStep, DeleteStep, StartStep, RunStep, SignalStep, SettleStep, HaveStep, CacheUserStep,
   WorldStep, LateStep
   DEF Next, Steps, Fails, Deletes

\* The inductive invariant holds in every state: a sandbox that has an owner
\* is one whose launch has started it and not yet seen it gone, control is
\* handed out only in between, and the cache holds nothing unverified.
THEOREM WindowsInductive == Spec => []IndInv
BY InitInv, InvStep, PTL DEF Spec

\* SharesWhole: a launch shares only a verified binary with its sandbox.
THEOREM BinaryIsWhole == Spec => []SharesWhole
<1>1. IndInv => SharesWhole BY Parts DEF AllGood, BoxGood, SharesWhole
<1>2. QED BY <1>1, WindowsInductive, PTL

-----------------------------------------------------------------------------
LeavesNoSandboxStep ==
    box.who # Old /\ box'.who = Old
        => \/ faults' # faults \/ lag[Old] = "pending"
           \/ \E p \in Procs : box.who = p /\ (forced[p] = "blind" \/ lag[p] = "up")

\* LeavesNoSandbox: a launch that settles and a process that exits leave no
\* sandbox behind, unless a call failed, the force-reap knew no control, or
\* the sandbox came up after its start had been given up.
THEOREM NoSandboxLeft == Spec => LeavesNoSandbox
<1>1. ASSUME IndInv, [Next]_vars PROVE LeavesNoSandboxStep
  <2>1. PlaceOK /\ LocalOK /\ BoxOK /\ FaultsOK /\ CacheOK /\ AllGood BY <1>1, Parts
  <2>2. SUFFICES ASSUME box.who # Old, box'.who = Old, faults' = faults, lag[Old] # "pending",
                        \A p \in Procs : box.who = p => forced[p] # "blind" /\ lag[p] # "up"
                 PROVE  FALSE
    BY DEF LeavesNoSandboxStep
  <2>3. Old # Hand /\ Old # Nobody /\ \A q \in Procs : q # Old BY NobodyAssumption
  <2>4. \A q \in Procs : BoxGood(q) BY <2>1 DEF AllGood
  <2>5. ~Fault BY <2>1, <2>2, FaultKeeps
  <2>6. box' # box BY <2>2
  <2>7. \A w : \A q \in Procs : ~Deletes(q, w) BY <2>1, <2>2, DeletesKeeps
  <2>8. \A who : ~StopAsked(who) BY <2>1, <2>2, StopAskedKeeps
  <2>9. ASSUME NEW from, NEW to \in Runners, RunnerMoves(from, to) PROVE FALSE
    BY <2>1, <2>2, <2>9, RunnerMovesKeeps
  <2>10. ASSUME NEW q \in Procs, NEW to \in Places, Ends(q, to) PROVE box.who = q
    BY <2>1, <2>2, <2>10, EndsKeeps
  <2>11. \A q \in Procs : ~Have(q)
    <3>1. SUFFICES ASSUME NEW q \in Procs, Have(q) PROVE FALSE
      OBVIOUS
    <3>2. Ends(q, "idle") BY <2>6, <3>1 DEF Have
    <3>3. box.who = q /\ pc[q] = "cache" BY <2>10, <3>1, <3>2 DEF Have, Places
    <3>4. QED BY <2>4, <3>3 DEF BoxGood
  <2>12. \A q \in Procs : ~StopGone(q)
    BY <2>10 DEF StopGone, Places
  <2>13. \A q \in Procs : ~Exits(q)
    BY <2>2, <2>10 DEF Exits, Places
  <2>14. \A q \in Procs : ~StopTimesOut(q)
    BY <2>2, <2>4 DEF StopTimesOut, BoxGood
  <2>15. \A q \in Procs : ~Start(q) /\ ~Exec(q)
    <3>1. SUFFICES ASSUME NEW q \in Procs, Start(q) \/ Exec(q) PROVE FALSE
      OBVIOUS
    <3>2. CASE Start(q)
      <4>1. box'.who = q BY <3>2 DEF Start, NoBox
      <4>2. QED BY <2>2, <2>3, <4>1
    <3>3. CASE Exec(q)
      <4>1. box'.who = box.who BY <2>1, <3>3 DEF Exec, BoxOK, Boxes
      <4>2. QED BY <2>2, <4>1
    <3>4. QED BY <3>1, <3>2, <3>3
  <2>16. \A q \in Procs : ~ForceStop(q) BY <2>6, <2>8 DEF ForceStop
  <2>17. ~BoxCloses BY <2>2, <2>3 DEF BoxCloses, NoBox
  <2>18. ~RunnerConnects /\ ~JobStarts /\ ~JobEnds
    BY <2>9 DEF RunnerConnects, JobStarts, JobEnds, Runners
  <2>19. \A q \in Procs : ~Steps(q)
    BY <2>6, <2>7, <2>8, <2>11, <2>12, <2>14, <2>15
    DEF Steps, Deletes, List, Reconciled, ReapAsk, ReapGone, ClearAsk, ClearGone, StartRefused,
        Control, NotReady, ShareFails, ExecEnds, LifetimeEnds, StopAsk
  <2>20. \A q \in Procs : ~Fails(q)
    BY <2>5, <2>7
    DEF Fails, Deletes, ListFails, ReapFails, ClearFails, StartFails, StopFails, Crash
  <2>21. \A q \in Procs : ~Begin(q) /\ ~ExecReady(q) /\ ~JobSeen(q) /\ ~IdleEnds(q)
    BY <2>6 DEF Begin, ExecReady, JobSeen, IdleEnds
  <2>22. ~OpenedByHand BY <2>5 DEF OpenedByHand
  <2>23. \A w \in Procs \union {Old} : ~LateStart(w)
    <3>1. SUFFICES ASSUME NEW w \in Procs \union {Old}, LateStart(w) PROVE FALSE
      OBVIOUS
    <3>2. box'.who = w /\ lag[w] = "pending" BY <3>1 DEF LateStart, NoBox
    <3>3. QED BY <2>2, <3>2
  <2>24. \A u \in Users : ~CacheSteps(u) /\ ~Other(u) BY <2>6 DEF CacheSteps, Other
  <2>25. QED
    BY <1>1, <2>6, <2>13, <2>16, <2>17, <2>18, <2>19, <2>20, <2>21, <2>22, <2>23, <2>24
       DEF Next, vars
<1>2. LeavesNoSandbox <=> [][LeavesNoSandboxStep]_vars
  BY DEF LeavesNoSandbox, LeavesNoSandboxStep
<1>3. QED BY <1>1, <1>2, WindowsInductive, PTL DEF Spec

-----------------------------------------------------------------------------
\* Only a launch's sandbox has a runner.
HandIdle == box.who \in {Nobody, Hand} => box.runner = "none"

\* From the listing that protects nothing to the reaper's wsb list, a runner
\* that is left is one whose registration is still to be deleted; a job that
\* it takes before refuses the deletion.  One process: nobody starts another.
SparedAt(p) ==
    /\ pc[p] = "delete" /\ ~keep[p] => box.runner \in {"none", "done"} \/ box.who \in stale[p]
    /\ pc[p] = "reap" => box.runner \in {"none", "done"}

Spared == HandIdle /\ \A p \in Procs : SparedAt(p)

LEMMA SparedInit == Init => Spared
<1> SUFFICES ASSUME Init PROVE Spared
  OBVIOUS
<1>1. HandIdle BY DEF Init, HandIdle, NoBox
<1>2. \A p \in Procs : pc[p] = "boot" BY DEF Init
<1>3. QED BY <1>1, <1>2 DEF Spared, SparedAt

LEMMA HandIdleStep == ASSUME IndInv, HandIdle, [Next]_vars PROVE HandIdle'
<1>1. PlaceOK /\ LocalOK /\ BoxOK /\ FaultsOK /\ CacheOK /\ AllGood BY Parts
<1>2. box \in Boxes BY <1>1 DEF BoxOK
<1>3. CASE box'.who = box.who /\ box'.runner = box.runner BY <1>3 DEF HandIdle
<1>4. CASE UNCHANGED box BY <1>4 DEF HandIdle
<1>5. CASE \E who : StopAsked(who) BY <1>1, <1>3, <1>5, StopAskedKeeps
<1>6. CASE \E who \in Owners : box' = [NoBox EXCEPT !.who = who] BY <1>6 DEF HandIdle, NoBox
<1>7. ASSUME NEW p \in Procs, NEW to \in Places, Ends(p, to) PROVE HandIdle'
  <2>1. box'.who = (IF box.who = p THEN Old ELSE box.who) /\ box'.runner = box.runner
    BY <1>1, <1>7, EndsKeeps
  <2>2. QED BY <2>1, NobodyAssumption DEF HandIdle
<1>8. ASSUME NEW p \in Procs, NEW w, Deletes(p, w) PROVE HandIdle'
  <2>1. CASE Delete(p, w) BY <1>2, <2>1 DEF Delete, HandIdle, Boxes
  <2>2. QED BY <1>4, <1>8, <2>1 DEF Deletes, DeleteRefused, DeleteFails
<1>9. ASSUME NEW from \in Runners \ {"none"}, NEW to \in Runners, RunnerMoves(from, to)
      PROVE  HandIdle'
  BY <1>1, <1>9, RunnerMovesKeeps DEF HandIdle
<1>10. ASSUME NEW p \in Procs, Exec(p) PROVE HandIdle'
  <2>1. box.who = p /\ box'.who = box.who BY <1>2, <1>10 DEF Exec, Mine, Boxes
  <2>2. QED BY <2>1, NobodyAssumption DEF HandIdle
<1>11. ASSUME NEW p \in Procs,
              \/ StopGone(p) \/ StopTimesOut(p) \/ StopFails(p) \/ Exits(p) \/ Crash(p) \/ Have(p)
       PROVE  HandIdle'
  BY <1>4, <1>7, <1>11 DEF StopGone, StopTimesOut, StopFails, Exits, Crash, Have, Places
<1>12. ASSUME NEW p \in Procs, Start(p) \/ StartFails(p) PROVE HandIdle'
  BY <1>4, <1>6, <1>12 DEF Start, StartFails, Owners
<1>13. ASSUME NEW p \in Procs, Steps(p) PROVE HandIdle'
  BY <1>4, <1>5, <1>8, <1>10, <1>11, <1>12, <1>13
     DEF Steps, Deletes, List, Reconciled, ReapAsk, ReapGone, ClearAsk, ClearGone, StartRefused,
         Control, NotReady, ShareFails, ExecEnds, LifetimeEnds, StopAsk
<1>14. ASSUME NEW p \in Procs, Fails(p) PROVE HandIdle'
  BY <1>4, <1>8, <1>11, <1>12, <1>14 DEF Fails, Deletes, ListFails, ReapFails, ClearFails
<1>15. ASSUME NEW p \in Procs,
              Begin(p) \/ ExecReady(p) \/ JobSeen(p) \/ IdleEnds(p) \/ ForceStop(p)
       PROVE  HandIdle'
  BY <1>4, <1>5, <1>15 DEF Begin, ExecReady, JobSeen, IdleEnds, ForceStop
<1>16. CASE \E u \in Users : CacheSteps(u) \/ Other(u) BY <1>4, <1>16 DEF CacheSteps, Other
<1>17. CASE BoxCloses BY <1>17 DEF BoxCloses, HandIdle, NoBox
<1>18. CASE OpenedByHand \/ \E w \in Procs \union {Old} : LateStart(w)
  BY <1>6, <1>18 DEF OpenedByHand, LateStart, Owners
<1>19. CASE RunnerConnects \/ JobStarts \/ JobEnds
  BY <1>9, <1>19 DEF RunnerConnects, JobStarts, JobEnds, Runners
<1>20. CASE UNCHANGED vars BY <1>4, <1>20 DEF vars
<1>21. QED BY <1>11, <1>13, <1>14, <1>15, <1>16, <1>17, <1>18, <1>19, <1>20 DEF Next

\* The listing, the deletions and the decision.
LEMMA ListSpares ==
    ASSUME IndInv, HandIdle, NEW p \in Procs, \A q \in Procs : q = p, List(p)
    PROVE  SparedAt(p)'
<1>1. PlaceOK /\ LocalOK /\ BoxOK /\ FaultsOK /\ CacheOK /\ AllGood BY Parts
<1>2. pc[p] = "boot" /\ pc'[p] = "delete" BY <1>1, GoesKeeps DEF List, Places
<1>3. /\ box' = box /\ stale'[p] = Offline
      /\ keep'[p] = (box.runner \in {"online", "job"})
  BY <1>1 DEF List, LocalOK
<1>4. box.who # p BY <1>1, <1>2 DEF AllGood, BoxGood
<1>5. ASSUME box.runner = "offline" PROVE box.who \in Offline
  <2>1. box.who \in Procs \union {Nobody, Old, Hand} BY <1>1 DEF BoxOK, Boxes, Owners
  <2>2. box.who = Old BY <1>4, <1>5, <2>1 DEF HandIdle
  <2>3. QED BY <1>5, <2>2 DEF Offline
<1>6. box.runner \in Runners BY <1>1 DEF BoxOK, Boxes
<1>7. QED BY <1>2, <1>3, <1>5, <1>6 DEF SparedAt, Runners

LEMMA DeleteSpares ==
    ASSUME IndInv, NEW p \in Procs, SparedAt(p), NEW w, Deletes(p, w)
    PROVE  SparedAt(p)'
<1>1. PlaceOK /\ LocalOK /\ BoxOK /\ FaultsOK /\ CacheOK /\ AllGood BY Parts
<1>2. pc[p] = "delete" /\ pc' = pc /\ box'.who = box.who BY <1>1, DeletesKeeps
<1>3. CASE Delete(p, w)
  <2>1. stale'[p] = stale[p] \ {w} /\ keep' = keep BY <1>1, <1>3 DEF Delete, Handled, LocalOK
  <2>2. box'.runner = (IF box.who = w /\ box.runner # "none" THEN "done" ELSE box.runner)
    BY <1>1, <1>3 DEF Delete, BoxOK, Boxes
  <2>3. QED BY <1>2, <2>1, <2>2 DEF SparedAt
<1>4. CASE DeleteRefused(p, w) \/ DeleteFails(p, w)
  <2>1. keep'[p] BY <1>1, <1>4 DEF DeleteRefused, DeleteFails, LocalOK
  <2>2. QED BY <1>2, <2>1 DEF SparedAt
<1>5. QED BY <1>3, <1>4 DEF Deletes

LEMMA SparedStep ==
    ASSUME IndInv, Spared, [Next]_vars, \A p, q \in Procs : p = q PROVE Spared'
<1>1. PlaceOK /\ LocalOK /\ BoxOK /\ FaultsOK /\ CacheOK /\ AllGood BY Parts
<1>2. HandIdle' BY HandIdleStep DEF Spared
<1>3. SUFFICES ASSUME NEW p \in Procs, pc'[p] \in {"delete", "reap"} PROVE SparedAt(p)'
  BY <1>2 DEF Spared, SparedAt
<1>4. SparedAt(p) /\ HandIdle /\ \A q \in Procs : q = p BY DEF Spared
<1>5. ASSUME UNCHANGED <<pc, startup>>, box'.runner = box.runner, box'.who = box.who
      PROVE  SparedAt(p)'
  BY <1>4, <1>5 DEF SparedAt, startup
<1>6. ASSUME UNCHANGED <<pc, startup>>, box'.runner = "none" PROVE SparedAt(p)'
  BY <1>6 DEF SparedAt
<1>7. CASE List(p) BY <1>4, <1>7, ListSpares
<1>8. CASE ListFails(p)
  <2>1. pc'[p] = "delete" /\ keep'[p]
    BY <1>1, <1>8, GoesKeeps DEF ListFails, LocalOK, Places
  <2>2. QED BY <2>1 DEF SparedAt
<1>9. ASSUME NEW w, Deletes(p, w) PROVE SparedAt(p)' BY <1>4, <1>9, DeleteSpares
<1>10. CASE Reconciled(p)
  <2>1. CASE keep[p] BY <1>1, <1>3, <1>10, <2>1, GoesKeeps DEF Reconciled, Places
  <2>2. CASE ~keep[p]
    <3>1. pc[p] = "delete" /\ pc'[p] = "reap" /\ stale[p] = {} /\ box' = box
      BY <1>1, <1>10, <2>2, GoesKeeps DEF Reconciled, Places
    <3>2. QED BY <1>4, <2>2, <3>1 DEF SparedAt
  <2>3. QED BY <2>1, <2>2
<1>11. CASE BoxCloses \/ OpenedByHand \/ \E w \in Procs \union {Old} : LateStart(w)
  <2>1. UNCHANGED <<pc, startup>> BY <1>11 DEF BoxCloses, OpenedByHand, LateStart, launch
  <2>2. box'.runner = "none" BY <1>11 DEF BoxCloses, OpenedByHand, LateStart, NoBox
  <2>3. QED BY <1>6, <2>1, <2>2
<1>12. CASE RunnerConnects \/ JobStarts \/ JobEnds
  <2>1. UNCHANGED <<pc, startup>> BY <1>12 DEF RunnerConnects, JobStarts, JobEnds, launch
  <2>2. PICK from \in {"offline", "online", "job"}, to \in Runners : RunnerMoves(from, to)
    BY <1>12 DEF RunnerConnects, JobStarts, JobEnds, Runners
  <2>3. box'.who = box.who /\ box.runner \in {"offline", "online", "job"}
    BY <1>1, <2>2, RunnerMovesKeeps
  <2>4. QED BY <1>4, <2>1, <2>3 DEF SparedAt, startup
<1>13. ASSUME NEW from, NEW to \in Places \ {"delete", "reap"}, Goes(p, from, to) PROVE FALSE
  BY <1>1, <1>3, <1>13, GoesKeeps
<1>14. ASSUME NEW to \in Places \ {"delete", "reap"}, Ends(p, to) PROVE FALSE
  BY <1>1, <1>3, <1>14, EndsKeeps
<1>15. CASE Fails(p)
  BY <1>8, <1>9, <1>13, <1>14, <1>15
     DEF Fails, Deletes, ReapFails, ClearFails, StartFails, StopFails, Crash, Places
<1>16. CASE Have(p)
  <2>1. get[p] = "have" BY <1>14, <1>16 DEF Have, Places
  <2>2. QED BY <1>1, <1>3, <1>16, <2>1 DEF Have, PlaceOK
<1>17. CASE ForceStop(p)
  <2>1. UNCHANGED <<pc, startup>> BY <1>17 DEF ForceStop
  <2>2. QED BY <1>3, <1>17, <2>1 DEF ForceStop
<1>18. ~Exits(p) /\ ~StopGone(p) /\ ~StopTimesOut(p)
  BY <1>14 DEF Exits, StopGone, StopTimesOut, Places
<1>19. CASE Steps(p)
  BY <1>7, <1>9, <1>10, <1>13, <1>16, <1>18, <1>19
     DEF Steps, Deletes, ReapAsk, ReapGone, ClearAsk, ClearGone, Start, StartRefused, Control,
         NotReady, Exec, ShareFails, ExecEnds, LifetimeEnds, StopAsk, Places
<1>20. CASE Begin(p) \/ ExecReady(p) \/ IdleEnds(p)
  BY <1>13, <1>20 DEF Begin, ExecReady, IdleEnds, Places
<1>21. CASE JobSeen(p) BY <1>5, <1>21 DEF JobSeen
<1>22. CASE \E u \in Users : CacheSteps(u) \/ Other(u)
  BY <1>5, <1>22 DEF CacheSteps, Other, launch
<1>23. CASE UNCHANGED vars BY <1>5, <1>23 DEF vars, launch
<1>24. QED
  BY <1>4, <1>11, <1>12, <1>15, <1>17, <1>18, <1>19, <1>20, <1>21, <1>22, <1>23 DEF Next

ReapSparesJobsStep == \A p \in Procs : ReapAsk(p) /\ box.who = Old => box.runner # "job"

\* ReapSparesJobs: with one dispatcher process on the host, no startup takes
\* the sandbox of a job that outlived the dispatcher before.
THEOREM JobsSpared ==
    ASSUME \A p, q \in Procs : p = q
    PROVE  Spec => ReapSparesJobs
<1>1. Init => IndInv /\ Spared BY InitInv, SparedInit
<1>2. IndInv /\ Spared /\ [Next]_vars => (IndInv /\ Spared)' BY InvStep, SparedStep
<1>3. Spared => ReapSparesJobsStep BY DEF Spared, SparedAt, ReapSparesJobsStep, ReapAsk, Goes
<1>4. ReapSparesJobs <=> [][ReapSparesJobsStep]_vars BY DEF ReapSparesJobs, ReapSparesJobsStep
<1>5. QED BY <1>1, <1>2, <1>3, <1>4, PTL DEF Spec

-----------------------------------------------------------------------------
(***************************************************************************)
(* What LaunchesEnd and StaleNeverBlocks rest on: stopSandbox asks before  *)
(* it waits, and what it waits for cannot come back under the same name.   *)
(***************************************************************************)
\* The reaper and clearStaleSandboxes have a target only while they wait, and
\* it is closing or gone.  (IndInv says it of a launch's own sandbox.)
WaitGood(p) ==
    target[p] # Nobody =>
        pc[p] \in {"reaped", "cleared"} /\ (box.who = target[p] => box.closing)

WaitsEnd == \A p \in Procs : WaitGood(p)

LEMMA WaitsInit == Init => WaitsEnd
<1> SUFFICES ASSUME Init, NEW p \in Procs PROVE WaitGood(p)
  BY DEF WaitsEnd
<1>1. pc[p] = "boot" /\ target[p] = Nobody BY DEF Init
<1>2. QED BY <1>1 DEF WaitGood

\* The target is asked to stop before the wait for it begins.
LEMMA AskWaits ==
    ASSUME IndInv, NEW p \in Procs, ReapAsk(p) \/ ClearAsk(p) PROVE WaitGood(p)'
<1>1. PlaceOK /\ LocalOK /\ BoxOK BY Parts
<1>2. target' = [target EXCEPT ![p] = box.who] /\ StopAsked(box.who)
  BY DEF ReapAsk, ClearAsk
<1>3. target'[p] = box.who BY <1>1, <1>2 DEF LocalOK, startup
<1>4. box'.who = box.who /\ (box.who # Nobody => box'.closing) BY <1>1, <1>2, StopAskedKeeps
<1>5. pc'[p] \in {"reaped", "cleared"} BY <1>1, GoesKeeps DEF ReapAsk, ClearAsk, Places
<1>6. QED BY <1>3, <1>4, <1>5 DEF WaitGood

\* A wait that is over, and a launch or a process that ends, forget the target.
LEMMA ForgetWaits ==
    ASSUME IndInv, NEW p \in Procs,
           \/ ReapGone(p) \/ ReapFails(p) \/ ClearGone(p) \/ ClearFails(p)
           \/ \E to \in Places : Ends(p, to)
    PROVE  WaitGood(p)'
<1>1. PlaceOK /\ LocalOK /\ BoxOK BY Parts
<1>2. target' = [target EXCEPT ![p] = Nobody]
  BY DEF ReapGone, ReapFails, ClearGone, ClearFails, Ends
<1>3. target'[p] = Nobody BY <1>1, <1>2 DEF LocalOK, startup
<1>4. QED BY <1>3 DEF WaitGood

\* A launch that goes on from where it waits for nothing has no target.
LEMMA OnwardWaits ==
    ASSUME IndInv, NEW p \in Procs, WaitGood(p), target' = target,
           NEW from \in Places \ {"reaped", "cleared"}, NEW to \in Places, Goes(p, from, to)
    PROVE  WaitGood(p)'
<1>1. pc[p] = from /\ pc'[p] = to BY Parts, GoesKeeps
<1>2. target[p] = Nobody BY <1>1 DEF WaitGood
<1>3. QED BY <1>1, <1>2 DEF WaitGood

\* The sandbox goes, or stays as closing as it was; a new one has a name that
\* nobody waits for.
LEMMA WorldWaits ==
    ASSUME NEW p \in Procs, WaitGood(p), pc'[p] = pc[p], target'[p] = target[p],
           \/ box'.who = box.who /\ (box.closing => box'.closing)
           \/ box'.who = Nobody
           \/ box'.who # target[p]
    PROVE  WaitGood(p)'
BY NobodyAssumption DEF WaitGood

LEMMA OnwardSteps ==
    ASSUME IndInv, NEW p \in Procs, WaitGood(p),
           \/ List(p) \/ ListFails(p) \/ Reconciled(p) \/ Begin(p) \/ Start(p)
           \/ StartRefused(p) \/ StartFails(p) \/ Control(p) \/ NotReady(p) \/ ExecReady(p)
           \/ Exec(p) \/ ShareFails(p) \/ ExecEnds(p) \/ IdleEnds(p) \/ LifetimeEnds(p)
           \/ StopAsk(p)
    PROVE  WaitGood(p)'
<1>1. target' = target
  BY DEF List, ListFails, Reconciled, Begin, Start, StartRefused, StartFails, Control,
         NotReady, ExecReady, Exec, ShareFails, ExecEnds, IdleEnds, LifetimeEnds, StopAsk
<1>2. \E from \in Places \ {"reaped", "cleared"}, to \in Places : Goes(p, from, to)
  BY DEF List, ListFails, Reconciled, Begin, Start, StartRefused, StartFails, Control, NotReady,
         ExecReady, Exec, ShareFails, ExecEnds, IdleEnds, LifetimeEnds, StopAsk, Places
<1>3. QED BY <1>1, <1>2, OnwardWaits

LEMMA WaitsStep ==
    ASSUME IndInv, WaitsEnd, [Next]_vars, \A p, q \in Procs : p = q PROVE WaitsEnd'
<1>1. PlaceOK /\ LocalOK /\ BoxOK BY Parts
<1>2. SUFFICES ASSUME NEW p \in Procs PROVE WaitGood(p)'
  BY DEF WaitsEnd
<1>3. WaitGood(p) /\ \A q \in Procs : q = p BY DEF WaitsEnd
<1>4. ASSUME NEW to \in Places, Ends(p, to) PROVE WaitGood(p)'
  BY <1>4, ForgetWaits
<1>5. CASE Have(p)
  <2>1. CASE get[p] = "have"
    <3>1. pc[p] = "cache" /\ pc' = [pc EXCEPT ![p] = "clear"] /\ target' = target
      BY <1>5, <2>1 DEF Have
    <3>2. Goes(p, "cache", "clear") BY <3>1 DEF Goes
    <3>3. QED BY <1>3, <3>1, <3>2, OnwardWaits DEF Places
  <2>2. CASE get[p] # "have" BY <1>4, <1>5, <2>2 DEF Have, Places
  <2>3. QED BY <2>1, <2>2
<1>6. CASE StopGone(p) \/ StopTimesOut(p) \/ StopFails(p) \/ Exits(p) \/ Crash(p)
  BY <1>4, <1>6 DEF StopGone, StopTimesOut, StopFails, Exits, Crash, Places
<1>18. ASSUME NEW w, Deletes(p, w) PROVE WaitGood(p)'
  <2>1. UNCHANGED <<pc, target>> /\ box'.who = box.who /\ box'.closing = box.closing
    BY <1>1, <1>18, Parts, DeletesKeeps
  <2>2. QED BY <1>3, <2>1, WorldWaits
<1>7. CASE Steps(p) \/ Fails(p)
  BY <1>3, <1>5, <1>6, <1>7, <1>18, OnwardSteps, AskWaits, ForgetWaits
     DEF Steps, Fails, Deletes
<1>8. CASE Begin(p) \/ ExecReady(p) \/ IdleEnds(p) BY <1>3, <1>8, OnwardSteps
<1>9. CASE UNCHANGED <<pc, target, box>> BY <1>3, <1>9, WorldWaits
<1>10. CASE JobSeen(p) BY <1>9, <1>10 DEF JobSeen
<1>11. CASE ForceStop(p)
  <2>1. UNCHANGED <<pc, target>> BY <1>11 DEF ForceStop
  <2>2. CASE StopAsked(p) BY <1>1, <1>3, <2>1, <2>2, StopAskedKeeps, WorldWaits
  <2>3. CASE UNCHANGED box BY <1>9, <2>1, <2>3
  <2>4. QED BY <1>11, <2>2, <2>3 DEF ForceStop
<1>12. CASE \E u \in Users : CacheSteps(u) \/ Other(u)
  BY <1>9, <1>12 DEF CacheSteps, Other, launch
<1>13. CASE BoxCloses \/ OpenedByHand \/ \E w \in Procs \union {Old} : LateStart(w)
  <2>1. UNCHANGED <<pc, target>> BY <1>13 DEF BoxCloses, OpenedByHand, LateStart, launch
  <2>2. box'.who = Nobody \/ box'.who # target[p]
    BY <1>13 DEF BoxCloses, OpenedByHand, LateStart, NoBox
  <2>3. QED BY <1>3, <2>1, <2>2, WorldWaits
<1>14. CASE RunnerConnects \/ JobStarts \/ JobEnds
  <2>1. UNCHANGED <<pc, target>>
    BY <1>14 DEF RunnerConnects, JobStarts, JobEnds, launch
  <2>2. PICK from, to \in Runners : RunnerMoves(from, to)
    BY <1>14 DEF RunnerConnects, JobStarts, JobEnds, Runners
  <2>3. box'.who = box.who /\ box'.closing = box.closing BY <1>1, <2>2, RunnerMovesKeeps
  <2>4. QED BY <1>3, <2>1, <2>3, WorldWaits
<1>15. CASE UNCHANGED vars BY <1>9, <1>15 DEF vars, launch
<1>16. QED
  BY <1>3, <1>6, <1>7, <1>8, <1>10, <1>11, <1>12, <1>13, <1>14, <1>15 DEF Next

\* windows.js, stopSandbox: with one dispatcher process on the host nobody
\* waits for a sandbox to be gone that was not asked to stop, whatever crashes
\* and whoever opens a sandbox by hand in between.
THEOREM NoWaitInVain ==
    ASSUME \A p, q \in Procs : p = q
    PROVE  Spec => []WaitsEnd
<1>1. Init => IndInv /\ WaitsEnd BY InitInv, WaitsInit
<1>2. IndInv /\ WaitsEnd /\ [Next]_vars => (IndInv /\ WaitsEnd)' BY InvStep, WaitsStep
<1>3. QED BY <1>1, <1>2, PTL DEF Spec
=============================================================================
