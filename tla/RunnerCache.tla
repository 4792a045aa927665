---------------------------- MODULE RunnerCache ----------------------------
(***************************************************************************)
(* ensureRunnerBinary of src/runner.js: the runner binary of one version   *)
(* is looked up in the cache, else downloaded and unpacked in a temporary  *)
(* directory of the caller's own, verified, and renamed into place.  Users *)
(* are launches and processes that do this at the same time.  A temporary  *)
(* directory that a crash leaves behind is never looked at again.          *)
(***************************************************************************)
EXTENDS Naturals

CONSTANTS Users, MaxFaults

VARIABLES
    get,    \* where each user is in ensureRunnerBinary
    temp,   \* what it downloaded: "none", "whole", "bad"
    cache,  \* what the destination holds
    faults

cacheVars == <<get, temp, cache, faults>>

Init ==
    /\ get = [u \in Users |-> "idle"] /\ temp = [u \in Users |-> "none"]
    /\ cache = "none"

Fault == faults < MaxFaults /\ faults' = faults + 1

Look(u) ==
    /\ get[u] = "idle"
    /\ get' = [get EXCEPT ![u] = IF cache # "none" THEN "have" ELSE "fetch"]
    /\ UNCHANGED <<temp, cache, faults>>

Download(u) ==
    /\ get[u] = "fetch"
    /\ get' = [get EXCEPT ![u] = "verify"]
    /\ temp' = [temp EXCEPT ![u] = "whole"]
    /\ UNCHANGED <<cache, faults>>

\* Mutant: the archive is unpacked where the binary is looked up.
DownloadInPlace(u) ==
    /\ get[u] = "fetch" /\ Fault
    /\ get' = [get EXCEPT ![u] = "verify"]
    /\ temp' = [temp EXCEPT ![u] = "bad"] /\ cache' = "bad"

\* It answers with something else, or less.
DownloadCorrupt(u) ==
    /\ get[u] = "fetch" /\ Fault
    /\ get' = [get EXCEPT ![u] = "verify"]
    /\ temp' = [temp EXCEPT ![u] = "bad"]
    /\ UNCHANGED cache

FetchFails(u) ==
    /\ get[u] \in {"idle", "fetch", "verify"} /\ Fault
    /\ get' = [get EXCEPT ![u] = "failed"]
    /\ temp' = [temp EXCEPT ![u] = "none"]
    /\ UNCHANGED cache

\* The digest, then the unpacked run script.
Verify(u) ==
    /\ get[u] = "verify"
    /\ get' = [get EXCEPT ![u] = IF temp[u] = "whole" THEN "place" ELSE "failed"]
    /\ temp' = [temp EXCEPT ![u] = IF @ = "whole" THEN @ ELSE "none"]
    /\ UNCHANGED <<cache, faults>>

\* The rename fails when another user was faster, whose binary is taken.
Place(u) ==
    /\ get[u] = "place"
    /\ get' = [get EXCEPT ![u] = "have"]
    /\ cache' = IF cache = "none" THEN temp[u] ELSE cache
    /\ temp' = [temp EXCEPT ![u] = "none"]
    /\ UNCHANGED faults

\* The caller has its answer.
Done(u) ==
    /\ get[u] \in {"have", "failed"}
    /\ get' = [get EXCEPT ![u] = "idle"]
    /\ UNCHANGED <<temp, cache, faults>>

\* The process dies.
Dies(u) ==
    /\ get' = [get EXCEPT ![u] = "idle"] /\ temp' = [temp EXCEPT ![u] = "none"]
    /\ UNCHANGED cache

Ensure(u) == Look(u) \/ Download(u) \/ Verify(u) \/ Place(u)
EnsureFails(u) == DownloadCorrupt(u) \/ FetchFails(u)

TypeOK ==
    /\ get \in [Users -> {"idle", "fetch", "verify", "place", "have", "failed"}]
    /\ temp \in [Users -> {"none", "whole", "bad"}]
    /\ cache \in {"none", "whole", "bad"}

\* What is renamed is verified, so what anyone finds is whole.
CacheWhole ==
    /\ cache # "bad"
    /\ \A u \in Users : get[u] = "have" => cache = "whole"
    /\ \A u \in Users : get[u] = "place" => temp[u] = "whole"
=============================================================================
