----------------------------- MODULE GithubApi -----------------------------
(***************************************************************************)
(* api() of src/github.js and what its calls share: the cached token and   *)
(* the one resolution of it, the rate-limit pause, and the ETag cache (one *)
(* key of it; other keys may evict it).  Between two awaits the code runs  *)
(* alone, so a step goes from one await to the next.  Time is what is left *)
(* of the pause and of the gate each call waits on.                        *)
(*                                                                         *)
(* External: GitHub and the credential store (token, version).  An older   *)
(* token is refused from the moment the newest exists.                     *)
(***************************************************************************)
EXTENDS Integers

CONSTANTS
    Calls,                      \* the calls of api(), in parallel
    Abortable,                  \* those made with a signal
    MAX_RATE_LIMIT_RETRIES,
    Cap,                        \* the longest pause (60 s)
    MaxToken,                   \* bound: tokens are 1 .. MaxToken
    MaxVersion                  \* bound: versions of the resource

ASSUME RetriesAssumption == MAX_RATE_LIMIT_RETRIES \in Nat
ASSUME CapAssumption == Cap \in Nat
ASSUME TokenAssumption == MaxToken \in Nat \ {0}
ASSUME VersionAssumption == MaxVersion \in Nat \ {0}
ASSUME AbortableAssumption == Abortable \subseteq Calls

VARIABLES
    pc,             \* what each call awaits, or how it ended
    tok,            \* the token it sends; 0: none yet
    held,           \* the ETag and data it found in the cache; 0: none
    retriedAuth, attempt,
    gate,           \* what is left of the gate it waits on
    sends,          \* requests it has sent
    reply,          \* GitHub's answer to the last of them
    got,            \* the data it returned
    cachedToken, stale,         \* 0: undefined; older than TOKEN_CACHE_TTL_MS
    resolution,     \* tokenResolution: 0 none, -1 running, or the token read
    pause,          \* what is left until rateLimitPausedUntil
    etag,           \* the cache entry; 0: none
    told,           \* what is left of the longest wait GitHub asked for
    env,            \* the token comes from GH_TOKEN
    token, version

calls == <<pc, tok, held, retriedAuth, attempt, gate, sends, reply, got>>
auth == <<cachedToken, stale, resolution>>
limits == <<pause, told>>
world == <<env, token, version>>
vars == <<calls, auth, limits, etag, world>>

Waits == 0 .. Cap
Tokens == 1 .. MaxToken
Versions == 1 .. MaxVersion
Ended == {"ok", "limited", "refused", "failed", "aborted"}
NoReply == [kind |-> "none", wait |-> 0, data |-> 0]

Init ==
    /\ pc = [c \in Calls |-> "idle"] /\ tok = [c \in Calls |-> 0]
    /\ held = [c \in Calls |-> 0] /\ retriedAuth = [c \in Calls |-> FALSE]
    /\ attempt = [c \in Calls |-> 0] /\ gate = [c \in Calls |-> 0]
    /\ sends = [c \in Calls |-> 0] /\ reply = [c \in Calls |-> NoReply]
    /\ got = [c \in Calls |-> 0]
    /\ cachedToken = 0 /\ stale = FALSE /\ resolution = 0
    /\ pause = 0 /\ told = 0 /\ etag = 0
    /\ env \in BOOLEAN /\ token = 1 /\ version = 1

(***************************************************************************)
(* awaitRateLimit and the request, the token, the pause                    *)
(***************************************************************************)
\* The calls S go on to awaitRateLimit when `left` is what is left of the
\* pause: into the gate, or at once to their next request.
Proceed(S, left) ==
    /\ pc' = [c \in Calls |-> IF c \notin S THEN pc[c] ELSE IF left > 0 THEN "gated" ELSE "sent"]
    /\ gate' = [c \in Calls |-> IF c \in S THEN left ELSE gate[c]]
    /\ sends' = [c \in Calls |-> IF c \in S /\ left = 0 THEN sends[c] + 1 ELSE sends[c]]

Ends(c, how) ==
    /\ pc' = [pc EXCEPT ![c] = how]
    /\ UNCHANGED <<gate, sends>>

\* getToken joins the resolution under way, or starts one.
Joins(c) ==
    /\ resolution' = IF resolution = 0 THEN -1 ELSE resolution
    /\ Ends(c, IF pc[c] = "idle" THEN "token" ELSE "refresh")
    /\ UNCHANGED tok

UseToken(c, t) == tok' = [tok EXCEPT ![c] = t] /\ Proceed({c}, pause)

PauseRateLimit(d) ==
    /\ pause' = IF d > pause THEN d ELSE pause
    /\ told' = IF d > told THEN d ELSE told

(***************************************************************************)
(* A call                                                                  *)
(***************************************************************************)
Begin(c) ==
    /\ pc[c] = "idle"
    /\ IF cachedToken # 0 /\ ~stale
          THEN /\ UseToken(c, cachedToken) /\ held' = [held EXCEPT ![c] = etag]
               /\ UNCHANGED resolution
          ELSE Joins(c) /\ UNCHANGED held
    /\ UNCHANGED <<retriedAuth, attempt, reply, got, cachedToken, stale, limits, etag, world>>

Reads ==
    /\ resolution = -1 /\ resolution' = IF env THEN 1 ELSE token
    /\ UNCHANGED <<calls, cachedToken, stale, limits, etag, world>>

Waiting == {c \in Calls : pc[c] \in {"token", "refresh"}}

\* cacheToken; every call that waits for the resolution goes on with it.
Resolves ==
    /\ resolution > 0
    /\ cachedToken' = resolution /\ stale' = FALSE /\ resolution' = 0
    /\ tok' = [c \in Calls |-> IF c \in Waiting THEN resolution ELSE tok[c]]
    /\ held' = [c \in Calls |-> IF pc[c] = "token" THEN etag ELSE held[c]]
    /\ Proceed(Waiting, pause)
    /\ UNCHANGED <<retriedAuth, attempt, reply, got, limits, etag, world>>

\* Mutant: a failure reaches nobody.
ResolveFailsUnheard ==
    /\ resolution = -1 /\ resolution' = 0
    /\ UNCHANGED <<calls, cachedToken, stale, limits, etag, world>>

\* gh or PowerShell failed: the waiting calls reject.
ResolveFails ==
    /\ resolution = -1 /\ resolution' = 0
    /\ pc' = [c \in Calls |-> IF c \in Waiting THEN "failed" ELSE pc[c]]
    /\ UNCHANGED <<tok, held, retriedAuth, attempt, gate, sends, reply, got, cachedToken, stale,
                   limits, etag, world>>

\* Mutant: the pause is not looked at again when the gate has opened.
WakeOnce(c) ==
    /\ pc[c] = "gated" /\ gate[c] = 0
    /\ Proceed({c}, 0)
    /\ UNCHANGED <<tok, held, retriedAuth, attempt, reply, got, auth, limits, etag, world>>

Wake(c) ==
    /\ pc[c] = "gated" /\ gate[c] = 0
    /\ Proceed({c}, pause)
    /\ UNCHANGED <<tok, held, retriedAuth, attempt, reply, got, auth, limits, etag, world>>

\* GitHub answers.
Answer(c) ==
    /\ pc[c] = "sent"
    /\ \E d \in Waits :
         reply' = [reply EXCEPT ![c] =
             IF tok[c] # token THEN [kind |-> "unauthorized", wait |-> 0, data |-> 0]
             ELSE IF held[c] = version THEN [kind |-> "unmodified", wait |-> 0, data |-> version]
             ELSE [kind |-> "ok", wait |-> d, data |-> version]]
    /\ pc' = [pc EXCEPT ![c] = "answered"]
    /\ UNCHANGED <<tok, held, retriedAuth, attempt, gate, sends, got, auth, limits, etag, world>>

AnswerLimited(c) ==
    /\ pc[c] = "sent" /\ tok[c] = token
    /\ \E d \in Waits :
         reply' = [reply EXCEPT ![c] = [kind |-> "limited", wait |-> d, data |-> 0]]
    /\ pc' = [pc EXCEPT ![c] = "answered"]
    /\ UNCHANGED <<tok, held, retriedAuth, attempt, gate, sends, got, auth, limits, etag, world>>

\* A network error or the request's timeout.
RequestFails(c) ==
    /\ pc[c] = "sent" /\ Ends(c, "failed")
    /\ UNCHANGED <<tok, held, retriedAuth, attempt, reply, got, auth, limits, etag, world>>

Arrives(c, kind) == pc[c] = "answered" /\ reply[c].kind = kind /\ reply' = [reply EXCEPT ![c] = NoReply]

\* Mutant: the data is taken from the cache when the 304 arrives.
NotModifiedLooksAgain(c) ==
    /\ Arrives(c, "unmodified")
    /\ got' = [got EXCEPT ![c] = etag] /\ Ends(c, "ok")
    /\ UNCHANGED <<tok, held, retriedAuth, attempt, auth, limits, etag, world>>

NotModified(c) ==
    /\ Arrives(c, "unmodified")
    /\ got' = [got EXCEPT ![c] = held[c]] /\ Ends(c, "ok")
    /\ UNCHANGED <<tok, held, retriedAuth, attempt, auth, limits, etag, world>>

\* Mutant: the refused token stays in the cache.
InvalidateNothing(t) == UNCHANGED <<cachedToken, stale>>

\* Mutant: any 401 empties the cache.
InvalidateAny(t) == cachedToken' = 0 /\ stale' = FALSE

InvalidateToken(t) ==
    /\ cachedToken' = IF cachedToken = t THEN 0 ELSE cachedToken
    /\ stale' = (stale /\ cachedToken # t)

\* Refreshed once: with the token another call has cached since, or by a
\* resolution.
Refreshes(c) ==
    /\ Arrives(c, "unauthorized") /\ ~env /\ ~retriedAuth[c]
    /\ retriedAuth' = [retriedAuth EXCEPT ![c] = TRUE]
    /\ InvalidateToken(tok[c])
    /\ IF cachedToken' # 0 /\ ~stale'
          THEN UseToken(c, cachedToken') /\ UNCHANGED resolution
          ELSE Joins(c)
    /\ UNCHANGED <<held, attempt, got, limits, etag, world>>

Refused(c) ==
    /\ Arrives(c, "unauthorized") /\ (env \/ retriedAuth[c]) /\ Ends(c, "refused")
    /\ UNCHANGED <<tok, held, retriedAuth, attempt, got, auth, limits, etag, world>>

\* Mutant: attempts are not counted.
RetriesForever(c) ==
    /\ Arrives(c, "limited")
    /\ PauseRateLimit(reply[c].wait) /\ Proceed({c}, pause')
    /\ UNCHANGED <<tok, held, retriedAuth, attempt, got, auth, etag, world>>

Retries(c) ==
    /\ Arrives(c, "limited") /\ attempt[c] < MAX_RATE_LIMIT_RETRIES
    /\ attempt' = [attempt EXCEPT ![c] = @ + 1]
    /\ PauseRateLimit(reply[c].wait) /\ Proceed({c}, pause')
    /\ UNCHANGED <<tok, held, retriedAuth, got, auth, etag, world>>

\* The 403 is returned to the caller.
Limited(c) ==
    /\ Arrives(c, "limited") /\ attempt[c] = MAX_RATE_LIMIT_RETRIES
    /\ PauseRateLimit(reply[c].wait) /\ Ends(c, "limited")
    /\ UNCHANGED <<tok, held, retriedAuth, attempt, got, auth, etag, world>>

Succeeds(c) ==
    /\ Arrives(c, "ok")
    /\ PauseRateLimit(reply[c].wait) /\ Ends(c, "ok")
    /\ got' = [got EXCEPT ![c] = reply[c].data] /\ etag' = reply[c].data
    /\ UNCHANGED <<tok, held, retriedAuth, attempt, auth, world>>

\* The caller's signal: what the call awaits rejects, what others share does not.
Abort(c) ==
    /\ c \in Abortable /\ pc[c] \in {"token", "gated", "sent", "refresh"} /\ Ends(c, "aborted")
    /\ UNCHANGED <<tok, held, retriedAuth, attempt, reply, got, auth, limits, etag, world>>

(***************************************************************************)
(* Time and the world                                                      *)
(***************************************************************************)
Less(n) == IF n > 0 THEN n - 1 ELSE 0

Tick ==
    /\ pause > 0
    /\ pause' = Less(pause) /\ told' = Less(told)
    /\ gate' = [c \in Calls |-> Less(gate[c])]
    /\ UNCHANGED <<pc, tok, held, retriedAuth, attempt, sends, reply, got, auth, etag, world>>

Expire ==
    /\ cachedToken # 0 /\ ~stale /\ stale' = TRUE
    /\ UNCHANGED <<calls, cachedToken, resolution, limits, etag, world>>

Evict == etag # 0 /\ etag' = 0 /\ UNCHANGED <<calls, auth, limits, world>>

Rotate ==
    /\ token < MaxToken /\ token' = token + 1
    /\ UNCHANGED <<calls, auth, limits, etag, env, version>>

Changes ==
    /\ version < MaxVersion /\ version' = version + 1
    /\ UNCHANGED <<calls, auth, limits, etag, env, token>>

-----------------------------------------------------------------------------
Handles(c) == NotModified(c) \/ Refreshes(c) \/ Refused(c) \/ Retries(c) \/ Limited(c) \/ Succeeds(c)
Steps(c) == Wake(c) \/ Answer(c) \/ AnswerLimited(c) \/ RequestFails(c) \/ Handles(c)

Next ==
    \/ \E c \in Calls : Begin(c) \/ Steps(c) \/ Abort(c)
    \/ Reads \/ Resolves \/ ResolveFails
    \/ Tick \/ Expire \/ Evict \/ Rotate \/ Changes

Spec == Init /\ [][Next]_vars

\* Every request is answered or times out, as gh does, and timers fire.
FairSpec ==
    /\ Spec /\ WF_vars(Tick) /\ WF_vars(Reads \/ Resolves \/ ResolveFails)
    /\ \A c \in Calls : WF_vars(Steps(c))

-----------------------------------------------------------------------------
\* Every variable has its type.
TypeOK ==
    /\ pc \in [Calls -> {"idle", "token", "gated", "sent", "answered", "refresh"} \union Ended]
    /\ tok \in [Calls -> {0} \union Tokens] /\ held \in [Calls -> {0} \union Versions]
    /\ retriedAuth \in [Calls -> BOOLEAN]
    /\ attempt \in [Calls -> 0 .. MAX_RATE_LIMIT_RETRIES]
    /\ gate \in [Calls -> Waits] /\ sends \in [Calls -> Nat]
    /\ reply \in [Calls -> [kind : {"none", "ok", "limited", "unauthorized", "unmodified"},
                            wait : Waits, data : {0} \union Versions]]
    /\ got \in [Calls -> {0} \union Versions]
    /\ cachedToken \in {0} \union Tokens /\ stale \in BOOLEAN
    /\ resolution \in {-1, 0} \union Tokens
    /\ pause \in Waits /\ told \in Waits /\ etag \in {0} \union Versions
    /\ env \in BOOLEAN /\ token \in Tokens /\ version \in Versions

\* The requests of a call are its first, one for a refreshed token and one for
\* each counted retry; the next one, while it is not sent yet, is not counted.
Counted(c) ==
    sends[c] <= attempt[c] + (IF retriedAuth[c] THEN 1 ELSE 0)
                    + (IF pc[c] \in {"idle", "token", "gated", "refresh"} THEN 0 ELSE 1)

\* A 304 is about the entry that the call holds.
Matches(c) ==
    pc[c] = "answered" /\ reply[c].kind = "unmodified" => held[c] = reply[c].data

IndInv == TypeOK /\ told <= pause /\ \A c \in Calls : Counted(c) /\ Matches(c)

\* However often it is refused and throttled, a call sends a bounded number of
\* requests.
RequestsBounded == \A c \in Calls : sends[c] <= MAX_RATE_LIMIT_RETRIES + 2

\* docs/ARCHITECTURE.md: one throttled request pauses the others.  No call
\* sends while what GitHub asked any call to wait has not passed, even when the
\* wait was extended while it stood at the gate.
PauseRespected == [][\A c \in Calls : sends'[c] # sends[c] => told' = 0]_vars

\* A token leaves the cache only when GitHub refused that token: a late 401 on
\* an old one does not cost the fresh one.
FreshTokenKept ==
    [][cachedToken # 0 /\ cachedToken' = 0
           => \E c \in Calls : tok[c] = cachedToken /\ reply[c].kind = "unauthorized"]_vars

\* What a call returns is the resource as it was when GitHub answered, though
\* the cache entry it named may be replaced or evicted meanwhile.
AnswersAreCurrent ==
    [][\A c \in Calls : pc[c] = "answered" /\ pc'[c] = "ok" => got'[c] = reply[c].data]_vars

\* Once the credential has stopped changing, a call that begins when no
\* resolution is under way is not refused, whatever is in the cache.
Recovers ==
    \A c \in Calls :
        []((token = MaxToken /\ ~env /\ resolution = 0 /\ pc[c] = "idle") => [](pc[c] # "refused"))

\* Every call ends: the retries are bounded and the pauses too.
CallsEnd == \A c \in Calls : pc[c] # "idle" ~> pc[c] \in Ended
=============================================================================
