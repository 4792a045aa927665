-------------------------- MODULE GithubApiProofs --------------------------
(***************************************************************************)
(* GithubApi for any calls, retries, waits, tokens and versions: types,    *)
(* the bound on the requests of a call, the promises of what the calls     *)
(* share, the pause, the token and the cache, and the recovery from a      *)
(* changed credential.                                                     *)
(***************************************************************************)
EXTENDS GithubApi, TLAPS

Places == {"idle", "token", "gated", "sent", "answered", "refresh"} \union Ended
Replies == [kind : {"none", "ok", "limited", "unauthorized", "unmodified"},
            wait : Waits, data : {0} \union Versions]

\* What Proceed and Ends change, and what they keep of it.
PlaceOK == pc \in [Calls -> Places] /\ gate \in [Calls -> Waits] /\ sends \in [Calls -> Nat]
CallOK ==
    /\ tok \in [Calls -> {0} \union Tokens] /\ held \in [Calls -> {0} \union Versions]
    /\ retriedAuth \in [Calls -> BOOLEAN]
    /\ attempt \in [Calls -> 0 .. MAX_RATE_LIMIT_RETRIES]
    /\ got \in [Calls -> {0} \union Versions]
ReplyOK == reply \in [Calls -> Replies]
AuthOK ==
    /\ cachedToken \in {0} \union Tokens /\ stale \in BOOLEAN
    /\ resolution \in {-1, 0} \union Tokens
    /\ env \in BOOLEAN /\ token \in Tokens
PauseOK == pause \in Waits /\ told \in Waits /\ told <= pause
EtagOK == etag \in {0} \union Versions /\ version \in Versions

LEMMA Parts ==
    TypeOK /\ told <= pause <=> PlaceOK /\ CallOK /\ ReplyOK /\ AuthOK /\ PauseOK /\ EtagOK
BY DEF TypeOK, PlaceOK, CallOK, ReplyOK, AuthOK, PauseOK, EtagOK, Places, Replies

LEMMA PartsPrimed ==
    PlaceOK' /\ CallOK' /\ ReplyOK' /\ AuthOK' /\ PauseOK' /\ EtagOK' <=> (TypeOK /\ told <= pause)'
BY DEF TypeOK, PlaceOK, CallOK, ReplyOK, AuthOK, PauseOK, EtagOK, Places, Replies

LEMMA InitInv == Init => IndInv
<1> SUFFICES ASSUME Init PROVE IndInv
  OBVIOUS
<1>1. 0 \in Waits /\ 1 \in Tokens /\ 1 \in Versions
  BY CapAssumption, TokenAssumption, VersionAssumption DEF Waits, Tokens, Versions
<1>2. PlaceOK BY <1>1 DEF Init, PlaceOK, Places
<1>3. CallOK BY <1>1, RetriesAssumption DEF Init, CallOK
<1>4. ReplyOK
  <2>1. NoReply \in Replies BY <1>1 DEF NoReply, Replies
  <2>2. QED BY <2>1 DEF Init, ReplyOK
<1>5. AuthOK BY <1>1 DEF Init, AuthOK
<1>6. PauseOK BY <1>1 DEF Init, PauseOK
<1>7. EtagOK BY <1>1 DEF Init, EtagOK
<1>8. \A c \in Calls : Counted(c) /\ Matches(c)
  <2>1. TAKE c \in Calls
  <2>2. pc[c] = "idle" /\ sends[c] = 0 /\ attempt[c] = 0 /\ retriedAuth[c] = FALSE BY DEF Init
  <2>3. QED BY <2>2 DEF Counted, Matches
<1>9. QED BY <1>2, <1>3, <1>4, <1>5, <1>6, <1>7, <1>8, Parts DEF IndInv

(***************************************************************************)
(* The shared operators                                                    *)
(***************************************************************************)
LEMMA ProceedKeeps ==
    ASSUME PlaceOK, NEW S, NEW left \in Waits, Proceed(S, left) PROVE PlaceOK'
BY DEF PlaceOK, Proceed, Places

LEMMA EndsKeeps ==
    ASSUME PlaceOK, NEW c \in Calls, NEW how \in Places, Ends(c, how) PROVE PlaceOK'
BY DEF PlaceOK, Ends

LEMMA PauseKeeps ==
    ASSUME PauseOK, NEW d \in Waits, PauseRateLimit(d) PROVE PauseOK' /\ told' >= d
BY CapAssumption DEF PauseOK, PauseRateLimit, Waits

\* getToken: the cached token, or the resolution that is joined.
LEMMA JoinsKeeps ==
    ASSUME PlaceOK, CallOK, AuthOK, NEW c \in Calls, Joins(c),
           cachedToken' \in {0} \union Tokens, stale' \in BOOLEAN, UNCHANGED <<env, token>>
    PROVE  PlaceOK' /\ AuthOK' /\ tok' = tok
<1>1. PlaceOK'
  <2>1. (IF pc[c] = "idle" THEN "token" ELSE "refresh") \in Places BY DEF Places
  <2>2. QED BY <2>1, EndsKeeps DEF Joins
<1>2. AuthOK' BY DEF AuthOK, Joins
<1>3. QED BY <1>1, <1>2 DEF Joins

LEMMA UseTokenKeeps ==
    ASSUME PlaceOK, CallOK, PauseOK, NEW c \in Calls, NEW t \in Tokens, UseToken(c, t)
    PROVE  PlaceOK' /\ tok' \in [Calls -> {0} \union Tokens]
<1>1. Proceed({c}, pause) /\ pause \in Waits BY DEF UseToken, PauseOK
<1>2. PlaceOK' BY <1>1, ProceedKeeps
<1>3. QED BY <1>2 DEF UseToken, CallOK

LEMMA ArrivesKeeps ==
    ASSUME ReplyOK, NEW c \in Calls, NEW k, Arrives(c, k)
    PROVE  /\ ReplyOK' /\ reply' = [reply EXCEPT ![c] = NoReply]
           /\ reply[c].wait \in Waits /\ reply[c].data \in {0} \union Versions
<1>1. NoReply \in Replies
  BY CapAssumption DEF NoReply, Replies, Waits
<1>2. reply[c] \in Replies BY DEF ReplyOK
<1>3. QED BY <1>1, <1>2 DEF ReplyOK, Arrives, Replies

-----------------------------------------------------------------------------
(***************************************************************************)
(* Types                                                                   *)
(***************************************************************************)
LEMMA BeginTypes ==
    ASSUME TypeOK, told <= pause, NEW c \in Calls, Begin(c) PROVE (TypeOK /\ told <= pause)'
<1>1. PlaceOK /\ CallOK /\ ReplyOK /\ AuthOK /\ PauseOK /\ EtagOK BY Parts
<1>2. ReplyOK' /\ PauseOK' /\ EtagOK'
  BY <1>1 DEF Begin, limits, world, ReplyOK, PauseOK, EtagOK
<1>3. CASE cachedToken # 0 /\ ~stale
  <2>1. cachedToken \in Tokens BY <1>1, <1>3 DEF AuthOK
  <2>2. UseToken(c, cachedToken) BY <1>3 DEF Begin
  <2>3. PlaceOK' /\ tok' \in [Calls -> {0} \union Tokens] BY <1>1, <2>1, <2>2, UseTokenKeeps
  <2>4. CallOK' BY <1>1, <1>3, <2>3 DEF Begin, CallOK, EtagOK
  <2>5. AuthOK' BY <1>1, <1>3 DEF Begin, AuthOK, world
  <2>6. QED BY <1>2, <2>3, <2>4, <2>5, PartsPrimed
<1>4. CASE ~(cachedToken # 0 /\ ~stale)
  <2>1. Joins(c) /\ UNCHANGED <<cachedToken, stale, env, token>> BY <1>4 DEF Begin, world
  <2>2. PlaceOK' /\ AuthOK' /\ tok' = tok
    <3>1. cachedToken' \in {0} \union Tokens /\ stale' \in BOOLEAN BY <1>1, <2>1 DEF AuthOK
    <3>2. QED BY <1>1, <2>1, <3>1, JoinsKeeps
  <2>3. CallOK' BY <1>1, <1>4, <2>2 DEF Begin, CallOK
  <2>4. QED BY <1>2, <2>2, <2>3, PartsPrimed
<1>5. QED BY <1>3, <1>4

LEMMA ResolutionTypes ==
    ASSUME TypeOK, told <= pause, Reads \/ Resolves \/ ResolveFails
    PROVE  (TypeOK /\ told <= pause)'
<1>1. PlaceOK /\ CallOK /\ ReplyOK /\ AuthOK /\ PauseOK /\ EtagOK BY Parts
<1>2. CASE Reads
  <2>1. AuthOK'
    <3>1. 1 \in Tokens BY TokenAssumption DEF Tokens
    <3>2. QED BY <1>1, <1>2, <3>1 DEF Reads, AuthOK, world
  <2>2. PlaceOK' /\ CallOK' /\ ReplyOK'
    BY <1>1, <1>2 DEF Reads, calls, PlaceOK, CallOK, ReplyOK
  <2>3. PauseOK' /\ EtagOK' BY <1>1, <1>2 DEF Reads, limits, world, PauseOK, EtagOK
  <2>4. QED BY <2>1, <2>2, <2>3, PartsPrimed
<1>3. CASE Resolves
  <2>1. resolution \in Tokens BY <1>1, <1>3 DEF Resolves, AuthOK
  <2>2. AuthOK' BY <1>1, <1>3, <2>1 DEF Resolves, AuthOK, world
  <2>3. PlaceOK'
    <3>1. Proceed(Waiting, pause) /\ pause \in Waits BY <1>1, <1>3 DEF Resolves, PauseOK
    <3>2. QED BY <1>1, <3>1, ProceedKeeps
  <2>4. CallOK' BY <1>1, <1>3, <2>1 DEF Resolves, CallOK, EtagOK
  <2>5. ReplyOK' /\ PauseOK' /\ EtagOK'
    BY <1>1, <1>3 DEF Resolves, limits, world, ReplyOK, PauseOK, EtagOK
  <2>6. QED BY <2>2, <2>3, <2>4, <2>5, PartsPrimed
<1>4. CASE ResolveFails
  <2>1. PlaceOK' BY <1>1, <1>4 DEF ResolveFails, PlaceOK, Places, Ended
  <2>2. AuthOK' BY <1>1, <1>4 DEF ResolveFails, AuthOK, world
  <2>3. CallOK' /\ ReplyOK' BY <1>1, <1>4 DEF ResolveFails, CallOK, ReplyOK
  <2>4. PauseOK' /\ EtagOK' BY <1>1, <1>4 DEF ResolveFails, limits, world, PauseOK, EtagOK
  <2>5. QED BY <2>1, <2>2, <2>3, <2>4, PartsPrimed
<1>5. QED BY <1>2, <1>3, <1>4

\* The steps of a call that change neither the token nor the pause.
LEMMA RequestTypes ==
    ASSUME TypeOK, told <= pause, NEW c \in Calls,
           Wake(c) \/ Answer(c) \/ AnswerLimited(c) \/ RequestFails(c) \/ Abort(c)
    PROVE  (TypeOK /\ told <= pause)'
<1>1. PlaceOK /\ CallOK /\ ReplyOK /\ AuthOK /\ PauseOK /\ EtagOK BY Parts
<1>2. UNCHANGED <<tok, held, retriedAuth, attempt, got, auth, limits, etag, world>>
  BY DEF Wake, Answer, AnswerLimited, RequestFails, Abort
<1>3. CallOK' /\ AuthOK' BY <1>1, <1>2 DEF CallOK, AuthOK, auth, world
<1>4. PauseOK' /\ EtagOK' BY <1>1, <1>2 DEF PauseOK, EtagOK, limits, world
<1>5. PlaceOK'
  <2>1. CASE Wake(c)
    <3>1. Proceed({c}, pause) /\ pause \in Waits BY <1>1, <2>1 DEF Wake, PauseOK
    <3>2. QED BY <1>1, <3>1, ProceedKeeps
  <2>2. CASE Answer(c) BY <1>1, <2>2 DEF Answer, PlaceOK, Places
  <2>3. CASE AnswerLimited(c) BY <1>1, <2>3 DEF AnswerLimited, PlaceOK, Places
  <2>4. CASE RequestFails(c) BY <1>1, <2>4 DEF RequestFails, Ends, PlaceOK, Places, Ended
  <2>5. CASE Abort(c) BY <1>1, <2>5 DEF Abort, Ends, PlaceOK, Places, Ended
  <2>6. QED BY <2>1, <2>2, <2>3, <2>4, <2>5
<1>6. ReplyOK'
  <2>1. 0 \in Waits BY CapAssumption DEF Waits
  <2>2. CASE Answer(c)
    <3>1. PICK d \in Waits : reply' = [reply EXCEPT ![c] =
             IF tok[c] # token THEN [kind |-> "unauthorized", wait |-> 0, data |-> 0]
             ELSE IF held[c] = version THEN [kind |-> "unmodified", wait |-> 0, data |-> version]
             ELSE [kind |-> "ok", wait |-> d, data |-> version]]
      BY <2>2 DEF Answer
    <3>2. version \in Versions BY <1>1 DEF EtagOK
    <3>3. /\ [kind |-> "unauthorized", wait |-> 0, data |-> 0] \in Replies
          /\ [kind |-> "unmodified", wait |-> 0, data |-> version] \in Replies
          /\ [kind |-> "ok", wait |-> d, data |-> version] \in Replies
      BY <2>1, <3>2 DEF Replies
    <3>4. QED BY <1>1, <3>1, <3>3 DEF ReplyOK
  <2>3. CASE AnswerLimited(c)
    <3>1. PICK d \in Waits :
             reply' = [reply EXCEPT ![c] = [kind |-> "limited", wait |-> d, data |-> 0]]
      BY <2>3 DEF AnswerLimited
    <3>2. [kind |-> "limited", wait |-> d, data |-> 0] \in Replies BY DEF Replies
    <3>3. QED BY <1>1, <3>1, <3>2 DEF ReplyOK
  <2>4. CASE reply' = reply BY <1>1, <2>4 DEF ReplyOK
  <2>5. QED BY <2>2, <2>3, <2>4 DEF Wake, RequestFails, Abort
<1>7. QED BY <1>3, <1>4, <1>5, <1>6, PartsPrimed

LEMMA RefreshTypes ==
    ASSUME TypeOK, told <= pause, NEW c \in Calls, Refreshes(c) PROVE (TypeOK /\ told <= pause)'
<1>1. PlaceOK /\ CallOK /\ ReplyOK /\ AuthOK /\ PauseOK /\ EtagOK BY Parts
<1>2. ReplyOK'
  <2>1. Arrives(c, "unauthorized") BY DEF Refreshes
  <2>2. QED BY <1>1, <2>1, ArrivesKeeps
<1>3. PauseOK' /\ EtagOK' BY <1>1 DEF Refreshes, limits, world, PauseOK, EtagOK
<1>4. cachedToken' \in {0} \union Tokens /\ stale' \in BOOLEAN
  BY <1>1 DEF Refreshes, InvalidateToken, AuthOK
<1>5. retriedAuth' \in [Calls -> BOOLEAN] /\ UNCHANGED <<held, attempt, got, env, token>>
  BY <1>1 DEF Refreshes, CallOK, world
<1>6. CASE cachedToken' # 0 /\ ~stale'
  <2>1. cachedToken' \in Tokens /\ UseToken(c, cachedToken') /\ resolution' = resolution
    BY <1>4, <1>6 DEF Refreshes
  <2>2. PlaceOK' /\ tok' \in [Calls -> {0} \union Tokens] BY <1>1, <2>1, UseTokenKeeps
  <2>3. CallOK' BY <1>1, <1>5, <2>2 DEF CallOK
  <2>4. AuthOK' BY <1>1, <1>4, <1>5, <2>1 DEF AuthOK
  <2>5. QED BY <1>2, <1>3, <2>2, <2>3, <2>4, PartsPrimed
<1>7. CASE ~(cachedToken' # 0 /\ ~stale')
  <2>1. Joins(c) BY <1>7 DEF Refreshes
  <2>2. PlaceOK' /\ AuthOK' /\ tok' = tok BY <1>1, <1>4, <1>5, <2>1, JoinsKeeps
  <2>3. CallOK' BY <1>1, <1>5, <2>2 DEF CallOK
  <2>4. QED BY <1>2, <1>3, <2>2, <2>3, PartsPrimed
<1>8. QED BY <1>6, <1>7

LEMMA HandlerTypes ==
    ASSUME TypeOK, told <= pause, NEW c \in Calls,
           NotModified(c) \/ Refused(c) \/ Retries(c) \/ Limited(c) \/ Succeeds(c)
    PROVE  (TypeOK /\ told <= pause)'
<1>1. PlaceOK /\ CallOK /\ ReplyOK /\ AuthOK /\ PauseOK /\ EtagOK BY Parts
<1>2. PICK k : Arrives(c, k) BY DEF NotModified, Refused, Retries, Limited, Succeeds
<1>3. ReplyOK' /\ reply[c].wait \in Waits /\ reply[c].data \in {0} \union Versions
  BY <1>1, <1>2, ArrivesKeeps
<1>4. AuthOK'
  <2>1. UNCHANGED <<auth, world>> BY DEF NotModified, Refused, Retries, Limited, Succeeds
  <2>2. QED BY <1>1, <2>1 DEF AuthOK, auth, world
<1>5. PauseOK'
  <2>1. CASE PauseRateLimit(reply[c].wait) BY <1>1, <1>3, <2>1, PauseKeeps
  <2>2. CASE UNCHANGED limits BY <1>1, <2>2 DEF PauseOK, limits
  <2>3. QED BY <2>1, <2>2 DEF NotModified, Refused, Retries, Limited, Succeeds
<1>6. EtagOK'
  BY <1>1, <1>3 DEF EtagOK, NotModified, Refused, Retries, Limited, Succeeds, world
<1>7. PlaceOK'
  <2>1. CASE Retries(c)
    <3>1. Proceed({c}, pause') /\ pause' \in Waits BY <1>5, <2>1 DEF Retries, PauseOK
    <3>2. QED BY <1>1, <3>1, ProceedKeeps
  <2>2. ASSUME NEW how \in Ended, Ends(c, how) PROVE PlaceOK'
    BY <1>1, <2>2, EndsKeeps DEF Places
  <2>3. QED BY <2>1, <2>2 DEF NotModified, Refused, Limited, Succeeds, Ended
<1>8. CallOK'
  <2>1. CASE Retries(c)
    <3>1. attempt[c] \in 0 .. MAX_RATE_LIMIT_RETRIES /\ attempt[c] < MAX_RATE_LIMIT_RETRIES
      BY <1>1, <2>1 DEF CallOK, Retries
    <3>2. attempt[c] + 1 \in 0 .. MAX_RATE_LIMIT_RETRIES BY <3>1, RetriesAssumption
    <3>3. QED BY <1>1, <2>1, <3>2 DEF CallOK, Retries
  <2>2. CASE NotModified(c) BY <1>1, <2>2 DEF CallOK, NotModified
  <2>3. CASE Refused(c) BY <1>1, <2>3 DEF CallOK, Refused
  <2>4. CASE Limited(c) BY <1>1, <2>4 DEF CallOK, Limited
  <2>5. CASE Succeeds(c) BY <1>1, <1>3, <2>5 DEF CallOK, Succeeds
  <2>6. QED BY <2>1, <2>2, <2>3, <2>4, <2>5
<1>9. QED BY <1>3, <1>4, <1>5, <1>6, <1>7, <1>8, PartsPrimed

LEMMA WorldTypes ==
    ASSUME TypeOK, told <= pause, Tick \/ Expire \/ Evict \/ Rotate \/ Changes \/ UNCHANGED vars
    PROVE  (TypeOK /\ told <= pause)'
<1>1. PlaceOK /\ CallOK /\ ReplyOK /\ AuthOK /\ PauseOK /\ EtagOK BY Parts
<1>2. CallOK' /\ ReplyOK'
  BY <1>1 DEF Tick, Expire, Evict, Rotate, Changes, vars, calls, CallOK, ReplyOK
<1>3. PlaceOK'
  <2>1. CASE Tick
    <3>1. \A n \in Waits : Less(n) \in Waits BY CapAssumption DEF Less, Waits
    <3>2. QED BY <1>1, <2>1, <3>1 DEF Tick, PlaceOK
  <2>2. CASE UNCHANGED <<pc, gate, sends>> BY <1>1, <2>2 DEF PlaceOK
  <2>3. QED BY <2>1, <2>2 DEF Expire, Evict, Rotate, Changes, vars, calls
<1>4. PauseOK'
  <2>1. CASE Tick
    <3>1. pause' = Less(pause) /\ told' = Less(told) BY <2>1 DEF Tick
    <3>2. QED BY <1>1, <3>1, CapAssumption DEF Less, Waits, PauseOK
  <2>2. CASE UNCHANGED limits BY <1>1, <2>2 DEF PauseOK, limits
  <2>3. QED BY <2>1, <2>2 DEF Expire, Evict, Rotate, Changes, vars
<1>5. AuthOK'
  <2>1. CASE Rotate
    <3>1. token' \in Tokens BY <1>1, <2>1, TokenAssumption DEF Rotate, AuthOK, Tokens
    <3>2. QED BY <1>1, <2>1, <3>1 DEF Rotate, AuthOK, auth
  <2>2. CASE Expire BY <1>1, <2>2 DEF Expire, AuthOK, world
  <2>3. CASE UNCHANGED <<auth, env, token>> BY <1>1, <2>3 DEF AuthOK, auth
  <2>4. QED BY <2>1, <2>2, <2>3 DEF Tick, Evict, Changes, vars, world
<1>6. EtagOK'
  <2>1. CASE Changes
    <3>1. version' \in Versions BY <1>1, <2>1, VersionAssumption DEF Changes, EtagOK, Versions
    <3>2. QED BY <1>1, <2>1, <3>1 DEF Changes, EtagOK
  <2>2. CASE Evict BY <1>1, <2>2 DEF Evict, EtagOK, world
  <2>3. CASE UNCHANGED <<etag, version>> BY <1>1, <2>3 DEF EtagOK
  <2>4. QED BY <2>1, <2>2, <2>3 DEF Tick, Expire, Rotate, vars, world
<1>7. QED BY <1>2, <1>3, <1>4, <1>5, <1>6, PartsPrimed

LEMMA TypeStep ==
    ASSUME TypeOK, told <= pause, [Next]_vars PROVE (TypeOK /\ told <= pause)'
BY BeginTypes, ResolutionTypes, RequestTypes, RefreshTypes, HandlerTypes, WorldTypes
   DEF Next, Steps, Handles
-----------------------------------------------------------------------------
(***************************************************************************)
(* The requests of one call, and the answer it waits for                   *)
(***************************************************************************)
Pending == {"idle", "token", "gated", "refresh"}
Extra(c) == IF retriedAuth[c] THEN 1 ELSE 0
Open(c) == IF pc[c] \in Pending THEN 0 ELSE 1

LEMMA CountedIs ==
    /\ \A c \in Calls : Counted(c) <=> sends[c] <= attempt[c] + Extra(c) + Open(c)
    /\ \A c \in Calls : Counted(c)' <=> sends'[c] <= attempt'[c] + Extra(c)' + Open(c)'
BY DEF Counted, Extra, Open, Pending

LEMMA Numbers ==
    ASSUME PlaceOK, CallOK, NEW c \in Calls
    PROVE  sends[c] \in Nat /\ attempt[c] \in Nat /\ Extra(c) \in {0, 1} /\ Open(c) \in {0, 1}
BY RetriesAssumption DEF PlaceOK, CallOK, Extra, Open

\* A call that has a request to make goes on without another.
LEMMA ProceedCounts ==
    ASSUME PlaceOK, CallOK, NEW S, NEW left \in Waits, Proceed(S, left), NEW c \in Calls, c \in S
    PROVE  sends'[c] = sends[c] + Open(c)'
<1>1. CASE left = 0 BY <1>1 DEF Proceed, PlaceOK, Open, Pending
<1>2. CASE left # 0
  <2>1. left > 0 BY <1>2, CapAssumption DEF Waits
  <2>2. QED BY <1>2, <2>1 DEF Proceed, PlaceOK, Open, Pending
<1>3. QED BY <1>1, <1>2

\* Nothing is counted for a call that stays where it is.
LEMMA SameCounts ==
    ASSUME NEW c \in Calls, Counted(c),
           sends'[c] = sends[c], attempt'[c] = attempt[c], retriedAuth'[c] = retriedAuth[c],
           pc'[c] = pc[c]
    PROVE  Counted(c)'
BY CountedIs DEF Extra, Open

\* A step that takes a call out of those that have a request to make.
LEMMA EndCounts ==
    ASSUME PlaceOK, CallOK, NEW c \in Calls, Counted(c),
           sends'[c] = sends[c], attempt'[c] = attempt[c], retriedAuth'[c] = retriedAuth[c],
           pc'[c] \notin Pending
    PROVE  Counted(c)'
<1>1. Extra(c)' = Extra(c) /\ Open(c)' = 1 BY DEF Extra, Open
<1>2. QED BY <1>1, CountedIs, Numbers

Good(c) == Counted(c) /\ Matches(c)
Typed == PlaceOK /\ CallOK /\ ReplyOK /\ PauseOK

\* A call whose request is counted already goes on, or waits to.
LEMMA GoesOnCounts ==
    ASSUME PlaceOK, CallOK, NEW c \in Calls, Counted(c),
           sends'[c] = sends[c] + Open(c)',
           attempt'[c] \in Nat, Extra(c)' \in {0, 1},
           attempt'[c] + Extra(c)' >= attempt[c] + Extra(c) + Open(c)
    PROVE  Counted(c)'
<1>1. Open(c)' \in {0, 1} BY DEF Open
<1>2. QED BY <1>1, CountedIs, Numbers

LEMMA OtherGood ==
    ASSUME NEW d \in Calls, Good(d),
           sends'[d] = sends[d], attempt'[d] = attempt[d], retriedAuth'[d] = retriedAuth[d],
           pc'[d] = pc[d], held'[d] = held[d], reply'[d] = reply[d]
    PROVE  Good(d)'
<1>1. Counted(d)' BY SameCounts DEF Good
<1>2. QED BY <1>1 DEF Good, Matches

LEMMA BeginGood ==
    ASSUME Typed, NEW c \in Calls, Begin(c), NEW d \in Calls, Good(d) PROVE Good(d)'
<1>t. PlaceOK /\ CallOK /\ pause \in Waits BY DEF Typed, PauseOK
<1>1. UNCHANGED <<retriedAuth, attempt, reply>> /\ pc[c] = "idle" BY DEF Begin
<1>2. CASE d # c
  <2>1. pc'[d] = pc[d] /\ sends'[d] = sends[d] /\ held'[d] = held[d]
    BY <1>t, <1>2 DEF Begin, UseToken, Proceed, Joins, Ends, PlaceOK, CallOK
  <2>2. QED BY <1>1, <2>1, OtherGood
<1>3. CASE d = c
  <2>1. CASE UseToken(c, cachedToken)
    <3>1. Proceed({c}, pause) BY <2>1 DEF UseToken
    <3>2. sends'[c] = sends[c] + Open(c)' BY <1>t, <3>1, ProceedCounts
    <3>3. Open(c) = 0 /\ Extra(c)' = Extra(c) BY <1>1 DEF Open, Pending, Extra
    <3>4. Counted(c)' BY <1>t, <1>1, <1>3, <3>2, <3>3, Numbers, GoesOnCounts DEF Good
    <3>5. pc'[c] # "answered" BY <1>t, <3>1 DEF Proceed
    <3>6. QED BY <1>3, <3>4, <3>5 DEF Good, Matches
  <2>2. CASE Joins(c)
    <3>1. pc'[c] = "token" /\ sends' = sends BY <1>t, <1>1, <2>2 DEF Joins, Ends, PlaceOK
    <3>2. Open(c) = 0 /\ Open(c)' = 0 /\ Extra(c)' = Extra(c)
      BY <1>1, <3>1 DEF Open, Pending, Extra
    <3>3. Counted(c)' BY <1>1, <1>3, <3>1, <3>2, CountedIs DEF Good
    <3>4. QED BY <1>3, <3>1, <3>3 DEF Good, Matches
  <2>3. QED BY <2>1, <2>2 DEF Begin
<1>4. QED BY <1>2, <1>3

LEMMA ResolutionGood ==
    ASSUME Typed, Reads \/ Resolves \/ ResolveFails, NEW d \in Calls, Good(d) PROVE Good(d)'
<1>t. PlaceOK /\ CallOK /\ pause \in Waits BY DEF Typed, PauseOK
<1>1. CASE Reads BY <1>1, OtherGood DEF Reads, calls
<1>2. CASE Resolves
  <2>1. UNCHANGED <<retriedAuth, attempt, reply>> /\ Proceed(Waiting, pause)
    BY <1>2 DEF Resolves
  <2>2. CASE d \notin Waiting
    <3>1. pc'[d] = pc[d] /\ sends'[d] = sends[d] BY <1>t, <2>1, <2>2 DEF Proceed, PlaceOK
    <3>2. held'[d] = held[d] BY <1>2, <2>2 DEF Resolves, Waiting
    <3>3. QED BY <2>1, <3>1, <3>2, OtherGood
  <2>3. CASE d \in Waiting
    <3>1. sends'[d] = sends[d] + Open(d)' BY <1>t, <2>1, <2>3, ProceedCounts
    <3>2. Open(d) = 0 /\ Extra(d)' = Extra(d) BY <2>1, <2>3 DEF Waiting, Open, Pending, Extra
    <3>3. Counted(d)' BY <1>t, <2>1, <3>1, <3>2, Numbers, GoesOnCounts DEF Good
    <3>4. pc'[d] # "answered" BY <2>1, <2>3 DEF Proceed
    <3>5. QED BY <3>3, <3>4 DEF Good, Matches
  <2>4. QED BY <2>2, <2>3
<1>3. CASE ResolveFails
  <2>1. UNCHANGED <<retriedAuth, attempt, sends, reply, held>> BY <1>3 DEF ResolveFails
  <2>2. CASE d \notin Waiting
    <3>1. pc'[d] = pc[d] BY <1>3, <2>2 DEF ResolveFails
    <3>2. QED BY <2>1, <3>1, OtherGood
  <2>3. CASE d \in Waiting
    <3>1. pc'[d] = "failed" BY <1>3, <2>3 DEF ResolveFails
    <3>2. Counted(d)' BY <1>t, <2>1, <3>1, EndCounts DEF Good, Pending
    <3>3. QED BY <3>1, <3>2 DEF Good, Matches
  <2>4. QED BY <2>2, <2>3
<1>4. QED BY <1>1, <1>2, <1>3

LEMMA RequestGood ==
    ASSUME Typed, NEW c \in Calls,
           Wake(c) \/ Answer(c) \/ AnswerLimited(c) \/ RequestFails(c) \/ Abort(c),
           NEW d \in Calls, Good(d)
    PROVE  Good(d)'
<1>t. PlaceOK /\ CallOK /\ ReplyOK /\ pause \in Waits BY DEF Typed, PauseOK
<1>1. UNCHANGED <<held, retriedAuth, attempt>>
  BY DEF Wake, Answer, AnswerLimited, RequestFails, Abort
<1>2. CASE d # c
  <2>1. pc'[d] = pc[d] /\ sends'[d] = sends[d]
    BY <1>t, <1>2 DEF Wake, Answer, AnswerLimited, RequestFails, Abort, Proceed, Ends, PlaceOK
  <2>2. reply'[d] = reply[d]
    BY <1>t, <1>2 DEF Wake, Answer, AnswerLimited, RequestFails, Abort, ReplyOK
  <2>3. QED BY <1>1, <2>1, <2>2, OtherGood
<1>3. CASE d = c /\ Wake(c)
  <2>1. Proceed({c}, pause) /\ pc[c] = "gated" BY <1>3 DEF Wake
  <2>2. sends'[c] = sends[c] + Open(c)' BY <1>t, <2>1, ProceedCounts
  <2>3. Open(c) = 0 /\ Extra(c)' = Extra(c) BY <1>1, <2>1 DEF Open, Pending, Extra
  <2>4. Counted(c)' BY <1>t, <1>1, <1>3, <2>2, <2>3, Numbers, GoesOnCounts DEF Good
  <2>5. pc'[c] # "answered" BY <2>1 DEF Proceed
  <2>6. QED BY <1>3, <2>4, <2>5 DEF Good, Matches
<1>4. CASE d = c /\ (Answer(c) \/ AnswerLimited(c))
  <2>1. pc'[c] = "answered" /\ sends' = sends BY <1>t, <1>4 DEF Answer, AnswerLimited, PlaceOK
  <2>2. Counted(c)' BY <1>t, <1>1, <1>4, <2>1, EndCounts DEF Good, Pending
  <2>3. reply'[c].kind = "unmodified" => held[c] = reply'[c].data
    <3>1. CASE Answer(c)
      <4>1. reply'[c].kind = "unmodified" => held[c] = version /\ reply'[c].data = version
        BY <1>t, <3>1 DEF Answer, ReplyOK
      <4>2. QED BY <4>1
    <3>2. CASE AnswerLimited(c) BY <1>t, <3>2 DEF AnswerLimited, ReplyOK
    <3>3. QED BY <1>4, <3>1, <3>2
  <2>4. QED BY <1>1, <1>4, <2>2, <2>3 DEF Good, Matches
<1>5. CASE d = c /\ (RequestFails(c) \/ Abort(c))
  <2>1. pc'[c] \in {"failed", "aborted"} /\ sends' = sends
    BY <1>t, <1>5 DEF RequestFails, Abort, Ends, PlaceOK
  <2>2. Counted(c)' BY <1>t, <1>1, <1>5, <2>1, EndCounts DEF Good, Pending
  <2>3. QED BY <1>5, <2>1, <2>2 DEF Good, Matches
<1>6. QED BY <1>2, <1>3, <1>4, <1>5

LEMMA RefreshGood ==
    ASSUME Typed, NEW c \in Calls, Refreshes(c), NEW d \in Calls, Good(d) PROVE Good(d)'
<1>t. PlaceOK /\ CallOK /\ ReplyOK /\ pause \in Waits BY DEF Typed, PauseOK
<1>1. /\ UNCHANGED <<held, attempt>> /\ pc[c] = "answered"
      /\ retriedAuth[c] = FALSE /\ retriedAuth'[c] = TRUE
  BY <1>t DEF Refreshes, Arrives, CallOK
<1>2. CASE d # c
  <2>1. pc'[d] = pc[d] /\ sends'[d] = sends[d]
    BY <1>t, <1>2 DEF Refreshes, UseToken, Joins, Proceed, Ends, PlaceOK
  <2>2. reply'[d] = reply[d] /\ retriedAuth'[d] = retriedAuth[d]
    BY <1>t, <1>2 DEF Refreshes, Arrives, ReplyOK, CallOK
  <2>3. QED BY <1>1, <2>1, <2>2, OtherGood
<1>3. CASE d = c
  <2>1. Open(c) = 1 /\ Extra(c) = 0 /\ Extra(c)' = 1 BY <1>1 DEF Open, Extra, Pending
  <2>2. sends'[c] = sends[c] + Open(c)' /\ pc'[c] # "answered"
    <3>1. CASE UseToken(c, cachedToken')
      <4>1. Proceed({c}, pause) BY <3>1 DEF UseToken
      <4>2. sends'[c] = sends[c] + Open(c)' BY <1>t, <4>1, ProceedCounts
      <4>3. QED BY <4>1, <4>2 DEF Proceed
    <3>2. CASE Joins(c)
      <4>1. pc'[c] = "refresh" /\ sends' = sends BY <1>t, <1>1, <3>2 DEF Joins, Ends, PlaceOK
      <4>2. Open(c)' = 0 BY <4>1 DEF Open, Pending
      <4>3. QED BY <1>t, <4>1, <4>2, Numbers
    <3>3. QED BY <3>1, <3>2 DEF Refreshes
  <2>3. Counted(c)' BY <1>t, <1>1, <1>3, <2>1, <2>2, Numbers, GoesOnCounts DEF Good
  <2>4. QED BY <1>3, <2>2, <2>3 DEF Good, Matches
<1>4. QED BY <1>2, <1>3

LEMMA HandlerGood ==
    ASSUME Typed, PauseOK', NEW c \in Calls,
           NotModified(c) \/ Refused(c) \/ Retries(c) \/ Limited(c) \/ Succeeds(c),
           NEW d \in Calls, Good(d)
    PROVE  Good(d)'
<1>t. PlaceOK /\ CallOK /\ ReplyOK /\ pause' \in Waits BY DEF Typed, PauseOK
<1>1. UNCHANGED <<held, retriedAuth>> /\ pc[c] = "answered"
  BY DEF NotModified, Refused, Retries, Limited, Succeeds, Arrives
<1>2. CASE d # c
  <2>1. pc'[d] = pc[d] /\ sends'[d] = sends[d]
    BY <1>t, <1>2 DEF NotModified, Refused, Retries, Limited, Succeeds, Proceed, Ends, PlaceOK
  <2>2. attempt'[d] = attempt[d]
    BY <1>t, <1>2 DEF NotModified, Refused, Retries, Limited, Succeeds, CallOK
  <2>3. reply'[d] = reply[d]
    BY <1>t, <1>2 DEF NotModified, Refused, Retries, Limited, Succeeds, Arrives, ReplyOK
  <2>4. QED BY <1>1, <2>1, <2>2, <2>3, OtherGood
<1>3. CASE d = c /\ Retries(c)
  <2>1. Proceed({c}, pause') /\ attempt'[c] = attempt[c] + 1 BY <1>t, <1>3 DEF Retries, CallOK
  <2>2. sends'[c] = sends[c] + Open(c)' BY <1>t, <2>1, ProceedCounts
  <2>3. Open(c) = 1 /\ Extra(c)' = Extra(c) BY <1>1 DEF Open, Extra, Pending
  <2>4. Counted(c)' BY <1>t, <1>3, <2>1, <2>2, <2>3, Numbers, GoesOnCounts DEF Good
  <2>5. pc'[c] # "answered" BY <2>1 DEF Proceed
  <2>6. QED BY <1>3, <2>4, <2>5 DEF Good, Matches
<1>4. CASE d = c /\ ~Retries(c)
  <2>1. pc'[c] \in {"ok", "limited", "refused"} /\ UNCHANGED <<sends, attempt>>
    BY <1>t, <1>4 DEF NotModified, Refused, Limited, Succeeds, Ends, PlaceOK
  <2>2. Counted(c)' BY <1>t, <1>1, <1>4, <2>1, EndCounts DEF Good, Pending
  <2>3. QED BY <1>4, <2>1, <2>2 DEF Good, Matches
<1>5. QED BY <1>2, <1>3, <1>4

LEMMA WorldGood ==
    ASSUME Tick \/ Expire \/ Evict \/ Rotate \/ Changes \/ UNCHANGED vars,
           NEW d \in Calls, Good(d)
    PROVE  Good(d)'
<1>1. UNCHANGED <<pc, held, retriedAuth, attempt, sends, reply>>
  BY DEF Tick, Expire, Evict, Rotate, Changes, vars, calls
<1>2. QED BY <1>1, OtherGood

LEMMA NextKeeps == IndInv /\ [Next]_vars => IndInv'
<1> SUFFICES ASSUME IndInv, [Next]_vars PROVE IndInv'
  OBVIOUS
<1>1. TypeOK /\ told <= pause /\ \A d \in Calls : Good(d) BY DEF IndInv, Good
<1>2. (TypeOK /\ told <= pause)' BY <1>1, TypeStep
<1>3. Typed /\ PauseOK' BY <1>1, <1>2, Parts, PartsPrimed DEF Typed
<1>4. ASSUME NEW d \in Calls PROVE Good(d)'
  BY <1>1, <1>3, BeginGood, ResolutionGood, RequestGood, RefreshGood, HandlerGood, WorldGood
     DEF Next, Steps, Handles
<1>5. QED BY <1>2, <1>4 DEF IndInv, Good

\* For any calls, retries and tokens: types, counted requests, and every 304
\* about what its call holds (github.js, api and its caches).
THEOREM ApiInductive == Spec => []IndInv
BY InitInv, NextKeeps, PTL DEF Spec

\* A call of api() sends at most MAX_RATE_LIMIT_RETRIES requests besides its
\* first and the one after a refresh.
THEOREM Bounded == Spec => []RequestsBounded
<1>1. IndInv => RequestsBounded
  <2> SUFFICES ASSUME IndInv, NEW c \in Calls PROVE sends[c] <= MAX_RATE_LIMIT_RETRIES + 2
    BY DEF RequestsBounded
  <2>1. PlaceOK /\ CallOK /\ Counted(c) BY Parts DEF IndInv
  <2>2. attempt[c] <= MAX_RATE_LIMIT_RETRIES BY <2>1, RetriesAssumption DEF CallOK
  <2>3. QED BY <2>1, <2>2, CountedIs, Numbers, RetriesAssumption
<1>2. QED BY <1>1, ApiInductive, PTL

\* No call sends while a wait that GitHub asked any call for has not passed
\* (awaitRateLimit, pauseRateLimit).
THEOREM NobodySendsEarly == Spec => PauseRespected
<1>1. IndInv /\ [Next]_vars => (\A c \in Calls : sends'[c] # sends[c] => told' = 0) \/ UNCHANGED vars
  <2> SUFFICES ASSUME IndInv, [Next]_vars, NEW c \in Calls, sends'[c] # sends[c]
               PROVE  told' = 0
    OBVIOUS
  <2>1. PlaceOK /\ PauseOK /\ PauseOK'
    <3>1. TypeOK /\ told <= pause BY DEF IndInv
    <3>2. QED BY <3>1, TypeStep, Parts, PartsPrimed
  <2>2. \A S, left : Proceed(S, left) => left = 0 \/ sends' = sends
    <3>1. ASSUME NEW S, NEW left, Proceed(S, left), left # 0 PROVE sends' = sends
      BY <2>1, <3>1 DEF Proceed, PlaceOK
    <3>2. QED BY <3>1
  <2>3. pause' = 0
    <3>1. ASSUME NEW d \in Calls, Begin(d) PROVE pause' = 0
      BY <2>2, <3>1 DEF Begin, UseToken, Joins, Ends, limits
    <3>2. CASE Resolves BY <2>2, <3>2 DEF Resolves, limits
    <3>3. ASSUME NEW d \in Calls, Wake(d) PROVE pause' = 0 BY <2>2, <3>3 DEF Wake, limits
    <3>4. ASSUME NEW d \in Calls, Refreshes(d) PROVE pause' = 0
      BY <2>2, <3>4 DEF Refreshes, UseToken, Joins, Ends, limits
    <3>5. ASSUME NEW d \in Calls, Retries(d) PROVE pause' = 0 BY <2>2, <3>5 DEF Retries
    <3>6. CASE UNCHANGED sends BY <3>6
    <3>7. QED
      BY <3>1, <3>2, <3>3, <3>4, <3>5, <3>6
         DEF Next, Steps, Handles, Answer, AnswerLimited, RequestFails, NotModified, Refused,
             Limited, Succeeds, Abort, Ends, Reads, ResolveFails, Tick, Expire, Evict, Rotate,
             Changes, vars, calls
  <2>4. QED BY <2>1, <2>3, CapAssumption DEF PauseOK, Waits
<1>2. QED BY <1>1, ApiInductive, PTL DEF Spec, PauseRespected

\* A late 401 on an old token does not cost the fresh one (invalidateToken).
THEOREM FreshTokensKept == Spec => FreshTokenKept
<1>1. [Next]_vars =>
        (cachedToken # 0 /\ cachedToken' = 0
            => \E c \in Calls : tok[c] = cachedToken /\ reply[c].kind = "unauthorized")
        \/ UNCHANGED vars
  <2> SUFFICES ASSUME [Next]_vars, cachedToken # 0, cachedToken' = 0
               PROVE  \E c \in Calls : tok[c] = cachedToken /\ reply[c].kind = "unauthorized"
    OBVIOUS
  <2>1. ASSUME NEW c \in Calls, Refreshes(c)
        PROVE  \E d \in Calls : tok[d] = cachedToken /\ reply[d].kind = "unauthorized"
    BY <2>1 DEF Refreshes, InvalidateToken, Arrives
  <2>2. CASE Resolves BY <2>2, TokenAssumption DEF Resolves
  <2>3. CASE UNCHANGED cachedToken BY <2>3
  <2>4. QED
    BY <2>1, <2>2, <2>3
       DEF Next, Steps, Handles, Begin, Wake, Answer, AnswerLimited, RequestFails, NotModified,
           Refused, Retries, Limited, Succeeds, Abort, Reads, ResolveFails, Tick, Expire, Evict,
           Rotate, Changes, auth, vars
<1>2. QED BY <1>1, PTL DEF Spec, FreshTokenKept

\* What a call returns is what GitHub answered, though the cache changes
\* meanwhile (api, line 233).
THEOREM CurrentAnswers == Spec => AnswersAreCurrent
<1>1. IndInv /\ [Next]_vars =>
        (\A c \in Calls : pc[c] = "answered" /\ pc'[c] = "ok" => got'[c] = reply[c].data)
        \/ UNCHANGED vars
  <2> SUFFICES ASSUME IndInv, [Next]_vars, NEW c \in Calls, pc[c] = "answered", pc'[c] = "ok"
               PROVE  got'[c] = reply[c].data
    OBVIOUS
  <2>1. PlaceOK /\ CallOK /\ Matches(c) BY Parts DEF IndInv
  <2>2. \A S, left : Proceed(S, left) => pc'[c] # "ok"
    BY <2>1 DEF Proceed
  <2>3. \A d \in Calls : \A how : Ends(d, how) => how = "ok" /\ d = c
    <3>1. ASSUME NEW d \in Calls, NEW how, Ends(d, how) PROVE how = "ok" /\ d = c
      BY <2>1, <3>1 DEF Ends, PlaceOK
    <3>2. QED BY <3>1
  <2>4. ASSUME NEW d \in Calls, NotModified(d) PROVE got'[c] = reply[c].data
    <3>1. d = c BY <2>3, <2>4 DEF NotModified
    <3>2. QED BY <2>1, <2>4, <3>1 DEF NotModified, Arrives, Matches, CallOK
  <2>5. ASSUME NEW d \in Calls, Succeeds(d) PROVE got'[c] = reply[c].data
    <3>1. d = c BY <2>3, <2>5 DEF Succeeds
    <3>2. QED BY <2>1, <2>5, <3>1 DEF Succeeds, CallOK
  <2>6. ASSUME NEW d \in Calls, Begin(d) \/ Wake(d) \/ Retries(d) \/ Refreshes(d) PROVE FALSE
    BY <2>2, <2>3, <2>6 DEF Begin, Wake, Retries, Refreshes, UseToken, Joins
  <2>7. ASSUME NEW d \in Calls, RequestFails(d) \/ Refused(d) \/ Limited(d) \/ Abort(d) PROVE FALSE
    BY <2>3, <2>7 DEF RequestFails, Refused, Limited, Abort
  <2>8. ASSUME NEW d \in Calls, Answer(d) \/ AnswerLimited(d) PROVE FALSE
    BY <2>1, <2>8 DEF Answer, AnswerLimited, PlaceOK
  <2>9. ~Resolves /\ ~ResolveFails
    BY <2>1, <2>2 DEF Resolves, ResolveFails
  <2>10. pc' # pc OBVIOUS
  <2>11. QED
    BY <2>4, <2>5, <2>6, <2>7, <2>8, <2>9, <2>10
       DEF Next, Steps, Handles, Reads, Tick, Expire, Evict, Rotate, Changes, vars, calls
<1>2. QED BY <1>1, ApiInductive, PTL DEF Spec, AnswersAreCurrent

-----------------------------------------------------------------------------
(***************************************************************************)
(* Recovery from a changed credential.  Its statement has a box inside, so *)
(* what is proved inductive is a condition on one call c that holds from   *)
(* the moment the premise does.                                            *)
(***************************************************************************)
Asking == {"gated", "sent", "answered"}

\* A call that has not begun has not refreshed anything.
Unused(c) == pc[c] = "idle" => ~retriedAuth[c]

\* From then on what is resolved is the last token.  The first token of c may
\* be an old one, but then none but that one and the last is cached; after its
\* refresh c sends the last one, and no 401 is on its way to it.
Recovering(c) ==
    /\ token = MaxToken /\ ~env /\ resolution \in {-1, 0, MaxToken}
    /\ pc[c] # "refused"
    /\ pc[c] = "idle" \/ pc[c] = "token" => ~retriedAuth[c]
    /\ pc[c] = "refresh" => retriedAuth[c]
    /\ pc[c] \in Asking =>
         IF retriedAuth[c] THEN tok[c] = MaxToken ELSE cachedToken \in {0, MaxToken, tok[c]}
    /\ pc[c] = "answered" /\ reply[c].kind = "unauthorized" => tok[c] # MaxToken

\* What a step of any call leaves of the resolution and of the cached token.
LEMMA ResolvedIsLast ==
    ASSUME TypeOK, NEW c \in Calls, Recovering(c), Next
    PROVE  /\ token' = MaxToken /\ ~env' /\ resolution' \in {-1, 0, MaxToken}
           /\ cachedToken' \in {0, cachedToken, MaxToken}
<1>1. token' = MaxToken /\ ~env'
  <2>1. MaxToken \in Nat /\ token = MaxToken /\ ~env BY TokenAssumption DEF Recovering
  <2>2. ~Rotate BY <2>1 DEF Rotate
  <2>3. Changes \/ UNCHANGED world
    BY <2>2 DEF Next, Steps, Handles, Begin, Wake, Answer, AnswerLimited, RequestFails,
       NotModified, Refreshes, Refused, Retries, Limited, Succeeds, Abort, Reads, Resolves,
       ResolveFails, Tick, Expire, Evict
  <2>4. token' = token /\ env' = env BY <2>3 DEF Changes, world
  <2>5. QED BY <2>1, <2>4
<1>2. resolution' \in {-1, 0, MaxToken} /\ cachedToken' \in {0, cachedToken, MaxToken}
  <2>1. resolution \in {-1, 0, MaxToken} /\ token = MaxToken /\ ~env BY DEF Recovering
  <2>2. \A d \in Calls : Joins(d) => resolution' \in {-1, 0, MaxToken} BY <2>1 DEF Joins
  <2>3. \A t : InvalidateToken(t) => cachedToken' \in {0, cachedToken} BY DEF InvalidateToken
  <2>4. ASSUME NEW d \in Calls, Begin(d) \/ Refreshes(d)
        PROVE  resolution' \in {-1, 0, MaxToken} /\ cachedToken' \in {0, cachedToken, MaxToken}
    BY <2>1, <2>2, <2>3, <2>4 DEF Begin, Refreshes
  <2>5. CASE Reads \/ Resolves \/ ResolveFails
    BY <2>1, <2>5 DEF Reads, Resolves, ResolveFails
  <2>6. CASE UNCHANGED <<resolution, cachedToken>> BY <2>1, <2>6
  <2>7. QED
    BY <2>4, <2>5, <2>6
       DEF Next, Steps, Handles, Wake, Answer, AnswerLimited, RequestFails, NotModified, Refused,
           Retries, Limited, Succeeds, Abort, Tick, Expire, Evict, Rotate, Changes, auth
<1>3. QED BY <1>1, <1>2

\* A step that leaves c where it is.
LEMMA OthersRecover ==
    ASSUME TypeOK, NEW c \in Calls, Recovering(c), Next,
           pc'[c] = pc[c], tok'[c] = tok[c], retriedAuth'[c] = retriedAuth[c], reply'[c] = reply[c]
    PROVE  Recovering(c)'
<1>1. cachedToken' \in {0, cachedToken, MaxToken} BY ResolvedIsLast
<1>2. QED BY <1>1, ResolvedIsLast DEF Recovering

\* Where Proceed and Ends put c.
LEMMA GoesOn ==
    ASSUME PlaceOK, NEW c \in Calls
    PROVE  /\ \A S, left : Proceed(S, left) =>
                 pc'[c] = IF c \notin S THEN pc[c] ELSE IF left > 0 THEN "gated" ELSE "sent"
           /\ \A d, how : Ends(d, how) => pc'[c] = IF d = c THEN how ELSE pc[c]
BY DEF PlaceOK, Proceed, Ends

LEMMA OwnRecovers ==
    ASSUME TypeOK, told <= pause, NEW c \in Calls, Recovering(c), Next, Begin(c) \/ Steps(c) \/ Abort(c)
    PROVE  Recovering(c)'
<1>0. /\ PlaceOK /\ CallOK /\ ReplyOK /\ AuthOK BY Parts
<1>1. token' = MaxToken /\ ~env' /\ resolution' \in {-1, 0, MaxToken} BY ResolvedIsLast
<1>2. CASE Begin(c)
  <2>1. retriedAuth' = retriedAuth /\ ~retriedAuth[c] /\ cachedToken' = cachedToken
    BY <1>2 DEF Begin, Recovering
  <2>2. \/ pc'[c] = "token"
        \/ pc'[c] \in {"gated", "sent"} /\ tok'[c] = cachedToken
    BY <1>0, <1>2, GoesOn DEF Begin, Joins, UseToken, CallOK
  <2>3. QED BY <1>1, <2>1, <2>2 DEF Recovering, Asking
<1>3. CASE Wake(c)
  <2>1. UNCHANGED <<tok, retriedAuth, cachedToken>> /\ pc[c] = "gated"
    BY <1>3 DEF Wake, auth
  <2>2. pc'[c] \in {"gated", "sent"} BY <1>0, <1>3, GoesOn DEF Wake
  <2>3. QED BY <1>1, <2>1, <2>2 DEF Recovering, Asking
<1>4. CASE Answer(c) \/ AnswerLimited(c)
  <2>1. UNCHANGED <<tok, retriedAuth, cachedToken>> /\ pc[c] = "sent" /\ pc'[c] = "answered"
    BY <1>0, <1>4 DEF Answer, AnswerLimited, auth, PlaceOK
  <2>2. reply'[c].kind = "unauthorized" => tok[c] # token
    BY <1>0, <1>4 DEF Answer, AnswerLimited, ReplyOK
  <2>3. QED BY <1>1, <2>1, <2>2 DEF Recovering, Asking
<1>5. CASE RequestFails(c) \/ NotModified(c) \/ Limited(c) \/ Succeeds(c) \/ Abort(c)
  <2>1. pc'[c] \in Ended \ {"refused"}
    BY <1>0, <1>5, GoesOn DEF RequestFails, NotModified, Limited, Succeeds, Abort, Ended
  <2>2. QED BY <1>1, <2>1 DEF Recovering, Asking, Ended
<1>6. CASE Refused(c)
  <2>1. pc[c] = "answered" /\ reply[c].kind = "unauthorized" /\ (env \/ retriedAuth[c])
    BY <1>6 DEF Refused, Arrives
  <2>2. FALSE BY <2>1 DEF Recovering, Asking
  <2>3. QED BY <2>2
<1>7. CASE Retries(c)
  <2>1. UNCHANGED <<tok, retriedAuth, cachedToken>> /\ pc[c] = "answered"
    BY <1>7 DEF Retries, Arrives, auth
  <2>2. pc'[c] \in {"gated", "sent"} BY <1>0, <1>7, GoesOn DEF Retries
  <2>3. QED BY <1>1, <2>1, <2>2 DEF Recovering, Asking
<1>8. CASE Refreshes(c)
  <2>1. /\ pc[c] = "answered" /\ reply[c].kind = "unauthorized" /\ ~retriedAuth[c]
        /\ retriedAuth'[c]
    BY <1>0, <1>8 DEF Refreshes, Arrives, CallOK
  <2>2. cachedToken \in {0, MaxToken, tok[c]} /\ tok[c] # MaxToken
    BY <2>1 DEF Recovering, Asking
  <2>3. cachedToken' \in {0, MaxToken}
    BY <1>8, <2>2 DEF Refreshes, InvalidateToken
  <2>4. \/ pc'[c] = "refresh"
        \/ pc'[c] \in {"gated", "sent"} /\ tok'[c] = MaxToken
    BY <1>0, <1>8, <2>1, <2>3, GoesOn DEF Refreshes, Joins, UseToken, CallOK
  <2>5. QED BY <1>1, <2>1, <2>4 DEF Recovering, Asking
<1>9. QED
  BY <1>2, <1>3, <1>4, <1>5, <1>6, <1>7, <1>8 DEF Steps, Handles

\* A resolution gives the last token to whoever waits.
LEMMA ResolutionRecovers ==
    ASSUME TypeOK, told <= pause, NEW c \in Calls, Recovering(c), Next, Reads \/ Resolves \/ ResolveFails
    PROVE  Recovering(c)'
<1>0. PlaceOK /\ CallOK /\ AuthOK BY Parts
<1>1. token' = MaxToken /\ ~env' /\ resolution' \in {-1, 0, MaxToken} BY ResolvedIsLast
<1>2. CASE Reads BY <1>2, OthersRecover DEF Reads, calls
<1>3. CASE Resolves
  <2>1. resolution = MaxToken /\ cachedToken' = MaxToken /\ UNCHANGED <<retriedAuth, reply>>
    BY <1>3 DEF Resolves, Recovering
  <2>2. CASE c \in Waiting
    <3>1. pc'[c] \in {"gated", "sent"} /\ tok'[c] = MaxToken
      BY <1>0, <1>3, <2>1, <2>2, GoesOn DEF Resolves
    <3>2. QED BY <1>1, <2>1, <3>1 DEF Recovering, Asking
  <2>3. CASE c \notin Waiting
    <3>1. pc'[c] = pc[c] /\ tok'[c] = tok[c] BY <1>0, <1>3, <2>3, GoesOn DEF Resolves
    <3>2. QED BY <2>1, <3>1, OthersRecover
  <2>4. QED BY <2>2, <2>3
<1>4. CASE ResolveFails
  <2>1. UNCHANGED <<retriedAuth, reply, tok>> BY <1>4 DEF ResolveFails
  <2>2. pc'[c] = pc[c] \/ pc'[c] = "failed" BY <1>0, <1>4 DEF ResolveFails
  <2>3. CASE pc'[c] = "failed" BY <1>1, <2>3 DEF Recovering, Asking
  <2>4. QED BY <2>1, <2>2, <2>3, OthersRecover
<1>5. QED BY <1>2, <1>3, <1>4

LEMMA RecoveryStep ==
    ASSUME TypeOK, told <= pause, NEW c \in Calls, Recovering(c), [Next]_vars
    PROVE  Recovering(c)'
<1>0. PlaceOK /\ CallOK /\ ReplyOK BY Parts
<1>1. CASE UNCHANGED vars BY <1>1 DEF vars, calls, auth, world, Recovering
<1>2. CASE Next /\ (Tick \/ Expire \/ Evict \/ Rotate \/ Changes)
  BY <1>2, OthersRecover DEF Tick, Expire, Evict, Rotate, Changes, calls
<1>3. ASSUME NEW d \in Calls, d # c, Next, Begin(d) \/ Steps(d) \/ Abort(d) PROVE Recovering(c)'
  <2>1. pc'[c] = pc[c]
    BY <1>0, <1>3, GoesOn
       DEF Begin, Steps, Handles, Wake, Answer, AnswerLimited, RequestFails, NotModified, Refreshes,
           Refused, Retries, Limited, Succeeds, Abort, UseToken, Joins, PlaceOK
  <2>2. /\ tok'[c] = tok[c] /\ retriedAuth'[c] = retriedAuth[c] /\ reply'[c] = reply[c]
    BY <1>0, <1>3
       DEF Begin, Steps, Handles, Wake, Answer, AnswerLimited, RequestFails, NotModified, Refreshes,
           Refused, Retries, Limited, Succeeds, Abort, UseToken, Joins, Arrives, CallOK, ReplyOK
  <2>3. QED BY <1>3, <2>1, <2>2, OthersRecover
<1>4. QED
  BY <1>1, <1>2, <1>3, OwnRecovers, ResolutionRecovers DEF Next

LEMMA UnusedStep ==
    ASSUME TypeOK, told <= pause, NEW c \in Calls, Unused(c), [Next]_vars
    PROVE  Unused(c)'
<1>0. PlaceOK /\ CallOK BY Parts
<1>1. ASSUME NEW d \in Calls, Refreshes(d) PROVE Unused(c)'
  <2>1. d = c => pc'[c] # "idle"
    BY <1>0, <1>1, GoesOn DEF Refreshes, UseToken, Joins, Arrives
  <2>2. d # c => pc'[c] = pc[c] /\ retriedAuth'[c] = retriedAuth[c]
    BY <1>0, <1>1, GoesOn DEF Refreshes, UseToken, Joins, CallOK
  <2>3. QED BY <2>1, <2>2 DEF Unused
<1>2. CASE retriedAuth' = retriedAuth /\ (pc'[c] = "idle" => pc[c] = "idle")
  BY <1>2 DEF Unused
<1>3. ASSUME NEW d \in Calls, Begin(d) \/ Wake(d) \/ Retries(d) PROVE Unused(c)'
  <2>1. retriedAuth' = retriedAuth BY <1>3 DEF Begin, Wake, Retries
  <2>2. pc'[c] = "idle" => pc[c] = "idle"
    BY <1>0, <1>3, GoesOn DEF Begin, Wake, Retries, UseToken, Joins
  <2>3. QED BY <1>2, <2>1, <2>2
<1>4. CASE \E d \in Calls : \/ Answer(d) \/ AnswerLimited(d) \/ RequestFails(d) \/ NotModified(d)
                            \/ Refused(d) \/ Limited(d) \/ Succeeds(d) \/ Abort(d)
  <2>1. retriedAuth' = retriedAuth
    BY <1>4 DEF Answer, AnswerLimited, RequestFails, NotModified, Refused, Limited, Succeeds, Abort
  <2>2. pc'[c] = "idle" => pc[c] = "idle"
    BY <1>0, <1>4, GoesOn
       DEF Answer, AnswerLimited, RequestFails, NotModified, Refused, Limited, Succeeds, Abort, PlaceOK
  <2>3. QED BY <1>2, <2>1, <2>2
<1>5. CASE Reads \/ Resolves \/ ResolveFails
  <2>1. retriedAuth' = retriedAuth BY <1>5 DEF Reads, Resolves, ResolveFails, calls
  <2>2. pc'[c] = "idle" => pc[c] = "idle"
    BY <1>0, <1>5, GoesOn DEF Reads, Resolves, ResolveFails, calls, PlaceOK
  <2>3. QED BY <1>2, <2>1, <2>2
<1>6. CASE Tick \/ Expire \/ Evict \/ Rotate \/ Changes \/ UNCHANGED vars
  BY <1>2, <1>6 DEF Tick, Expire, Evict, Rotate, Changes, calls, vars
<1>7. QED
  BY <1>1, <1>3, <1>4, <1>5, <1>6 DEF Next, Steps, Handles

\* Once the credential has stopped changing, a call that begins while no
\* resolution is under way is not refused, whatever token is cached and whoever
\* else is refused meanwhile (getToken, invalidateToken and the one refresh).
THEOREM RecoversOnce == Spec => Recovers
<1>1. ASSUME NEW c \in Calls
      PROVE  Spec => []((token = MaxToken /\ ~env /\ resolution = 0 /\ pc[c] = "idle")
                        => [](pc[c] # "refused"))
  <2>1. Init => Unused(c) BY DEF Init, Unused
  <2>2. IndInv /\ Unused(c) /\ [Next]_vars => Unused(c)' BY UnusedStep DEF IndInv
  <2>3. Unused(c) /\ token = MaxToken /\ ~env /\ resolution = 0 /\ pc[c] = "idle" => Recovering(c)
    BY DEF Unused, Recovering, Asking
  <2>4. IndInv /\ Recovering(c) /\ [Next]_vars => Recovering(c)' BY RecoveryStep DEF IndInv
  <2>5. Recovering(c) => pc[c] # "refused" BY DEF Recovering
  <2>6. QED BY <2>1, <2>2, <2>3, <2>4, <2>5, ApiInductive, PTL DEF Spec
<1>2. QED BY <1>1 DEF Recovers

-----------------------------------------------------------------------------
(***************************************************************************)
(* Nobody is forgotten.  That a call ends needs fairness; that what it     *)
(* waits for is under way does not.                                        *)
(***************************************************************************)
\* A call that waits for a token waits for a resolution that runs, and a gate
\* opens no later than the pause it was made for, so a timer is running.
Attended(c) ==
    /\ pc[c] \in {"token", "refresh"} => resolution # 0
    /\ pc[c] = "gated" => gate[c] <= pause

LEMMA AttendedElsewhere ==
    ASSUME NEW c \in Calls, Attended(c), pc'[c] = pc[c], gate'[c] = gate[c],
           resolution # 0 => resolution' # 0, PauseOK, PauseOK', pause' >= pause, gate[c] \in Waits
    PROVE  Attended(c)'
BY CapAssumption DEF Attended, PauseOK, Waits

\* Proceed and Joins attend to the call they move.
LEMMA ProceedAttends ==
    ASSUME PlaceOK, PauseOK', NEW c \in Calls, NEW S, c \in S, Proceed(S, pause')
    PROVE  Attended(c)'
<1>1. pc'[c] \in {"gated", "sent"} /\ gate'[c] = pause' BY DEF Proceed, PlaceOK
<1>2. QED BY <1>1, CapAssumption DEF Attended, PauseOK, Waits

LEMMA JoinsAttends ==
    ASSUME PlaceOK, AuthOK, NEW c \in Calls, Joins(c)
    PROVE  Attended(c)'
<1>1. pc'[c] \in {"token", "refresh"} /\ resolution' # 0
  BY TokenAssumption DEF Joins, Ends, PlaceOK
<1>2. QED BY <1>1 DEF Attended

LEMMA AttendedStep ==
    ASSUME IndInv, \A c \in Calls : Attended(c), [Next]_vars, NEW c \in Calls
    PROVE  Attended(c)'
<1>0. PlaceOK /\ CallOK /\ AuthOK /\ PauseOK /\ PauseOK'
  <2>1. TypeOK /\ told <= pause BY DEF IndInv
  <2>2. QED BY <2>1, TypeStep, Parts, PartsPrimed
<1>1. gate[c] \in Waits /\ pause \in Waits /\ pause' \in Waits BY <1>0 DEF PlaceOK, PauseOK
<1>2. ASSUME NEW d \in Calls, Begin(d) \/ Wake(d) \/ Refreshes(d) \/ Retries(d) PROVE Attended(c)'
  <2>1. Joins(d) \/ Proceed({d}, pause')
    BY <1>2 DEF Begin, Wake, Refreshes, Retries, UseToken, limits
  <2>2. CASE d = c BY <1>0, <2>1, <2>2, ProceedAttends, JoinsAttends
  <2>3. CASE d # c
    <3>1. pc'[c] = pc[c] /\ gate'[c] = gate[c]
      BY <1>0, <2>1, <2>3 DEF Joins, Ends, Proceed, PlaceOK
    <3>2. (resolution # 0 => resolution' # 0) /\ pause' >= pause
      BY <1>1, <1>2, CapAssumption
         DEF Begin, Wake, Refreshes, Retries, Joins, PauseRateLimit, limits, auth, Waits
    <3>3. QED BY <1>0, <1>1, <3>1, <3>2, AttendedElsewhere
  <2>4. QED BY <2>2, <2>3
<1>3. ASSUME NEW d \in Calls,
             \/ Answer(d) \/ AnswerLimited(d) \/ RequestFails(d) \/ NotModified(d)
             \/ Refused(d) \/ Limited(d) \/ Succeeds(d) \/ Abort(d)
      PROVE  Attended(c)'
  <2>1. gate' = gate /\ resolution' = resolution
    BY <1>3 DEF Answer, AnswerLimited, RequestFails, NotModified, Refused, Limited, Succeeds, Abort,
                Ends, auth
  <2>2. pause' >= pause
    BY <1>1, <1>3, CapAssumption
       DEF Answer, AnswerLimited, RequestFails, NotModified, Refused, Limited, Succeeds, Abort,
           PauseRateLimit, limits, Waits
  <2>3. pc'[c] = pc[c] \/ pc'[c] \in Ended \union {"answered"}
    BY <1>0, <1>3, GoesOn
       DEF Answer, AnswerLimited, RequestFails, NotModified, Refused, Limited, Succeeds, Abort,
           PlaceOK, Ended
  <2>4. CASE pc'[c] = pc[c] BY <1>0, <1>1, <2>1, <2>2, <2>4, AttendedElsewhere
  <2>5. CASE pc'[c] \in Ended \union {"answered"} BY <2>5 DEF Attended, Ended
  <2>6. QED BY <2>3, <2>4, <2>5
<1>4. CASE Resolves \/ ResolveFails
  <2>1. CASE c \in Waiting
    <3>1. CASE Resolves
      <4>1. Proceed(Waiting, pause') BY <3>1 DEF Resolves, limits
      <4>2. QED BY <1>0, <2>1, <4>1, ProceedAttends
    <3>2. CASE ResolveFails
      <4>1. pc'[c] = "failed" BY <1>0, <2>1, <3>2 DEF ResolveFails
      <4>2. QED BY <4>1 DEF Attended
    <3>3. QED BY <1>4, <3>1, <3>2
  <2>2. CASE c \notin Waiting
    <3>1. pc'[c] = pc[c] /\ gate'[c] = gate[c] /\ pause' = pause
      BY <1>0, <1>4, <2>2 DEF Resolves, ResolveFails, Proceed, PlaceOK, limits
    <3>2. pc[c] \notin {"token", "refresh"} BY <2>2 DEF Waiting
    <3>3. QED BY <3>1, <3>2 DEF Attended
  <2>3. QED BY <2>1, <2>2
<1>5. CASE Tick
  <2>1. /\ pc'[c] = pc[c] /\ resolution' = resolution
        /\ gate'[c] = Less(gate[c]) /\ pause' = Less(pause)
    BY <1>0, <1>5 DEF Tick, auth, PlaceOK
  <2>2. gate[c] <= pause => Less(gate[c]) <= Less(pause)
    BY <1>1, CapAssumption DEF Less, Waits
  <2>3. QED BY <2>1, <2>2 DEF Attended
<1>6. CASE Reads \/ Expire \/ Evict \/ Rotate \/ Changes \/ UNCHANGED vars
  <2>1. /\ UNCHANGED <<pc, gate, pause>>
        /\ resolution # 0 => resolution' # 0
    BY <1>0, <1>6, TokenAssumption
       DEF Reads, Expire, Evict, Rotate, Changes, calls, auth, limits, vars, AuthOK, Tokens
  <2>2. QED BY <2>1 DEF Attended
<1>7. QED
  BY <1>2, <1>3, <1>4, <1>5, <1>6 DEF Next, Steps, Handles

\* No call waits for a resolution that nobody runs, nor at a gate whose timer
\* is gone: a failed or shared resolution is heard by every call that joined it
\* (getToken, awaitRateLimit).
THEOREM NobodyForgotten == Spec => [](\A c \in Calls : Attended(c))
<1>1. Init => \A c \in Calls : Attended(c) BY DEF Init, Attended
<1>2. IndInv /\ (\A c \in Calls : Attended(c)) /\ [Next]_vars => (\A c \in Calls : Attended(c))'
  BY AttendedStep
<1>3. QED BY <1>1, <1>2, ApiInductive, PTL DEF Spec
=============================================================================
