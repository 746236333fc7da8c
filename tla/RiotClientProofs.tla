-------------------------- MODULE RiotClientProofs --------------------------
(***************************************************************************)
(* Proofs about the client, for any threads, routes, methods, replies and  *)
(* windows.  The limiter of the client is the limiter of RateHandlerProofs *)
(* given the responses that the replies can add up to: the first section   *)
(* says so operation by operation, so that what is proved of the limiter   *)
(* holds of it in the client.                                              *)
(***************************************************************************)
EXTENDS RiotClient, TLAPS

\* What the limiter can be given: headers a request keeps from earlier attempts, or
\* from its defaults, are among them.
AnyResponse == [last_response: Int, response_header: AnnouncedHeader]

Rate == INSTANCE RateHandlerProofs WITH Responses <- AnyResponse
-----------------------------------------------------------------------------
(* The two names of the limiter's operators. *)

\* The limiter's assumption about its responses is met by the client's replies.
LEMMA ResponsesAnnounced == Rate!ResponsesAssumption
BY RepliesAssumption
   DEF Rate!ResponsesAssumption, AnyResponse, AnnouncedHeader, Rate!Response,
       Rate!RiotHeader, Limiter!RiotHeader, Rate!LimitPart, Limiter!LimitPart,
       Rate!AnnouncesAtMost, Limiter!AnnouncesAtMost, Rate!NoHeader, Limiter!NoHeader

LEMMA SameHierachyWait ==
    ASSUME NEW h, NEW t
    PROVE  Limiter!HierachyWaitTime(h, t) = Rate!HierachyWaitTime(h, t)
BY DEF Rate!HierachyWaitTime, Limiter!HierachyWaitTime, Rate!ScopeWaitTime,
       Limiter!ScopeWaitTime, Rate!Max, Limiter!Max, Rate!Expired, Limiter!Expired

LEMMA SameHierachyUpdate ==
    ASSUME NEW h, NEW t
    PROVE  Limiter!HierachyUpdateCount(h, t) = Rate!HierachyUpdateCount(h, t)
BY DEF Rate!HierachyUpdateCount, Limiter!HierachyUpdateCount,
       Rate!ScopeUpdateCount, Limiter!ScopeUpdateCount, Rate!Expired, Limiter!Expired

LEMMA SameHierachyInsert ==
    ASSUME NEW h, NEW t, NEW u
    PROVE  Limiter!HierachyInsertRequest(h, t, u) = Rate!HierachyInsertRequest(h, t, u)
BY DEF Rate!HierachyInsertRequest, Limiter!HierachyInsertRequest,
       Rate!ScopeInsertRequest, Limiter!ScopeInsertRequest,
       Rate!ScopeUpdateCount, Limiter!ScopeUpdateCount, Rate!Expired, Limiter!Expired

LEMMA SameRetryOnBack ==
    ASSUME NEW h, NEW retry, NEW t
    PROVE  Limiter!RetryOnBack(h, retry, t) = Rate!RetryOnBack(h, retry, t)
BY DEF Rate!RetryOnBack, Limiter!RetryOnBack, Rate!ScopeApplyRetryAfter,
       Limiter!ScopeApplyRetryAfter, Rate!Larger, Limiter!Larger

LEMMA SameSyncBuckets ==
    ASSUME NEW h, NEW limits, NEW cs, NEW t, NEW retry
    PROVE  Limiter!SyncBuckets(h, limits, cs, t, retry) = Rate!SyncBuckets(h, limits, cs, t, retry)
BY DEF Rate!SyncBuckets, Limiter!SyncBuckets, Rate!Rebuilt, Limiter!Rebuilt,
       Rate!CountAt, Limiter!CountAt, Rate!ScopeSyncFromServer, Limiter!ScopeSyncFromServer,
       Rate!ScopeApplyRetryAfter, Limiter!ScopeApplyRetryAfter, Rate!Larger, Limiter!Larger,
       Rate!Expired, Limiter!Expired, Rate!HierachyOf, Limiter!HierachyOf,
       Rate!NewScope, Limiter!NewScope

LEMMA SameSync ==
    ASSUME NEW h, NEW limits, NEW cs, NEW t, NEW u, NEW retry
    PROVE  Limiter!HierachySyncFromHeaders(h, limits, cs, t, u, retry)
              = Rate!HierachySyncFromHeaders(h, limits, cs, t, u, retry)
<1>1. \A g : Limiter!EnforceRetry(g, retry, t, u) = Rate!EnforceRetry(g, retry, t, u)
  BY SameHierachyWait, SameHierachyUpdate, SameRetryOnBack
     DEF Rate!EnforceRetry, Limiter!EnforceRetry
<1> QED BY <1>1, SameHierachyInsert, SameRetryOnBack, SameSyncBuckets
           DEF Rate!HierachySyncFromHeaders, Limiter!HierachySyncFromHeaders

LEMMA SameRegionInsert ==
    ASSUME NEW region, NEW m, NEW header, NEW t, NEW u, NEW retry
    PROVE  Limiter!RegionInsertWithHeaders(region, m, header, t, u, retry)
              = Rate!RegionInsertWithHeaders(region, m, header, t, u, retry)
BY SameSync DEF Rate!RegionInsertWithHeaders, Limiter!RegionInsertWithHeaders

LEMMA SameRegionUpdate ==
    ASSUME NEW region, NEW ms, NEW t
    PROVE  Limiter!RegionUpdateCount(region, ms, t) = Rate!RegionUpdateCount(region, ms, t)
BY SameHierachyUpdate DEF Rate!RegionUpdateCount, Limiter!RegionUpdateCount

LEMMA SameWait ==
    ASSUME NEW r, NEW m, NEW t
    PROVE  Limiter!WaitTime(r, m, t) = Rate!WaitTime(r, m, t)
BY SameHierachyWait
   DEF Rate!WaitTime, Limiter!WaitTime, Rate!RegionWaitTime, Limiter!RegionWaitTime,
       Rate!Larger, Limiter!Larger

LEMMA SameRetryAfter ==
    ASSUME NEW resp
    PROVE  Limiter!RetryAfterSec(resp) = Rate!RetryAfterSec(resp)
BY DEF Rate!RetryAfterSec, Limiter!RetryAfterSec, Rate!NoHeader, Limiter!NoHeader,
       Rate!Larger, Limiter!Larger

LEMMA SameInitialise ==
    ASSUME NEW header
    PROVE  Limiter!InitialiseCounts(header) = Rate!InitialiseCounts(header)
BY DEF Rate!InitialiseCounts, Limiter!InitialiseCounts, Rate!RegionInitLimits,
       Limiter!RegionInitLimits, Rate!HierachyOf, Limiter!HierachyOf,
       Rate!NewScope, Limiter!NewScope

\* The operations of the limiter, and what they start from.
LEMMA SameOperations ==
    /\ Limiter!Init <=> Rate!Init
    /\ \A r, m : Limiter!CheckRateLimits(r, m) <=> Rate!CheckRateLimits(r, m)
    /\ \A r, m, resp : Limiter!InsertRequest(r, m, resp) <=> Rate!InsertRequest(r, m, resp)
    /\ \A r, m : Limiter!GetWaitTimeBreakdown(r, m) <=> Rate!GetWaitTimeBreakdown(r, m)
    /\ Limiter!GetSnapshot <=> Rate!GetSnapshot
    /\ Limiter!Tick <=> Rate!Tick
<1>1. Limiter!Init <=> Rate!Init
  BY DEF Rate!Init, Limiter!Init, Rate!NewRegion, Limiter!NewRegion,
         Rate!NewScope, Limiter!NewScope
<1>2. ASSUME NEW r, NEW m
      PROVE  Limiter!CheckRateLimits(r, m) <=> Rate!CheckRateLimits(r, m)
  BY SameRegionUpdate DEF Rate!CheckRateLimits, Limiter!CheckRateLimits
<1>3. ASSUME NEW r, NEW m, NEW resp
      PROVE  Limiter!InsertRequest(r, m, resp) <=> Rate!InsertRequest(r, m, resp)
  BY SameRegionInsert, SameInitialise, SameRetryAfter
     DEF Rate!InsertRequest, Limiter!InsertRequest
<1>4. ASSUME NEW r, NEW m
      PROVE  Limiter!GetWaitTimeBreakdown(r, m) <=> Rate!GetWaitTimeBreakdown(r, m)
  BY SameRegionUpdate DEF Rate!GetWaitTimeBreakdown, Limiter!GetWaitTimeBreakdown
<1>5. Limiter!GetSnapshot <=> Rate!GetSnapshot
  BY SameRegionUpdate DEF Rate!GetSnapshot, Limiter!GetSnapshot
<1>6. Limiter!Tick <=> Rate!Tick
  BY DEF Rate!Tick, Limiter!Tick
<1> QED BY <1>1, <1>2, <1>3, <1>4, <1>5, <1>6
-----------------------------------------------------------------------------
(* Types, and the limiter's invariant in the client. *)

\* A request between Query and Return.
InQuery == {q \in Request : q.response_header \in AnnouncedHeader}

CInv ==
    /\ Rate!GInv
    /\ errors \in [Routes -> Int] /\ seen \in [Threads -> Int]
    /\ pc \in [Threads -> Labels]
    /\ request \in [Threads -> InQuery \cup {NoRequest}]
    /\ \A t \in Threads : pc[t] # "idle" => request[t] \in InQuery
    /\ calls \in 0 .. MaxCalls
    /\ current_wait \in Nat
    /\ quiet \in [Routes -> [Methods -> Nat]]

\* The response at hand, as Update gives it to the limiter.
ResponseOf(q) == [last_response |-> q.last_response, response_header |-> q.response_header]

LEMMA ResponseOfAny == ASSUME NEW q \in InQuery PROVE ResponseOf(q) \in AnyResponse
BY DEF InQuery, Request, ResponseOf, AnyResponse

\* Any headers of a reply on top of announced headers are announced headers.
LEMMA OverwriteAnnounced ==
    ASSUME NEW reply \in Replies, NEW h \in AnnouncedHeader
    PROVE  Overwrite(reply.header, h) \in AnnouncedHeader
BY RepliesAssumption DEF WellFormed, AnnouncedHeader, Overwrite, Limiter!RiotHeader

\* The pause a reply announces is the one the request has from then on.
LEMMA RetryAfterOverwritten ==
    ASSUME NEW reply \in Replies, "retry_after" \in DOMAIN reply.header,
           NEW h \in AnnouncedHeader
    PROVE  /\ reply.header.retry_after \in Nat \cup {NoHeader}
           /\ Overwrite(reply.header, h).retry_after = reply.header.retry_after
<1>1. \A g \in AnnouncedHeader :
         /\ "retry_after" \in DOMAIN g
         /\ g.retry_after \in Nat \cup {NoHeader}
  BY DEF AnnouncedHeader, Limiter!RiotHeader, NoHeader, Limiter!NoHeader
<1>2. \A g \in AnnouncedHeader :
         Overwrite(reply.header, g).retry_after = reply.header.retry_after
  BY <1>1 DEF Overwrite
<1>3. DefaultHeader \in AnnouncedHeader
  BY RepliesAssumption
<1>4. Overwrite(reply.header, DefaultHeader) \in AnnouncedHeader
  BY <1>3, OverwriteAnnounced
<1> QED BY <1>1, <1>2, <1>3, <1>4

\* The wait that SendTime adds to the clock.
LEMMA SendTimeNat ==
    ASSUME CInv, NEW r \in Routes, NEW m \in Methods, now' \in Nat, NEW old \in Nat
    PROVE  Limiter!SendTime(r, m, old) \in Nat
<1>1. Limiter!WaitTime(r, m, now) \in Nat
  <2>1. Rate!WaitTime(r, m, now) \in 0 .. MaxWindow
    BY ResponsesAnnounced, Rate!WaitTimeBounded DEF CInv, Rate!GInv
  <2> QED BY <2>1, SameWait, RepliesAssumption
<1> QED BY <1>1 DEF Limiter!SendTime

\* Whatever the client does is a step of the limiter, or none.
LEMMA ClientDrivesLimiter == CInv /\ [Next]_vars => [Rate!Next]_(Rate!vars)
<1> SUFFICES ASSUME CInv, [Next]_vars PROVE [Rate!Next]_(Rate!vars)
  OBVIOUS
<1>1. ASSUME NEW t \in Threads, CheckRateLimits(t) PROVE [Rate!Next]_(Rate!vars)
  <2>1. request[t] \in InQuery
    BY <1>1 DEF CInv, CheckRateLimits
  <2>2. request[t].route \in Routes /\ request[t].method \in Methods
    BY <2>1 DEF InQuery, Request
  <2>3. Rate!CheckRateLimits(request[t].route, request[t].method)
    BY <1>1, SameOperations DEF CheckRateLimits
  <2> QED BY <2>2, <2>3 DEF Rate!Next, Rate!Read
<1>2. ASSUME NEW t \in Threads, Update(t) PROVE [Rate!Next]_(Rate!vars)
  <2>1. request[t] \in InQuery
    BY <1>2 DEF CInv, Update
  <2>2. /\ request[t].route \in Routes /\ request[t].method \in Methods
        /\ ResponseOf(request[t]) \in AnyResponse
    BY <2>1, ResponseOfAny DEF InQuery, Request
  <2>3. \/ Rate!InsertRequest(request[t].route, request[t].method, ResponseOf(request[t]))
        \/ UNCHANGED Rate!vars
    BY <1>2, SameOperations DEF Update, ResponseOf, limiter, Rate!vars
  <2> QED BY <2>2, <2>3 DEF Rate!Next, Rate!Respond
<1>3. CASE Observe
  BY <1>3, SameOperations DEF Observe, Rate!Next, Rate!Read
<1>4. CASE Tick
  BY <1>4, SameOperations DEF Tick, Rate!Next
<1>5. ASSUME UNCHANGED limiter PROVE [Rate!Next]_(Rate!vars)
  BY <1>5 DEF limiter, Rate!vars
<1>6. ASSUME NEW t \in Threads, Step(t) \/ Poll(t) PROVE [Rate!Next]_(Rate!vars)
  BY <1>1, <1>2, <1>5, <1>6
     DEF Step, IsInitialized, SendFirst, Send, ReviewRefusal, ReviewServerError,
         CountServerError, DecideServerError, ReviewFailure, Poll
<1> QED BY <1>3, <1>4, <1>5, <1>6 DEF Next, Internal, Query, Receive, vars

LEMMA LimiterInvariant == CInv /\ [Next]_vars => Rate!GInv'
BY ClientDrivesLimiter, ResponsesAnnounced, Rate!NextGInv DEF CInv

\* A query moves on with one field of its request changed, or none.
LEMMA RequestMoves ==
    ASSUME CInv, NEW t \in Threads, NEW q \in InQuery, NEW label \in Labels,
           request' = [request EXCEPT ![t] = q], pc' = [pc EXCEPT ![t] = label]
    PROVE  /\ pc' \in [Threads -> Labels]
           /\ request' \in [Threads -> InQuery \cup {NoRequest}]
           /\ \A u \in Threads : pc'[u] # "idle" => request'[u] \in InQuery
BY DEF CInv

\* A query begins, and ends.
LEMMA QueryTypes ==
    ASSUME CInv, NEW t \in Threads, NEW r \in Routes, NEW m \in Methods, Query(t, r, m)
    PROVE  /\ pc' \in [Threads -> Labels]
           /\ request' \in [Threads -> InQuery \cup {NoRequest}]
           /\ \A u \in Threads : pc'[u] # "idle" => request'[u] \in InQuery
           /\ calls' \in 0 .. MaxCalls
<1>1. NewRequest(r, m) \in InQuery
  BY RepliesAssumption
     DEF NewRequest, InQuery, Request, AnnouncedHeader, NotSent
<1>2. "start" \in Labels
  BY DEF Labels
<1> QED BY <1>1, <1>2, RequestMoves, RepliesAssumption DEF Query, Goto, CInv

LEMMA ReturnTypes ==
    ASSUME CInv, NEW t \in Threads, Return(t)
    PROVE  /\ pc' \in [Threads -> Labels]
           /\ request' \in [Threads -> InQuery \cup {NoRequest}]
           /\ \A u \in Threads : pc'[u] # "idle" => request'[u] \in InQuery
BY DEF CInv, Return, Goto, Labels

\* A step that leaves every request as it was.
LEMMA GotoTypes ==
    ASSUME CInv, NEW t \in Threads, pc[t] # "idle", NEW label \in Labels,
           Goto(t, label), UNCHANGED request
    PROVE  /\ pc' \in [Threads -> Labels]
           /\ request' \in [Threads -> InQuery \cup {NoRequest}]
           /\ \A u \in Threads : pc'[u] # "idle" => request'[u] \in InQuery
BY DEF CInv, Goto

LEMMA CheckTypes ==
    ASSUME CInv, Rate!GInv', NEW t \in Threads, CheckRateLimits(t)
    PROVE  CInv'
<1> DEFINE q == request[t]
           s == Limiter!SendTime(q.route, q.method, q.send_time)
<1>1. q \in InQuery
  BY DEF CInv, CheckRateLimits
<1>2. s \in Nat
  <2>1. q.route \in Routes /\ q.method \in Methods /\ q.send_time \in Nat
    BY <1>1 DEF InQuery, Request
  <2>2. now' \in Nat
    BY DEF Rate!GInv, Rate!IInv
  <2> QED BY <2>1, <2>2, SendTimeNat
<1>3. request' = [request EXCEPT ![t] = [q EXCEPT !.send_time = s]]
  BY DEF CheckRateLimits
<1> HIDE DEF s
<1>4. [q EXCEPT !.send_time = s] \in InQuery
  BY <1>1, <1>2 DEF InQuery, Request
<1>5. /\ pc' \in [Threads -> Labels]
      /\ request' \in [Threads -> InQuery \cup {NoRequest}]
      /\ \A u \in Threads : pc'[u] # "idle" => request'[u] \in InQuery
  <2>1. pc' = [pc EXCEPT ![t] = "wait"] /\ "wait" \in Labels
    BY DEF CheckRateLimits, Goto, Labels
  <2> HIDE DEF q
  <2> QED BY <1>3, <1>4, <2>1, RequestMoves
<1> QED BY <1>5 DEF CInv, CheckRateLimits, handler

LEMMA ReceiveTypes ==
    ASSUME CInv, Rate!GInv', NEW t \in Threads, NEW reply \in Replies, Receive(t, reply)
    PROVE  CInv'
<1> DEFINE q == request[t]
           header == IF reply.status = CprError THEN q.response_header
                     ELSE Overwrite(reply.header, q.response_header)
           silence == IF "retry_after" \in DOMAIN reply.header
                      THEN now + Limiter!Larger(0, reply.header.retry_after) ELSE 0
           after == [q EXCEPT !.last_response = reply.status, !.response_header = header,
                              !.silence = silence]
<1>1. q \in InQuery
  BY DEF CInv, Receive
<1>2. header \in AnnouncedHeader
  BY <1>1, OverwriteAnnounced DEF InQuery
<1>3. silence \in Nat
  <2>1. "retry_after" \in DOMAIN reply.header => reply.header.retry_after \in Int
    BY <1>1, RetryAfterOverwritten DEF InQuery, NoHeader
  <2>2. now \in Nat
    BY DEF CInv, Rate!GInv, Rate!IInv
  <2> QED BY <2>1, <2>2 DEF Limiter!Larger
<1>4. reply.status \in Int
  BY RepliesAssumption DEF WellFormed
<1>5. request' = [request EXCEPT ![t] = after]
  BY DEF Receive
<1>6. after \in InQuery
  <2> HIDE DEF header, silence
  <2>1. header \in Limiter!RiotHeader
    BY <1>2 DEF AnnouncedHeader
  <2> QED BY <1>1, <1>2, <1>3, <1>4, <2>1 DEF InQuery, Request
<1>7. \E label \in Labels : pc' = [pc EXCEPT ![t] = label]
  BY DEF Receive, Goto, Labels
<1> HIDE DEF after
<1>8. /\ pc' \in [Threads -> Labels]
      /\ request' \in [Threads -> InQuery \cup {NoRequest}]
      /\ \A u \in Threads : pc'[u] # "idle" => request'[u] \in InQuery
  BY <1>5, <1>6, <1>7, RequestMoves
<1> QED BY <1>8 DEF CInv, Receive, handler

LEMMA UpdateTypes ==
    ASSUME CInv, Rate!GInv', NEW t \in Threads, Update(t)
    PROVE  CInv'
<1> DEFINE q == request[t]
<1>1. q \in InQuery
  BY DEF CInv, Update
<1>2. /\ pc' \in [Threads -> Labels]
      /\ request' \in [Threads -> InQuery \cup {NoRequest}]
      /\ \A u \in Threads : pc'[u] # "idle" => request'[u] \in InQuery
  <2>1. CASE Return(t)
    BY <2>1, ReturnTypes
  <2>2. CASE request' = [request EXCEPT ![t] = Heard(q, Unreviewed(t))]
             /\ \E label \in Labels : Goto(t, label)
    <3>1. Unreviewed(t) \in BOOLEAN
      BY DEF Unreviewed
    <3>2. ASSUME NEW b \in BOOLEAN PROVE Heard(q, b) \in InQuery
      <4>1. (IF b THEN q.denials + 1 ELSE q.denials) \in Nat /\ (b \/ q.unreviewed) \in BOOLEAN
        BY <1>1, <3>2 DEF InQuery, Request
      <4> HIDE DEF q
      <4> QED BY <1>1, <4>1 DEF InQuery, Request, Heard
    <3> HIDE DEF q
    <3> QED BY <2>2, <3>1, <3>2, RequestMoves DEF Goto
  <2>3. "review" \in Labels /\ "check" \in Labels
    BY DEF Labels
  <2> QED BY <2>1, <2>2, <2>3 DEF Update
<1>3. quiet' \in [Routes -> [Methods -> Nat]]
  <2>1. q.route \in Routes /\ q.method \in Methods /\ q.silence \in Nat
    BY <1>1 DEF InQuery, Request
  <2> DEFINE s == Limiter!Larger(quiet[q.route][q.method], q.silence)
  <2>2. s \in Nat
    BY <2>1 DEF CInv, Limiter!Larger
  <2>3. quiet' = quiet \/ quiet' = [quiet EXCEPT ![q.route][q.method] = s]
    BY DEF Update
  <2>4. ASSUME NEW r \in Routes, NEW m \in Methods, NEW n \in Nat
        PROVE  [quiet EXCEPT ![r][m] = n] \in [Routes -> [Methods -> Nat]]
    <3>1. [quiet[r] EXCEPT ![m] = n] \in [Methods -> Nat]
      BY DEF CInv
    <3> QED BY <3>1 DEF CInv
  <2> HIDE DEF q, s
  <2>5. [quiet EXCEPT ![q.route][q.method] = s] \in [Routes -> [Methods -> Nat]]
    BY <2>1, <2>2, <2>4
  <2> QED BY <2>3, <2>5 DEF CInv
<1> QED BY <1>2, <1>3 DEF CInv, Update, handler

\* The review of a response, and the counting of a 500.
LEMMA ReviewTypes ==
    ASSUME CInv, Rate!GInv', NEW t \in Threads,
           \/ ReviewRefusal(t) \/ ReviewServerError(t) \/ CountServerError(t)
           \/ DecideServerError(t) \/ ReviewFailure(t)
    PROVE  CInv'
<1>1. /\ UNCHANGED <<calls, current_wait, quiet>> /\ pc[t] # "idle"
      /\ request[t] \in InQuery /\ request[t].route \in Routes
  BY DEF CInv, InQuery, Request, ReviewRefusal, ReviewServerError, CountServerError,
         DecideServerError, ReviewFailure
<1>2. errors' \in [Routes -> Int] /\ seen' \in [Threads -> Int]
  BY <1>1 DEF CInv, ReviewRefusal, ReviewServerError, CountServerError, DecideServerError,
              ReviewFailure, handler, Handler!ResetServerErrorCount,
              Handler!ReadErrorCount, Handler!WriteErrorCount
<1> DEFINE Typed == /\ pc' \in [Threads -> Labels]
                    /\ request' \in [Threads -> InQuery \cup {NoRequest}]
                    /\ \A u \in Threads : pc'[u] # "idle" => request'[u] \in InQuery
<1> SUFFICES Typed
  BY <1>1, <1>2 DEF CInv
<1>3. "check" \in Labels /\ "count" \in Labels /\ "decide" \in Labels
  BY DEF Labels
<1>4. CASE ReviewRefusal(t)
  <2>1. ASSUME NEW q \in InQuery PROVE Forgiven(q) \in InQuery
    BY DEF Forgiven, InQuery, Request
  <2>2. pc' = [pc EXCEPT ![t] = "check"]
    BY <1>4 DEF ReviewRefusal, Goto
  <2>3. ASSUME NEW u \in Threads
        PROVE  \/ request'[u] = request[u]
               \/ request'[u] = Forgiven(request[u]) /\ request[u] # NoRequest
    BY <1>4 DEF ReviewRefusal
  <2>4. DOMAIN request' = Threads /\ request' = [u \in Threads |-> request'[u]]
    BY <1>4 DEF ReviewRefusal
  <2>5. ASSUME NEW u \in Threads
        PROVE  /\ request'[u] \in InQuery \cup {NoRequest}
               /\ request[u] \in InQuery => request'[u] \in InQuery
    BY <2>1, <2>3 DEF CInv
  <2> QED BY <1>1, <1>3, <2>2, <2>4, <2>5 DEF CInv
<1>5. CASE ReviewServerError(t)
  <2> DEFINE after == [request[t] EXCEPT !.denials = request[t].denials + 1]
  <2>1. request' = [request EXCEPT ![t] = after] /\ pc' = [pc EXCEPT ![t] = "count"]
    BY <1>5 DEF ReviewServerError, Goto
  <2>2. after \in InQuery
    BY <1>1 DEF InQuery, Request
  <2> HIDE DEF after
  <2> QED BY <1>3, <2>1, <2>2, RequestMoves
<1>6. CASE CountServerError(t)
  BY <1>1, <1>3, <1>6, GotoTypes DEF CountServerError
<1>7. CASE DecideServerError(t)
  BY <1>1, <1>3, <1>7, GotoTypes, ReturnTypes DEF DecideServerError
<1>8. CASE ReviewFailure(t)
  BY <1>8, ReturnTypes DEF ReviewFailure
<1> QED BY <1>4, <1>5, <1>6, <1>7, <1>8

LEMMA InitCInv == Init => CInv
<1> SUFFICES ASSUME Init PROVE CInv
  OBVIOUS
<1>1. Rate!GInv
  BY ResponsesAnnounced, SameOperations, Rate!InitGInv DEF Init
<1>2. errors \in [Routes -> Int] /\ seen \in [Threads -> Int]
  <2>1. InitialErrors \subseteq Int
    BY RepliesAssumption
  <2>2. errors \in [Routes -> InitialErrors] /\ seen = [t \in Threads |-> 0]
    BY DEF Init, Handler!Init
  <2>3. errors \in [Routes -> Int]
    BY <2>1, <2>2
  <2>4. seen \in [Threads -> Int]
    BY <2>2
  <2> QED BY <2>3, <2>4
<1> QED BY <1>1, <1>2, RepliesAssumption DEF Init, CInv, Labels

LEMMA NextCInv == CInv /\ [Next]_vars => CInv'
<1> SUFFICES ASSUME CInv, [Next]_vars PROVE CInv'
  OBVIOUS
<1>1. Rate!GInv'
  BY LimiterInvariant
<1>2. ASSUME NEW t \in Threads, Step(t) PROVE CInv'
  <2>1. CASE IsInitialized(t)
    <3>1. "check" \in Labels /\ "first" \in Labels
      BY DEF Labels
    <3> QED BY <1>1, <2>1, <3>1, GotoTypes DEF IsInitialized, CInv, handler
  <2>2. CASE SendFirst(t)
    <3>1. "sent_first" \in Labels
      BY DEF Labels
    <3> QED BY <1>1, <2>2, <3>1, GotoTypes DEF SendFirst, CInv, handler
  <2>3. CASE Send(t)
    <3>1. "sent" \in Labels
      BY DEF Labels
    <3> QED BY <1>1, <2>3, <3>1, GotoTypes DEF Send, CInv, handler
  <2> QED BY <1>1, <1>2, <2>1, <2>2, <2>3, CheckTypes, UpdateTypes, ReviewTypes DEF Step
<1>3. ASSUME NEW t \in Threads, Poll(t) PROVE CInv'
  <2>1. request[t].send_time \in Nat /\ now \in Nat
    BY <1>3 DEF CInv, InQuery, Request, Poll, Rate!GInv, Rate!IInv
  <2> QED BY <1>1, <1>3, <2>1 DEF Poll, CInv, handler
<1>4. ASSUME NEW t \in Threads, NEW r \in Routes, NEW m \in Methods, Query(t, r, m)
      PROVE  CInv'
  BY <1>1, <1>4, QueryTypes DEF Query, CInv, handler
<1>5. CASE Observe \/ Tick
  BY <1>1, <1>5 DEF Observe, Tick, CInv, handler, client
<1>6. ASSUME NEW t \in Threads, NEW reply \in Replies, Receive(t, reply) PROVE CInv'
  BY <1>1, <1>6, ReceiveTypes
<1>7. CASE UNCHANGED vars
  BY <1>1, <1>7 DEF vars, CInv, handler, client
<1> QED BY <1>2, <1>3, <1>4, <1>5, <1>6, <1>7 DEF Next, Internal

LEMMA SpecCInv == Spec => []CInv
BY InitCInv, NextCInv, PTL DEF Spec
-----------------------------------------------------------------------------
(* The theorems. *)

\* Type correctness of the client.  Every wait it computes and shows is a natural
\* number of seconds, and every header a request collects from its replies is one
\* that the limiter may be given.
THEOREM TypeCorrect == Spec => []TypeOK
<1>1. ASSUME CInv PROVE Limiter!TypeOK
  <2>1. Rate!TypeOK
    BY <1>1, ResponsesAnnounced, Rate!BoundedRegionIsRegion
       DEF CInv, Rate!GInv, Rate!IInv, Rate!TypeOK
  <2>2. Rate!Region = Limiter!Region
    BY DEF Rate!Region, Limiter!Region, Rate!Scope, Limiter!Scope
  <2> QED BY <2>1, <2>2 DEF Rate!TypeOK, Limiter!TypeOK
<1>2. CInv => TypeOK
  BY <1>1 DEF CInv, TypeOK, Handler!TypeOK, InQuery
<1> QED BY <1>2, SpecCInv, PTL

\* The client implements its limiter: every step of every thread is a step of
\* RateHandler for some response with announced headers, or does not touch it.
\* So what is proved of the limiter holds in the client, first of all:
THEOREM LimiterInClient == Spec => Rate!Spec
<1>1. Init => Rate!Init
  BY SameOperations DEF Init
<1> QED BY <1>1, ClientDrivesLimiter, SpecCInv, PTL DEF Spec, Rate!Spec

\* no request of the client is told to wait longer than the longest window or pause
\* announced in any reply.
THEOREM WaitsAreBounded == Spec => []Limiter!WaitBounded
<1>1. Rate!Spec => []Rate!WaitBounded
  BY ResponsesAnnounced, Rate!WaitsAreBounded
<1>2. Rate!WaitBounded => Limiter!WaitBounded
  BY SameWait DEF Rate!WaitBounded, Limiter!WaitBounded
<1> QED BY <1>1, <1>2, LimiterInClient, PTL

\* While no thread waits, no wait is shown, although every thread writes
\* current_wait_seconds_ without regard to the others.
THEOREM WaitsShownAreReal == Spec => []WaitShownIsReal
<1>1. Init => WaitShownIsReal
  BY DEF Init, WaitShownIsReal
<1>2. ASSUME CInv, WaitShownIsReal, [Next]_vars PROVE WaitShownIsReal'
  <2>1. ASSUME NEW t \in Threads, Poll(t) PROVE WaitShownIsReal'
    BY <2>1 DEF Poll, WaitShownIsReal
  <2>2. ASSUME NEW t \in Threads, Send(t) PROVE WaitShownIsReal'
    BY <2>2 DEF Send, WaitShownIsReal
  <2>3. ASSUME UNCHANGED current_wait,
               \A t \in Threads : pc[t] = "wait" => pc'[t] = "wait"
        PROVE  WaitShownIsReal'
    BY <1>2, <2>3 DEF WaitShownIsReal
  <2>4. ASSUME NEW t \in Threads, pc[t] # "wait", NEW label, Goto(t, label)
        PROVE  \A u \in Threads : pc[u] = "wait" => pc'[u] = "wait"
    BY <1>2, <2>4 DEF Goto, CInv
  <2>5. ASSUME NEW t \in Threads,
               \/ IsInitialized(t) \/ SendFirst(t) \/ CheckRateLimits(t) \/ Update(t)
               \/ ReviewRefusal(t) \/ ReviewServerError(t) \/ CountServerError(t)
               \/ DecideServerError(t) \/ ReviewFailure(t)
        PROVE  WaitShownIsReal'
    <3>1. UNCHANGED current_wait /\ pc[t] # "wait" /\ \E label : Goto(t, label)
      BY <2>5 DEF IsInitialized, SendFirst, CheckRateLimits, Update, ReviewRefusal,
                  ReviewServerError, CountServerError, DecideServerError, ReviewFailure,
                  Return
    <3> QED BY <2>3, <2>4, <3>1
  <2>6. ASSUME NEW t \in Threads, NEW r \in Routes, NEW m \in Methods, Query(t, r, m)
        PROVE  WaitShownIsReal'
    BY <2>3, <2>4, <2>6 DEF Query
  <2>7. ASSUME NEW t \in Threads, NEW reply \in Replies, Receive(t, reply)
        PROVE  WaitShownIsReal'
    BY <2>3, <2>4, <2>7 DEF Receive
  <2>8. CASE UNCHANGED client
    BY <2>3, <2>8 DEF client
  <2> QED BY <1>2, <2>1, <2>2, <2>5, <2>6, <2>7, <2>8
          DEF Next, Internal, Step, Observe, Tick, vars
<1> QED BY <1>1, <1>2, SpecCInv, PTL DEF Spec
-----------------------------------------------------------------------------
(* What a step does to the threads. *)

\* What t does by itself, with the response it gets.
Acts(t) ==
    \/ Step(t) \/ Poll(t)
    \/ \E r \in Routes, m \in Methods : Query(t, r, m)
    \/ \E reply \in Replies : Receive(t, reply)

\* Nothing happens to the query of t, the forgiving of its denials apart.
Rests(t) ==
    /\ pc'[t] = pc[t]
    /\ request'[t] \in {request[t], Forgiven(request[t])}

LEMMA ActsAlone ==
    ASSUME CInv, NEW t \in Threads, Acts(t), NEW u \in Threads \ {t}
    PROVE  Rests(u)
<1>1. ASSUME ~ReviewRefusal(t)
      PROVE  /\ pc' = pc \/ \E label : Goto(t, label)
             /\ request' = request \/ \E q : request' = [request EXCEPT ![t] = q]
  <2>1. CASE Step(t)
    BY <1>1, <2>1
       DEF Step, IsInitialized, SendFirst, CheckRateLimits, Send, Update, ReviewServerError,
           CountServerError, DecideServerError, ReviewFailure, Return
  <2>2. CASE ~Step(t)
    BY <2>2 DEF Acts, Poll, Query, Receive
  <2> QED BY <2>1, <2>2
<1>2. CASE ReviewRefusal(t)
  BY <1>2 DEF CInv, ReviewRefusal, Goto, Rests
<1>3. CASE ~ReviewRefusal(t)
  <2>1. pc'[u] = pc[u]
    BY <1>1, <1>3 DEF CInv, Goto
  <2>2. request'[u] = request[u]
    BY <1>1, <1>3 DEF CInv
  <2> QED BY <2>1, <2>2 DEF Rests
<1> QED BY <1>2, <1>3

LEMMA ActOrRest ==
    ASSUME CInv, [Next]_vars, NEW t \in Threads
    PROVE  Acts(t) \/ Rests(t)
<1>1. ASSUME NEW u \in Threads, Acts(u) PROVE Acts(t) \/ Rests(t)
  BY <1>1, ActsAlone
<1>2. CASE UNCHANGED client
  BY <1>2 DEF client, Rests
<1> QED BY <1>1, <1>2 DEF Next, Internal, Observe, Tick, vars, Acts

LEMMA RestKeepsRequest ==
    ASSUME CInv, NEW t \in Threads, Rests(t), pc[t] # "idle"
    PROVE  /\ request'[t].route = request[t].route
           /\ request'[t].method = request[t].method
           /\ request'[t].send_time = request[t].send_time
           /\ request'[t].silence = request[t].silence
           /\ request'[t].last_response = request[t].last_response
           /\ ResponseOf(request'[t]) = ResponseOf(request[t])
BY DEF CInv, InQuery, Request, Rests, Forgiven, ResponseOf

\* Time does not run backwards.
LEMMA ClockMoves ==
    ASSUME CInv, [Next]_vars
    PROVE  now \in Nat /\ now' \in {now, now + 1} /\ now' \in Nat
<1>1. now \in Nat
  BY DEF CInv, Rate!GInv, Rate!IInv
<1>2. now' \in {now, now + 1}
  BY ClientDrivesLimiter, Zenon
     DEF Rate!Next, Rate!Respond, Rate!Read, Rate!Tick, Rate!vars, Rate!InsertRequest,
         Rate!CheckRateLimits, Rate!GetWaitTimeBreakdown, Rate!GetSnapshot
<1> QED BY <1>1, <1>2
-----------------------------------------------------------------------------
(* The client keeps silent for as long as the service asked, in every thread and    *)
(* through all its attempts.  The induction runs over what makes it so: while a     *)
(* pause lasts, the application buckets of its route hold back whoever asks, and    *)
(* whoever has asked before waits for its end.                                      *)

\* The application buckets of route r make a request wait until second s.
AppHolds(r, s) == now + Rate!HierachyWaitTime(counts[r].app, now) >= s

\* If t has a request on its way on route r, it waits for second s or a later one.
HeldBack(t, r, s) ==
    InFlight(t) /\ request[t].route = r => pc[t] = "wait" /\ request[t].send_time >= s

PauseHolds ==
    \A r \in Routes, m \in Methods :
        quiet[r][m] > now =>
            /\ initialised
            /\ AppHolds(r, quiet[r][m])
            /\ \A t \in Threads : HeldBack(t, r, quiet[r][m])

\* A response at hand asks for no more silence than insert_request will enforce.
SilenceCovered ==
    \A t \in Threads :
        pc[t] \in {"received_first", "received"} =>
            /\ request[t].silence <= now + Rate!RetryAfterSec(ResponseOf(request[t]))
            /\ request[t].last_response = CprError => request[t].silence = 0

PInv == CInv /\ SilenceCovered /\ PauseHolds
-----------------------------------------------------------------------------
(* The silence asked for is enforced. *)

LEMMA PauseNat ==
    ASSUME NEW q \in InQuery
    PROVE  Rate!RetryAfterSec(ResponseOf(q)) \in Nat
<1>1. Rate!RetryAfterSec(ResponseOf(q)) \in 0 .. MaxWindow
  BY ResponseOfAny, ResponsesAnnounced, Rate!RetryAfterSecBounded
<1> QED BY <1>1, RepliesAssumption

LEMMA ReceiveCovers ==
    ASSUME CInv, CInv', NEW t \in Threads, NEW reply \in Replies, Receive(t, reply)
    PROVE  /\ request'[t].silence <= now' + Rate!RetryAfterSec(ResponseOf(request'[t]))
           /\ request'[t].last_response = CprError => request'[t].silence = 0
<1> DEFINE q == request[t]
           after == request'[t]
<1>1. q \in InQuery /\ after \in InQuery /\ now \in Nat /\ now' = now
  <2>1. pc[t] # "idle" /\ pc'[t] # "idle" /\ now' = now
    BY DEF CInv, Receive, Goto, limiter
  <2> QED BY <2>1 DEF CInv, Rate!GInv, Rate!IInv
<1>2. /\ after.last_response = reply.status
      /\ after.response_header = IF reply.status = CprError THEN q.response_header
                                 ELSE Overwrite(reply.header, q.response_header)
      /\ after.silence = IF "retry_after" \in DOMAIN reply.header
                         THEN now + Limiter!Larger(0, reply.header.retry_after) ELSE 0
  BY <1>1 DEF CInv, Receive, InQuery, Request
<1>3. reply.status = CprError => DOMAIN reply.header = {}
  BY RepliesAssumption DEF WellFormed
<1> HIDE DEF q, after
<1>4. Rate!RetryAfterSec(ResponseOf(after)) \in Nat
  BY <1>1, PauseNat
<1>5. CASE "retry_after" \notin DOMAIN reply.header
  BY <1>1, <1>2, <1>4, <1>5 DEF after
<1>6. CASE "retry_after" \in DOMAIN reply.header
  <2>1. reply.status # CprError
    BY <1>3, <1>6
  <2>2. /\ reply.header.retry_after \in Nat \cup {NoHeader}
        /\ after.response_header.retry_after = reply.header.retry_after
    BY <1>1, <1>2, <1>6, <2>1, RetryAfterOverwritten DEF InQuery
  <2>3. Rate!RetryAfterSec(ResponseOf(after)) >= Limiter!Larger(0, reply.header.retry_after)
    BY <1>4, <2>2 DEF Rate!RetryAfterSec, ResponseOf, NoHeader, Rate!NoHeader,
                      Limiter!Larger, Rate!Larger
  <2>4. Limiter!Larger(0, reply.header.retry_after) \in Nat
    BY <2>2 DEF Limiter!Larger, NoHeader
  <2> QED BY <1>1, <1>2, <1>4, <1>6, <2>1, <2>3, <2>4 DEF after
<1> QED BY <1>5, <1>6

LEMMA SilenceStaysCovered ==
    ASSUME CInv, CInv', SilenceCovered, [Next]_vars
    PROVE  SilenceCovered'
<1> SUFFICES ASSUME NEW t \in Threads, pc'[t] \in {"received_first", "received"}
             PROVE  /\ request'[t].silence
                           <= now' + Rate!RetryAfterSec(ResponseOf(request'[t]))
                    /\ request'[t].last_response = CprError => request'[t].silence = 0
  BY DEF SilenceCovered
<1>1. CASE Rests(t)
  <2>1. pc[t] \in {"received_first", "received"} /\ request[t] \in InQuery
    BY <1>1 DEF Rests, CInv
  <2>2. /\ request[t].silence <= now + Rate!RetryAfterSec(ResponseOf(request[t]))
        /\ request[t].last_response = CprError => request[t].silence = 0
    BY <2>1 DEF SilenceCovered
  <2>3. /\ request'[t].silence = request[t].silence
        /\ request'[t].last_response = request[t].last_response
        /\ ResponseOf(request'[t]) = ResponseOf(request[t])
    BY <1>1, <2>1, RestKeepsRequest
  <2>4. request[t].silence \in Nat /\ Rate!RetryAfterSec(ResponseOf(request[t])) \in Nat
    BY <2>1, PauseNat DEF InQuery, Request
  <2> QED BY <2>2, <2>3, <2>4, ClockMoves
<1>2. CASE Acts(t)
  <2>1. \E reply \in Replies : Receive(t, reply)
    BY <1>2 DEF Acts, Step, IsInitialized, SendFirst, CheckRateLimits, Send, Update,
                ReviewRefusal, ReviewServerError, CountServerError, DecideServerError,
                ReviewFailure, Return, Poll, Query, Goto, CInv
  <2> QED BY <2>1, ReceiveCovers
<1> QED BY <1>1, <1>2, ActOrRest
-----------------------------------------------------------------------------
(* While a pause lasts. *)

\* No request on its way is anywhere but in its wait.
LEMMA NothingElseOnItsWay ==
    ASSUME CInv, PauseHolds, NEW t \in Threads, InFlight(t), pc[t] # "wait",
           NEW m \in Methods
    PROVE  quiet[request[t].route][m] <= now
<1>1. request[t].route \in Routes
  BY DEF CInv, InQuery, Request, InFlight
<1>2. ~(quiet[request[t].route][m] > now)
  BY <1>1 DEF PauseHolds, HeldBack
<1>3. quiet[request[t].route][m] \in Nat /\ now \in Nat
  BY <1>1 DEF CInv, Rate!GInv, Rate!IInv
<1> QED BY <1>2, <1>3

\* So no response arrives on the route, and its application buckets still hold.
LEMMA BucketsStillHold ==
    ASSUME CInv, PauseHolds, [Next]_vars, NEW r \in Routes, NEW m \in Methods,
           quiet[r][m] > now'
    PROVE  /\ initialised'
           /\ now' + Rate!HierachyWaitTime(counts'[r].app, now') >= quiet[r][m]
<1>1. /\ now \in Nat /\ now' \in Nat /\ now' \in {now, now + 1}
      /\ quiet[r][m] \in Nat /\ quiet[r][m] > now
  BY ClockMoves DEF CInv
<1>2. /\ initialised /\ AppHolds(r, quiet[r][m])
      /\ \A t \in Threads : HeldBack(t, r, quiet[r][m])
  BY <1>1 DEF PauseHolds
<1>3. initialised'
  BY <1>2, ClientDrivesLimiter, Zenon
     DEF Rate!Next, Rate!Respond, Rate!Read, Rate!Tick, Rate!vars, Rate!InsertRequest,
         Rate!CheckRateLimits, Rate!GetWaitTimeBreakdown, Rate!GetSnapshot
<1>4. \/ counts'[r] = counts[r]
      \/ \E ms \in SUBSET Methods : counts'[r] = Rate!RegionUpdateCount(counts[r], ms, now)
  <2>1. CASE Rate!Read
    BY <2>1, ResponsesAnnounced, Rate!ReadSteps DEF CInv
  <2>2. ASSUME NEW t \in Threads, Update(t) PROVE counts'[r] = counts[r]
    <3>1. request[t].route # r
      BY <1>2, <2>2 DEF HeldBack, InFlight, Update
    <3>2. \/ Rate!InsertRequest(request[t].route, request[t].method, ResponseOf(request[t]))
          \/ UNCHANGED counts
      BY <2>2, SameOperations DEF Update, ResponseOf, limiter
    <3>3. counts \in [Routes -> Rate!BoundedRegion(now)]
      BY DEF CInv, Rate!GInv, Rate!IInv
    <3> QED BY <1>2, <3>1, <3>2, <3>3 DEF Rate!InsertRequest
  <2>3. ASSUME NEW t \in Threads, CheckRateLimits(t) PROVE Rate!Read
    <3>1. request[t].route \in Routes /\ request[t].method \in Methods
      BY <2>3 DEF CInv, InQuery, Request, CheckRateLimits
    <3> QED BY <2>3, <3>1, SameOperations DEF CheckRateLimits, Rate!Read
  <2>4. CASE Observe
    BY <2>1, <2>4, SameOperations DEF Observe, Rate!Read
  <2>5. CASE Tick
    BY <2>5, SameOperations DEF Tick, Rate!Tick
  <2>6. ASSUME NEW t \in Threads, Step(t) \/ Poll(t),
               ~Update(t), ~CheckRateLimits(t)
        PROVE  UNCHANGED counts
    BY <2>6 DEF Step, IsInitialized, SendFirst, Send, ReviewRefusal, ReviewServerError,
                CountServerError, DecideServerError, ReviewFailure, Poll, limiter
  <2> QED BY <2>1, <2>2, <2>3, <2>4, <2>5, <2>6
          DEF Next, Internal, Query, Receive, vars, limiter
<1>5. now' + Rate!HierachyWaitTime(counts'[r].app, now')
         >= now + Rate!HierachyWaitTime(counts[r].app, now)
  BY <1>1, <1>4, ResponsesAnnounced, Rate!PauseOutlastsReads DEF CInv
<1>6. /\ Rate!HierachyWaitTime(counts[r].app, now) \in Nat
      /\ Rate!HierachyWaitTime(counts'[r].app, now') \in Int
  <2>1. Rate!GInv /\ Rate!GInv'
    BY LimiterInvariant DEF CInv
  <2>2. /\ counts[r].app \in Seq(Rate!BoundedScope(now))
        /\ counts'[r].app \in Seq(Rate!BoundedScope(now'))
    BY <2>1 DEF Rate!GInv, Rate!IInv, Rate!BoundedRegion
  <2> QED BY <1>1, <2>2, ResponsesAnnounced, Rate!HierachyWaitGreatest
<1> QED BY <1>1, <1>2, <1>3, <1>5, <1>6 DEF AppHolds

\* Nor does any thread get past it.
LEMMA ThreadsStillHeld ==
    ASSUME CInv, CInv', PauseHolds, [Next]_vars, NEW r \in Routes, NEW m \in Methods,
           quiet[r][m] > now', NEW t \in Threads
    PROVE  InFlight(t)' /\ request'[t].route = r
              => pc'[t] = "wait" /\ request'[t].send_time >= quiet[r][m]
<1> SUFFICES ASSUME InFlight(t)', request'[t].route = r
             PROVE  pc'[t] = "wait" /\ request'[t].send_time >= quiet[r][m]
  OBVIOUS
<1>1. /\ now \in Nat /\ now' \in Nat /\ now' \in {now, now + 1}
      /\ quiet[r][m] \in Nat /\ quiet[r][m] > now
  BY ClockMoves DEF CInv
<1>2. initialised /\ AppHolds(r, quiet[r][m]) /\ HeldBack(t, r, quiet[r][m])
  BY <1>1 DEF PauseHolds
<1>3. CASE Rests(t)
  <2>1. pc[t] # "idle" /\ InFlight(t)
    BY <1>3 DEF Rests, InFlight
  <2> QED BY <1>2, <1>3, <2>1, RestKeepsRequest DEF Rests, HeldBack
<1>4. ASSUME pc[t] # "idle", request'[t] = request[t] PROVE request[t].route = r
  BY <1>4
<1>5. CASE CheckRateLimits(t)
  <2> DEFINE q == request[t]
  <2>1. q \in InQuery
    BY <1>5 DEF CInv, CheckRateLimits
  <2>2. q.route \in Routes /\ q.method \in Methods
    BY <2>1 DEF InQuery, Request
  <2>3. request'[t] = [q EXCEPT !.send_time = Limiter!SendTime(q.route, q.method, q.send_time)]
    BY <1>5 DEF CInv, CheckRateLimits
  <2>4. /\ request'[t].route = q.route
        /\ request'[t].send_time = Limiter!SendTime(q.route, q.method, q.send_time)
    BY <2>1, <2>3 DEF InQuery, Request
  <2>5. /\ Rate!HierachyWaitTime(counts[r].app, now) \in Nat
        /\ Rate!WaitTime(r, q.method, now) \in Nat
        /\ Rate!WaitTime(r, q.method, now) >= Rate!HierachyWaitTime(counts[r].app, now)
    BY <2>2, ResponsesAnnounced, Rate!AppWaitIsWaited DEF CInv
  <2>6. Limiter!SendTime(r, q.method, q.send_time) = now' + Rate!WaitTime(r, q.method, now)
    <3>1. Rate!WaitTime(r, q.method, now) # 0
      BY <1>1, <1>2, <2>5 DEF AppHolds
    <3> QED BY <1>2, <3>1, SameWait DEF Limiter!SendTime
  <2>7. pc'[t] = "wait"
    BY <1>5 DEF CheckRateLimits, Goto, CInv
  <2> HIDE DEF q
  <2> QED BY <1>1, <1>2, <2>4, <2>5, <2>6, <2>7 DEF AppHolds
<1>6. CASE Poll(t)
  BY <1>2, <1>6 DEF Poll, HeldBack, InFlight
<1>7. CASE Send(t)
  <2>1. request[t].send_time \in Nat
    BY <1>7 DEF Send, CInv, InQuery, Request
  <2> QED BY <1>1, <1>2, <1>7, <2>1 DEF Send, HeldBack, InFlight
<1>8. CASE SendFirst(t)
  BY <1>2, <1>8 DEF SendFirst, HeldBack, InFlight
<1>9. CASE \E reply \in Replies : Receive(t, reply)
  <2>1. request[t] \in InQuery /\ request'[t].route = request[t].route
    BY <1>9 DEF Receive, CInv, InQuery, Request
  <2> QED BY <1>2, <1>9, <2>1 DEF Receive, HeldBack, InFlight
<1>10. CASE IsInitialized(t) \/ Update(t) \/ ReviewRefusal(t) \/ ReviewServerError(t)
            \/ CountServerError(t) \/ DecideServerError(t) \/ ReviewFailure(t)
            \/ \E q \in Routes, n \in Methods : Query(t, q, n)
  <2>1. pc'[t] \in {"check", "review", "count", "decide", "idle", "start"}
    BY <1>2, <1>10
       DEF IsInitialized, Update, ReviewRefusal, ReviewServerError, CountServerError,
           DecideServerError, ReviewFailure, Query, Return, Goto, CInv
  <2> QED BY <2>1 DEF InFlight
<1> QED BY <1>3, <1>5, <1>6, <1>7, <1>8, <1>9, <1>10, ActOrRest DEF Acts, Step

\* A new pause: the buckets enforce it, and nobody has a request on its way.
LEMMA PauseBegins ==
    ASSUME CInv, CInv', SilenceCovered, PauseHolds, NEW t \in Threads, Update(t),
           NEW r \in Routes, NEW m \in Methods,
           quiet'[r][m] > now', quiet'[r][m] # quiet[r][m]
    PROVE  /\ initialised' /\ AppHolds(r, quiet[r][m])'
           /\ \A u \in Threads : HeldBack(u, r, quiet[r][m])'
<1> DEFINE q == request[t]
           resp == ResponseOf(q)
<1>1. /\ q \in InQuery /\ q.route \in Routes /\ q.method \in Methods
      /\ q.silence \in Nat /\ resp \in AnyResponse
  BY ResponseOfAny DEF CInv, Update, InQuery, Request
<1>2. now \in Nat /\ now' \in Nat /\ now <= now'
  <2>1. [Next]_vars
    BY DEF Next, Internal, Step
  <2> QED BY <2>1, ClockMoves
<1>3. /\ Unaccompanied(t) /\ r = q.route /\ m = q.method
      /\ quiet'[r][m] = Limiter!Larger(quiet[r][m], q.silence)
  BY DEF Update, CInv
<1>4. quiet[r][m] <= now /\ quiet[r][m] \in Nat
  BY <1>3, NothingElseOnItsWay DEF Update, InFlight, CInv
<1>5. quiet'[r][m] = q.silence /\ q.silence > now'
  BY <1>1, <1>2, <1>3, <1>4 DEF Limiter!Larger
<1>6. /\ q.silence <= now + Rate!RetryAfterSec(resp)
      /\ q.last_response # CprError
  BY <1>1, <1>2, <1>5 DEF SilenceCovered, Update
<1>7. Rate!InsertRequest(r, m, resp)
  BY <1>3, <1>6, SameOperations DEF Update, ResponseOf
<1>8. Rate!RetryAfterSec(resp) \in Nat
  BY <1>1, PauseNat
<1> HIDE DEF q, resp
<1>9. now' + Rate!HierachyWaitTime(counts'[r].app, now') >= now + Rate!RetryAfterSec(resp)
  <2>1. Rate!RetryAfterSec(resp) > 0
    BY <1>1, <1>2, <1>5, <1>6, <1>8
  <2>2. r \in Routes /\ m \in Methods /\ resp \in AnyResponse /\ Rate!GInv
    BY <1>1 DEF CInv
  <2> QED BY <1>7, <2>1, <2>2, ResponsesAnnounced, Rate!InsertRequestPausesRoute
<1>10. AppHolds(r, quiet[r][m])'
  <2>1. Rate!HierachyWaitTime(counts'[r].app, now') \in Nat
    <3>1. counts'[r].app \in Seq(Rate!BoundedScope(now'))
      BY DEF CInv, Rate!GInv, Rate!IInv, Rate!BoundedRegion
    <3> QED BY <1>2, <3>1, ResponsesAnnounced, Rate!HierachyWaitGreatest
  <2> QED BY <1>1, <1>2, <1>5, <1>6, <1>8, <1>9, <2>1 DEF AppHolds
<1>11. initialised'
  BY <1>7 DEF Rate!InsertRequest
<1>12. ASSUME NEW u \in Threads PROVE HeldBack(u, r, quiet[r][m])'
  <2>1. CASE u = t
    BY <2>1 DEF Update, Return, Goto, CInv, HeldBack, InFlight
  <2>2. CASE u # t
    <3>1. Rests(u)
      BY <2>2, ActsAlone DEF Acts, Step
    <3>2. ~(InFlight(u) /\ request[u].route = r)
      BY <1>3, <2>2 DEF Unaccompanied, q
    <3>3. pc[u] # "idle" => request'[u].route = request[u].route
      BY <3>1, RestKeepsRequest
    <3> QED BY <3>1, <3>2, <3>3 DEF HeldBack, InFlight, Rests
  <2> QED BY <2>1, <2>2
<1> QED BY <1>10, <1>11, <1>12

LEMMA PauseStillHolds ==
    ASSUME CInv, CInv', SilenceCovered, PauseHolds, [Next]_vars
    PROVE  PauseHolds'
<1> SUFFICES ASSUME NEW r \in Routes, NEW m \in Methods, quiet'[r][m] > now'
             PROVE  /\ initialised' /\ AppHolds(r, quiet[r][m])'
                    /\ \A t \in Threads : HeldBack(t, r, quiet[r][m])'
  BY DEF PauseHolds
<1>1. CASE quiet'[r][m] = quiet[r][m]
  BY <1>1, BucketsStillHold, ThreadsStillHeld DEF AppHolds, HeldBack
<1>2. CASE quiet'[r][m] # quiet[r][m]
  <2>1. \E t \in Threads : Update(t)
    BY <1>2 DEF Next, Internal, Step, IsInitialized, SendFirst, CheckRateLimits, Send,
                ReviewRefusal, ReviewServerError, CountServerError, DecideServerError,
                ReviewFailure, Poll, Query, Receive, Observe, Tick, vars, client
  <2> QED BY <1>2, <2>1, PauseBegins
<1> QED BY <1>1, <1>2

LEMMA SpecPInv == Spec => []PInv
<1>1. Init => SilenceCovered /\ PauseHolds
  <2> SUFFICES ASSUME Init PROVE SilenceCovered /\ PauseHolds
    OBVIOUS
  <2>1. SilenceCovered
    BY DEF Init, SilenceCovered
  <2>2. now = 0 /\ \A r \in Routes, m \in Methods : quiet[r][m] = 0
    BY SameOperations DEF Init, Rate!Init
  <2>3. PauseHolds
    BY <2>2 DEF PauseHolds
  <2> QED BY <2>1, <2>3
<1>2. CInv /\ CInv' /\ SilenceCovered /\ PauseHolds /\ [Next]_vars
         => SilenceCovered' /\ PauseHolds'
  BY SilenceStaysCovered, PauseStillHolds
<1> QED BY <1>1, <1>2, SpecCInv, PTL DEF Spec, PInv

LEMMA SendsLate ==
    ASSUME PInv, [Next]_vars, NEW t \in Threads, Sends(t)
    PROVE  now >= quiet[request[t].route][request[t].method]
<1> DEFINE q == request[t]
           s == quiet[q.route][q.method]
<1>1. /\ InFlight(t) /\ q.route \in Routes /\ q.method \in Methods
      /\ q.send_time \in Nat /\ now \in Nat /\ s \in Nat
  BY DEF Sends, InFlight, PInv, CInv, InQuery, Request, Rate!GInv, Rate!IInv
<1>2. CASE pc[t] # "wait"
  BY <1>1, <1>2, NothingElseOnItsWay DEF PInv
<1>3. CASE pc[t] = "wait"
  <2>1. Send(t)
    <3>1. Acts(t)
      BY <1>3, ActOrRest DEF Sends, Rests, PInv
    <3>2. pc'[t] # "wait"
      BY DEF Sends
    <3> QED BY <1>3, <3>1, <3>2
            DEF Acts, Step, IsInitialized, SendFirst, CheckRateLimits, Update,
                ReviewRefusal, ReviewServerError, CountServerError, DecideServerError,
                ReviewFailure, Poll, Query, Receive
  <2>2. now >= q.send_time
    BY <2>1 DEF Send
  <2>3. s > now => q.send_time >= s
    BY <1>1 DEF PInv, PauseHolds, HeldBack
  <2> QED BY <1>1, <2>2, <2>3
<1> QED BY <1>2, <1>3

\* A request goes out only when every pause of its route and method is over, however
\* many threads, attempts and replies there were in between.
THEOREM PausesAreHonoured == Spec => RetryAfterHonoured
<1>1. PInv /\ [Next]_vars =>
         [\A t \in Threads :
             Sends(t) => now >= quiet[request[t].route][request[t].method]]_vars
  BY SendsLate
<1> QED BY <1>1, SpecPInv, PTL DEF Spec, RetryAfterHonoured
=============================================================================
