------------------------- MODULE RateHandlerProofs --------------------------
(***************************************************************************)
(* Proofs about the rate limiter, for any routes, methods, responses and   *)
(* windows.  The induction runs over IInv, which keeps every bucket within *)
(* MaxWindow of the clock: without that bound no response could be shown   *)
(* to leave a wait of at most MaxWindow, because a pause is put on top of  *)
(* whatever window the bucket already had.  GInv adds two facts: no route  *)
(* is ever without an application bucket, so there is always one to put a  *)
(* pause on, and before the first response every bucket is as it was       *)
(* constructed, so the initialisation of all routes takes nothing away.    *)
(***************************************************************************)
EXTENDS RateHandler, FiniteSetTheorems, TLAPS

-----------------------------------------------------------------------------
(* Maxima of bounded sets of naturals. *)

\* A non-empty set of naturals with an upper bound has a greatest element:
\* among the sets of the elements above a member, a minimal one is empty.
LEMMA GreatestElement ==
    ASSUME NEW b \in Nat, NEW W \in SUBSET (0 .. b), W # {}
    PROVE  \E m \in W : \A w \in W : m >= w
<1> DEFINE Above(m) == {w \in W : w > m}
           T == {Above(m) : m \in W}
<1>1. FiniteSubsetsOf(0 .. b) = SUBSET (0 .. b)
  <2>1. IsFiniteSet(0 .. b)
    BY FS_Interval
  <2> QED BY <2>1, FS_FiniteSubsetsOfFinite
<1>2. IsWellFoundedOn(StrictSubsetOrdering(0 .. b), SUBSET (0 .. b))
  BY <1>1, FS_StrictSubsetOrderingWellFounded
<1>3. T \subseteq SUBSET (0 .. b) /\ T # {}
  OBVIOUS
<1>4. PICK x \in T : \A y \in T : <<y, x>> \notin StrictSubsetOrdering(0 .. b)
  <2> HIDE DEF T
  <2> QED BY <1>2, <1>3, WFMin
<1>5. PICK m \in W : x = Above(m)
  BY <1>4
<1>6. SUFFICES ASSUME NEW w \in W, w > m PROVE FALSE
  OBVIOUS
<1>7. <<Above(w), x>> \in (SUBSET (0 .. b)) \X (SUBSET (0 .. b))
  BY <1>5
<1>8. Above(w) \subseteq x /\ Above(w) # x
  <2>1. \A v \in W : v \in Int
    OBVIOUS
  <2>2. w \in Above(m) /\ w \notin Above(w)
    BY <1>6, <2>1
  <2>3. ASSUME NEW v \in Above(w) PROVE v \in Above(m)
    BY <1>6, <2>1
  <2> QED BY <1>5, <2>2, <2>3
<1>9. <<Above(w), x>> \in StrictSubsetOrdering(0 .. b)
  BY <1>7, <1>8 DEF StrictSubsetOrdering
<1> QED BY <1>4, <1>9

\* Max is what its name says on such a set.
LEMMA MaxBounded ==
    ASSUME NEW b \in Nat, NEW W \in SUBSET (0 .. b), W # {}
    PROVE  Max(W) \in W /\ \A w \in W : Max(W) >= w
BY GreatestElement DEF Max
-----------------------------------------------------------------------------
(* Buckets stay within MaxWindow of the clock. *)

\* The buckets that at time t end no later than MaxWindow from now.
BoundedScope(t) ==
    {s \in Scope : s.duration <= MaxWindow /\ s.next_reset <= t + MaxWindow}

\* A bucket within the bound stays there as time passes.
LEMMA BoundedScopeMonotone ==
    ASSUME NEW t \in Nat, NEW u \in Nat, t <= u
    PROVE  BoundedScope(t) \subseteq BoundedScope(u)
BY ResponsesAssumption DEF BoundedScope, Scope

\* Any count, and any end within the bound.
LEMMA ScopeRefilled ==
    ASSUME NEW t \in Nat, NEW s \in Scope, s.duration <= MaxWindow,
           NEW c \in Int, NEW e \in Nat, e <= t + MaxWindow
    PROVE  [s EXCEPT !.count = c, !.next_reset = e] \in BoundedScope(t)
BY DEF BoundedScope, Scope

\* update_count, with or without opening a new window.
LEMMA UpdateCountBounded ==
    ASSUME NEW t \in Nat, NEW u \in Nat, t <= u,
           NEW s \in BoundedScope(t), NEW b \in BOOLEAN
    PROVE  ScopeUpdateCount(s, u, b) \in BoundedScope(u)
<1> DEFINE reset == IF b /\ s.duration > 0 THEN u + s.duration ELSE s.next_reset
<1>1. s \in Scope /\ s.duration <= MaxWindow /\ s.next_reset <= u + MaxWindow
  BY BoundedScopeMonotone DEF BoundedScope
<1>2. reset \in Nat /\ reset <= u + MaxWindow
  BY <1>1, ResponsesAssumption DEF Scope
<1>3. [s EXCEPT !.count = 0, !.next_reset = reset] \in BoundedScope(u)
  <2> HIDE DEF reset
  <2>1. \A c \in Int, e \in Nat : e <= u + MaxWindow
           => [s EXCEPT !.count = c, !.next_reset = e] \in BoundedScope(u)
    BY <1>1, ScopeRefilled
  <2>2. 0 \in Int
    OBVIOUS
  <2> QED BY <1>2, <2>1, <2>2, Zenon
<1>4. s \in BoundedScope(u)
  BY BoundedScopeMonotone
<1> QED BY <1>3, <1>4 DEF ScopeUpdateCount

\* insert_request
LEMMA InsertRequestBounded ==
    ASSUME NEW t \in Nat, NEW u \in Nat, t <= u, NEW s \in BoundedScope(t)
    PROVE  ScopeInsertRequest(s, t, u) \in BoundedScope(u)
<1>1. ScopeUpdateCount(s, u, Expired(s, t)) \in BoundedScope(u)
  <2>1. Expired(s, t) \in BOOLEAN
    BY DEF Expired
  <2> QED BY <2>1, UpdateCountBounded
<1> QED BY <1>1 DEF ScopeInsertRequest, BoundedScope, Scope

\* sync_from_server
LEMMA SyncBounded ==
    ASSUME NEW t \in Nat, NEW s \in BoundedScope(t),
           NEW c \in Int, NEW l \in Int, NEW d \in Int, d <= MaxWindow
    PROVE  ScopeSyncFromServer(s, c, l, d, t) \in BoundedScope(t)
BY ResponsesAssumption DEF BoundedScope, Scope, ScopeSyncFromServer, Expired, Larger

\* apply_retry_after
LEMMA ApplyRetryBounded ==
    ASSUME NEW t \in Nat, NEW u \in Nat, t <= u,
           NEW s \in BoundedScope(u), NEW retry \in 0 .. MaxWindow
    PROVE  ScopeApplyRetryAfter(s, retry, t) \in BoundedScope(u)
<1> DEFINE reset == Larger(s.next_reset, t + retry)
<1>1. s \in Scope /\ s.duration <= MaxWindow /\ s.next_reset <= u + MaxWindow
  BY DEF BoundedScope
<1>2. reset \in Nat /\ reset <= u + MaxWindow
  BY <1>1, ResponsesAssumption DEF Scope, Larger
<1>3. Larger(s.count, s.limit) \in Int
  BY <1>1 DEF Scope, Larger
<1>4. [s EXCEPT !.count = Larger(s.count, s.limit), !.next_reset = reset] \in BoundedScope(u)
  BY <1>1, <1>2, <1>3, ScopeRefilled
<1> QED BY <1>4 DEF ScopeApplyRetryAfter

\* get_wait_time of one bucket
LEMMA ScopeWaitBounded ==
    ASSUME NEW t \in Nat, NEW s \in BoundedScope(t)
    PROVE  ScopeWaitTime(s, t) \in 0 .. MaxWindow
BY ResponsesAssumption DEF BoundedScope, Scope, ScopeWaitTime, Expired
-----------------------------------------------------------------------------
(* Hierarchies of such buckets. *)

\* A function on the positions of a sequence is a sequence.
LEMMA OnPositions ==
    ASSUME NEW S, NEW T, NEW h \in Seq(T), NEW f \in [DOMAIN h -> S]
    PROVE  f \in Seq(S)
<1>1. DOMAIN h = 1 .. Len(h) /\ Len(h) \in Nat
  OBVIOUS
<1> QED BY <1>1

\* The sequence types get their elements by position.
LEMMA BoundedHierachyMonotone ==
    ASSUME NEW t \in Nat, NEW u \in Nat, t <= u
    PROVE  Seq(BoundedScope(t)) \subseteq Seq(BoundedScope(u))
<1> SUFFICES ASSUME NEW h \in Seq(BoundedScope(t)) PROVE h \in Seq(BoundedScope(u))
  OBVIOUS
<1>1. h \in [DOMAIN h -> BoundedScope(u)]
  BY BoundedScopeMonotone
<1> QED BY <1>1, OnPositions

\* The buckets a header announces, before any request.
LEMMA HierachyOfBounded ==
    ASSUME NEW t \in Nat, NEW limits \in Seq(LimitPart), AnnouncesAtMost(limits, MaxWindow)
    PROVE  HierachyOf(limits) \in Seq(BoundedScope(t))
<1>1. ASSUME NEW i \in DOMAIN limits
      PROVE  NewScope(limits[i].duration, limits[i].limit, 0) \in BoundedScope(t)
  <2>1. limits[i] \in LimitPart /\ limits[i].duration <= MaxWindow
    BY DEF AnnouncesAtMost
  <2> QED BY <2>1, ResponsesAssumption DEF LimitPart, NewScope, BoundedScope, Scope
<1> QED BY <1>1, OnPositions DEF HierachyOf

\* Dropping the expired counts of a hierarchy.
LEMMA HierachyUpdateBounded ==
    ASSUME NEW t \in Nat, NEW u \in Nat, t <= u, NEW h \in Seq(BoundedScope(t))
    PROVE  HierachyUpdateCount(h, u) \in Seq(BoundedScope(u))
<1>1. ASSUME NEW i \in DOMAIN h
      PROVE  ScopeUpdateCount(h[i], u, FALSE) \in BoundedScope(u)
  <2>1. h[i] \in BoundedScope(t) /\ FALSE \in BOOLEAN
    OBVIOUS
  <2> QED BY <2>1, UpdateCountBounded
<1> QED BY <1>1, OnPositions DEF HierachyUpdateCount

\* insert_request on a hierarchy
LEMMA HierachyInsertBounded ==
    ASSUME NEW t \in Nat, NEW u \in Nat, t <= u, NEW h \in Seq(BoundedScope(t))
    PROVE  HierachyInsertRequest(h, t, u) \in Seq(BoundedScope(u))
<1>1. \A i \in DOMAIN h : ScopeInsertRequest(h[i], t, u) \in BoundedScope(u)
  BY InsertRequestBounded
<1> QED BY <1>1, OnPositions DEF HierachyInsertRequest

\* A pause put on the last bucket.
LEMMA RetryOnBackBounded ==
    ASSUME NEW t \in Nat, NEW u \in Nat, t <= u,
           NEW h \in Seq(BoundedScope(u)), NEW retry \in 0 .. MaxWindow
    PROVE  RetryOnBack(h, retry, t) \in Seq(BoundedScope(u))
<1>1. CASE h = <<>>
  BY <1>1 DEF RetryOnBack
<1>2. CASE h # <<>>
  <2>1. Len(h) \in DOMAIN h
    BY <1>2
  <2>2. ScopeApplyRetryAfter(h[Len(h)], retry, t) \in BoundedScope(u)
    BY <2>1, ApplyRetryBounded
  <2>3. RetryOnBack(h, retry, t) \in [DOMAIN h -> BoundedScope(u)]
    BY <1>2, <2>2 DEF RetryOnBack
  <2> QED BY <2>3, OnPositions
<1> QED BY <1>1, <1>2

\* The loop over the announced buckets.
LEMMA SyncBucketsBounded ==
    ASSUME NEW t \in Nat, NEW h \in Seq(BoundedScope(t)), NEW retry \in 0 .. MaxWindow,
           NEW limits \in Seq(LimitPart), AnnouncesAtMost(limits, MaxWindow),
           NEW cs \in Seq(Int)
    PROVE  SyncBuckets(h, limits, cs, t, retry) \in Seq(BoundedScope(t))
<1> DEFINE base == IF Rebuilt(h, limits) THEN HierachyOf(limits) ELSE h
           synced(i) == ScopeSyncFromServer(base[i], CountAt(cs, i),
                                            limits[i].limit, limits[i].duration, t)
<1>1. base \in Seq(BoundedScope(t)) /\ DOMAIN base = DOMAIN limits
  BY HierachyOfBounded DEF Rebuilt, HierachyOf
<1>2. ASSUME NEW i \in DOMAIN limits PROVE synced(i) \in BoundedScope(t)
  <2> limits[i] \in LimitPart
    OBVIOUS
  <2>1. limits[i].limit \in Int /\ limits[i].duration \in Int /\ limits[i].duration <= MaxWindow
    BY DEF LimitPart, AnnouncesAtMost
  <2>2. CountAt(cs, i) \in Int
    BY DEF CountAt
  <2>3. base[i] \in BoundedScope(t)
    BY <1>1
  <2> QED BY <2>1, <2>2, <2>3, SyncBounded
<1>3. ASSUME NEW i \in DOMAIN limits
      PROVE  ScopeApplyRetryAfter(synced(i), retry, t) \in BoundedScope(t)
  <2>1. synced(i) \in BoundedScope(t) /\ t <= t
    BY <1>2
  <2> HIDE DEF synced
  <2> QED BY <2>1, ApplyRetryBounded
<1>4. SyncBuckets(h, limits, cs, t, retry) \in [DOMAIN limits -> BoundedScope(t)]
  BY <1>2, <1>3 DEF SyncBuckets
<1> QED BY <1>4, OnPositions

\* sync_from_headers
LEMMA HierachySyncBounded ==
    ASSUME NEW t \in Nat, NEW u \in Nat, t <= u,
           NEW h \in Seq(BoundedScope(t)), NEW retry \in 0 .. MaxWindow,
           NEW limits \in Seq(LimitPart), AnnouncesAtMost(limits, MaxWindow),
           NEW cs \in Seq(Int)
    PROVE  HierachySyncFromHeaders(h, limits, cs, t, u, retry) \in Seq(BoundedScope(u))
<1>1. CASE limits = <<>>
  BY <1>1, HierachyInsertBounded, RetryOnBackBounded DEF HierachySyncFromHeaders
<1>2. CASE limits # <<>>
  <2> DEFINE synced == SyncBuckets(h, limits, cs, t, retry)
  <2>1. synced \in Seq(BoundedScope(t)) /\ synced \in Seq(BoundedScope(u))
    BY SyncBucketsBounded, BoundedHierachyMonotone
  <2>2. HierachyUpdateCount(synced, u) \in Seq(BoundedScope(u))
    BY <2>1, HierachyUpdateBounded
  <2>3. RetryOnBack(HierachyUpdateCount(synced, u), retry, t) \in Seq(BoundedScope(u))
    BY <2>2, RetryOnBackBounded
  <2> QED BY <1>2, <2>1, <2>2, <2>3 DEF HierachySyncFromHeaders, EnforceRetry
<1> QED BY <1>1, <1>2
-----------------------------------------------------------------------------
(* Regions, and the inductive invariant. *)

BoundedRegion(t) ==
    [app: Seq(BoundedScope(t)), methods: [Methods -> Seq(BoundedScope(t))], active: BOOLEAN]

IInv ==
    /\ now \in Nat
    /\ counts \in [Routes -> BoundedRegion(now)]
    /\ initialised \in BOOLEAN

LEMMA BoundedRegionMonotone ==
    ASSUME NEW t \in Nat, NEW u \in Nat, t <= u
    PROVE  BoundedRegion(t) \subseteq BoundedRegion(u)
BY BoundedHierachyMonotone DEF BoundedRegion

\* A pause is never longer than MaxWindow.
LEMMA RetryAfterSecBounded ==
    ASSUME NEW resp \in Responses
    PROVE  RetryAfterSec(resp) \in 0 .. MaxWindow
<1>1. resp.response_header.retry_after \in Nat \cup {NoHeader}
  BY ResponsesAssumption DEF Response, RiotHeader
<1>2. resp.response_header.retry_after # NoHeader
         => resp.response_header.retry_after <= MaxWindow
  BY ResponsesAssumption
<1> QED BY <1>1, <1>2, ResponsesAssumption DEF RetryAfterSec, Larger

\* The readers' side effect on a region.
LEMMA RegionUpdateBounded ==
    ASSUME NEW t \in Nat, NEW region \in BoundedRegion(t), NEW ms \in SUBSET Methods
    PROVE  RegionUpdateCount(region, ms, t) \in BoundedRegion(t)
<1>1. HierachyUpdateCount(region.app, t) \in Seq(BoundedScope(t))
  BY HierachyUpdateBounded DEF BoundedRegion
<1>2. ASSUME NEW m \in Methods
      PROVE  /\ region.methods[m] \in Seq(BoundedScope(t))
             /\ HierachyUpdateCount(region.methods[m], t) \in Seq(BoundedScope(t))
  BY HierachyUpdateBounded DEF BoundedRegion
<1> QED BY <1>1, <1>2 DEF RegionUpdateCount, BoundedRegion

\* insert_request_with_headers
LEMMA RegionInsertBounded ==
    ASSUME NEW t \in Nat, NEW u \in Nat, t <= u,
           NEW region \in BoundedRegion(t), NEW m \in Methods, NEW resp \in Responses
    PROVE  RegionInsertWithHeaders(region, m, resp.response_header, t, u,
                                   RetryAfterSec(resp)) \in BoundedRegion(u)
<1> DEFINE header == resp.response_header
           retry == RetryAfterSec(resp)
           app == HierachySyncFromHeaders(region.app, header.app_limit,
                                          header.app_limit_count, t, u, retry)
           method == HierachySyncFromHeaders(region.methods[m], header.method_limit,
                                             header.method_limit_count, t, u, retry)
<1>1. /\ header.app_limit \in Seq(LimitPart) /\ header.app_limit_count \in Seq(Int)
      /\ header.method_limit \in Seq(LimitPart) /\ header.method_limit_count \in Seq(Int)
  BY ResponsesAssumption DEF Response, RiotHeader
<1>2. /\ AnnouncesAtMost(header.app_limit, MaxWindow)
      /\ AnnouncesAtMost(header.method_limit, MaxWindow)
  BY ResponsesAssumption
<1>3. retry \in 0 .. MaxWindow
  BY RetryAfterSecBounded
<1>4. region.app \in Seq(BoundedScope(t)) /\ region.methods \in [Methods -> Seq(BoundedScope(t))]
  BY DEF BoundedRegion
<1>5. app \in Seq(BoundedScope(u)) /\ method \in Seq(BoundedScope(u))
  <2> HIDE DEF header, retry
  <2> QED BY <1>1, <1>2, <1>3, <1>4, HierachySyncBounded
<1>6. region.methods \in [Methods -> Seq(BoundedScope(u))]
  BY <1>4, BoundedHierachyMonotone
<1>7. [region EXCEPT !.app = app, !.methods[m] = method, !.active = TRUE] \in BoundedRegion(u)
  <2> HIDE DEF app, method
  <2> QED BY <1>5, <1>6 DEF BoundedRegion
<1> QED BY <1>7 DEF RegionInsertWithHeaders

\* initialise_counts
LEMMA InitialiseBounded ==
    ASSUME IInv, NEW resp \in Responses
    PROVE  InitialiseCounts(resp.response_header) \in [Routes -> BoundedRegion(now)]
<1> DEFINE limits == IF resp.response_header.app_limit = <<>>
                     THEN FallbackLimits ELSE resp.response_header.app_limit
<1>1. limits \in Seq(LimitPart) /\ AnnouncesAtMost(limits, MaxWindow)
  BY ResponsesAssumption DEF Response, RiotHeader
<1>2. HierachyOf(limits) \in Seq(BoundedScope(now))
  BY <1>1, HierachyOfBounded DEF IInv
<1>3. ASSUME NEW r \in Routes
      PROVE  RegionInitLimits(counts[r], limits) \in BoundedRegion(now)
  BY <1>2 DEF RegionInitLimits, BoundedRegion, IInv
<1> QED BY <1>3 DEF InitialiseCounts
-----------------------------------------------------------------------------
LEMMA InitIInv == Init => IInv
<1>1. NewScope(0, 0, 0) \in BoundedScope(0)
  BY ResponsesAssumption DEF NewScope, BoundedScope, Scope
<1>2. NewRegion \in BoundedRegion(0)
  BY <1>1 DEF NewRegion, BoundedRegion
<1> SUFFICES ASSUME Init PROVE IInv
  OBVIOUS
<1>3. now = 0 /\ counts = [r \in Routes |-> NewRegion] /\ initialised = FALSE
  BY DEF Init
<1>4. counts \in [Routes -> BoundedRegion(now)]
  BY <1>2, <1>3, Zenon
<1> QED BY <1>3, <1>4 DEF IInv

LEMMA InsertRequestIInv ==
    ASSUME IInv, NEW r \in Routes, NEW m \in Methods, NEW resp \in Responses,
           InsertRequest(r, m, resp)
    PROVE  IInv'
<1> DEFINE base == IF initialised THEN counts ELSE InitialiseCounts(resp.response_header)
           region == RegionInsertWithHeaders(base[r], m, resp.response_header, now, now',
                                             RetryAfterSec(resp))
<1>1. now \in Nat /\ now' \in Nat /\ now <= now'
  BY DEF IInv, InsertRequest
<1>2. base \in [Routes -> BoundedRegion(now)]
  BY InitialiseBounded DEF IInv
<1>3. region \in BoundedRegion(now')
  <2> HIDE DEF base
  <2> QED BY <1>1, <1>2, RegionInsertBounded
<1>4. base \in [Routes -> BoundedRegion(now')]
  BY <1>1, <1>2, BoundedRegionMonotone
<1>5. counts' = [base EXCEPT ![r] = region]
  BY DEF InsertRequest
<1>6. counts' \in [Routes -> BoundedRegion(now')]
  <2> HIDE DEF base, region
  <2> QED BY <1>3, <1>4, <1>5
<1> QED BY <1>1, <1>6 DEF IInv, InsertRequest

LEMMA ReadIInv == ASSUME IInv, Read PROVE IInv'
<1>1. ASSUME NEW r \in Routes, NEW m \in Methods
      PROVE  RegionUpdateCount(counts[r], {m}, now) \in BoundedRegion(now)
  BY RegionUpdateBounded DEF IInv
<1>2. ASSUME NEW r \in Routes, NEW m \in Methods, CheckRateLimits(r, m) PROVE IInv'
  <2>1. now \in Nat /\ now' \in Nat /\ now <= now'
    BY <1>2 DEF IInv, CheckRateLimits
  <2>2. counts' \in [Routes -> BoundedRegion(now)]
    BY <1>1, <1>2 DEF IInv, CheckRateLimits
  <2>3. BoundedRegion(now) \subseteq BoundedRegion(now')
    BY <2>1, BoundedRegionMonotone
  <2> QED BY <1>2, <2>1, <2>2, <2>3 DEF IInv, CheckRateLimits
<1>3. ASSUME NEW r \in Routes, NEW m \in Methods, GetWaitTimeBreakdown(r, m) PROVE IInv'
  BY <1>1, <1>3 DEF IInv, GetWaitTimeBreakdown
<1>4. CASE GetSnapshot
  <2>1. ASSUME NEW r \in Routes
        PROVE  RegionUpdateCount(counts[r], Methods, now) \in BoundedRegion(now)
    BY RegionUpdateBounded DEF IInv
  <2> QED BY <1>4, <2>1 DEF IInv, GetSnapshot
<1> QED BY <1>2, <1>3, <1>4 DEF Read

LEMMA NextIInv == IInv /\ [Next]_vars => IInv'
<1> SUFFICES ASSUME IInv, [Next]_vars PROVE IInv'
  OBVIOUS
<1>1. CASE Respond
  BY <1>1, InsertRequestIInv DEF Respond
<1>2. CASE Read
  BY <1>2, ReadIInv
<1>3. CASE Tick
  <2>1. now \in Nat /\ now' = now + 1
    BY <1>3 DEF IInv, Tick
  <2>2. BoundedRegion(now) \subseteq BoundedRegion(now')
    BY <2>1, BoundedRegionMonotone
  <2> QED BY <1>3, <2>1, <2>2 DEF IInv, Tick
<1>4. CASE UNCHANGED vars
  BY <1>4 DEF IInv, vars
<1> QED BY <1>1, <1>2, <1>3, <1>4 DEF Next

LEMMA SpecIInv == Spec => []IInv
BY InitIInv, NextIInv, PTL DEF Spec
-----------------------------------------------------------------------------
(* The theorems. *)

LEMMA BoundedRegionIsRegion == \A t \in Nat : BoundedRegion(t) \subseteq Region
<1> SUFFICES ASSUME NEW t \in Nat PROVE BoundedRegion(t) \subseteq Region
  OBVIOUS
<1>1. ASSUME NEW h \in Seq(BoundedScope(t)) PROVE h \in Seq(Scope)
  <2>1. h \in [DOMAIN h -> Scope]
    BY DEF BoundedScope
  <2> QED BY <2>1, OnPositions
<1> QED BY <1>1 DEF BoundedRegion, Region

\* Type correctness of the rate limiter: in particular the end of a window is
\* never negative, so the unsigned arithmetic of the code does not wrap below 0.
THEOREM TypeCorrect == Spec => []TypeOK
<1>1. IInv => TypeOK
  BY BoundedRegionIsRegion DEF IInv, TypeOK
<1> QED BY <1>1, SpecIInv, PTL

\* The wait of a hierarchy is one of its buckets' waits, or 0.
LEMMA HierachyWaitBounded ==
    ASSUME NEW t \in Nat, NEW h \in Seq(BoundedScope(t))
    PROVE  HierachyWaitTime(h, t) \in 0 .. MaxWindow
<1> DEFINE waits == {0} \cup {ScopeWaitTime(h[i], t) : i \in DOMAIN h}
<1>1. ASSUME NEW i \in DOMAIN h PROVE ScopeWaitTime(h[i], t) \in 0 .. MaxWindow
  BY ScopeWaitBounded
<1>2. MaxWindow \in Nat
  BY ResponsesAssumption
<1>3. waits \in SUBSET (0 .. MaxWindow) /\ waits # {}
  BY <1>1, <1>2
<1>4. Max(waits) \in waits
  <2> HIDE DEF waits
  <2> QED BY <1>2, <1>3, MaxBounded
<1> QED BY <1>3, <1>4 DEF HierachyWaitTime

LEMMA WaitTimeBounded ==
    ASSUME IInv, NEW r \in Routes, NEW m \in Methods
    PROVE  WaitTime(r, m, now) \in 0 .. MaxWindow
<1>1. /\ HierachyWaitTime(counts[r].app, now) \in 0 .. MaxWindow
      /\ HierachyWaitTime(counts[r].methods[m], now) \in 0 .. MaxWindow
  BY HierachyWaitBounded DEF IInv, BoundedRegion
<1> QED BY <1>1, ResponsesAssumption DEF WaitTime, RegionWaitTime, Larger

\* No request is told to wait longer than MaxWindow, the longest window or pause
\* any response announced, whatever the responses and their order.
THEOREM WaitsAreBounded == Spec => []WaitBounded
<1>1. ASSUME IInv, NEW r \in Routes, NEW m \in Methods
      PROVE  WaitTime(r, m, now) <= MaxWindow
  BY <1>1, WaitTimeBounded, ResponsesAssumption
<1>2. IInv => WaitBounded
  BY <1>1 DEF WaitBounded
<1> QED BY <1>2, SpecIInv, PTL
-----------------------------------------------------------------------------
(* The invariant with the application buckets. *)

AppTracked == \A r \in Routes : counts[r].app # <<>>

Pristine == ~initialised => counts = [r \in Routes |-> NewRegion]

GInv == IInv /\ AppTracked /\ Pristine
-----------------------------------------------------------------------------
(* Waits of buckets and hierarchies. *)

\* The wait of a hierarchy is the greatest of its buckets' waits.
LEMMA HierachyWaitGreatest ==
    ASSUME NEW t \in Nat, NEW h \in Seq(BoundedScope(t))
    PROVE  /\ HierachyWaitTime(h, t) \in Nat
           /\ HierachyWaitTime(h, t) = 0
                 \/ \E i \in DOMAIN h : HierachyWaitTime(h, t) = ScopeWaitTime(h[i], t)
           /\ \A i \in DOMAIN h : HierachyWaitTime(h, t) >= ScopeWaitTime(h[i], t)
<1> DEFINE waits == {0} \cup {ScopeWaitTime(h[i], t) : i \in DOMAIN h}
<1>1. ASSUME NEW i \in DOMAIN h PROVE ScopeWaitTime(h[i], t) \in 0 .. MaxWindow
  BY ScopeWaitBounded
<1>2. MaxWindow \in Nat
  BY ResponsesAssumption
<1>3. waits \in SUBSET (0 .. MaxWindow) /\ waits # {}
  BY <1>1, <1>2
<1>4. Max(waits) \in waits /\ \A w \in waits : Max(waits) >= w
  <2> HIDE DEF waits
  <2> QED BY <1>2, <1>3, MaxBounded
<1>5. HierachyWaitTime(h, t) = Max(waits)
  BY DEF HierachyWaitTime
<1>6. \A i \in DOMAIN h : ScopeWaitTime(h[i], t) \in waits
  OBVIOUS
<1>7. Max(waits) \in Nat
  BY <1>3, <1>4
<1>8. Max(waits) = 0 \/ \E i \in DOMAIN h : Max(waits) = ScopeWaitTime(h[i], t)
  BY <1>4
<1> HIDE DEF waits
<1> QED BY <1>4, <1>5, <1>6, <1>7, <1>8

\* The seconds that pass are taken off the wait of a bucket.
LEMMA ScopeWaitPasses ==
    ASSUME NEW t \in Nat, NEW u \in Nat, t <= u, NEW s \in BoundedScope(t)
    PROVE  ScopeWaitTime(s, u) = Larger(0, ScopeWaitTime(s, t) - (u - t))
BY DEF BoundedScope, Scope, ScopeWaitTime, Expired, Larger

\* The seconds that pass are taken off the wait of a hierarchy.
LEMMA HierachyWaitPasses ==
    ASSUME NEW t \in Nat, NEW u \in Nat, t <= u, NEW h \in Seq(BoundedScope(t))
    PROVE  HierachyWaitTime(h, u) = Larger(0, HierachyWaitTime(h, t) - (u - t))
<1> DEFINE a == HierachyWaitTime(h, t)
           b == HierachyWaitTime(h, u)
           w(i) == ScopeWaitTime(h[i], t)
           v(i) == ScopeWaitTime(h[i], u)
<1>1. h \in Seq(BoundedScope(u))
  BY BoundedHierachyMonotone
<1>2. a \in Nat /\ (a = 0 \/ \E i \in DOMAIN h : a = w(i)) /\ \A i \in DOMAIN h : a >= w(i)
  BY HierachyWaitGreatest
<1>3. b \in Nat /\ (b = 0 \/ \E i \in DOMAIN h : b = v(i)) /\ \A i \in DOMAIN h : b >= v(i)
  BY <1>1, HierachyWaitGreatest
<1>4. ASSUME NEW i \in DOMAIN h
      PROVE  v(i) = Larger(0, w(i) - (u - t)) /\ w(i) \in Nat
  <2>1. h[i] \in BoundedScope(t)
    OBVIOUS
  <2> QED BY <2>1, ScopeWaitPasses, ScopeWaitBounded, ResponsesAssumption
<1> HIDE DEF a, b, w, v
<1>5. b <= Larger(0, a - (u - t))
  BY <1>2, <1>3, <1>4 DEF Larger
<1>6. b >= Larger(0, a - (u - t))
  BY <1>2, <1>3, <1>4 DEF Larger
<1> QED BY <1>2, <1>3, <1>5, <1>6 DEF a, b, Larger

\* Reading a bucket, which drops its count once it is expired, leaves its waits.
LEMMA ScopeReadKeepsWait ==
    ASSUME NEW t \in Nat, NEW u \in Nat, t <= u, NEW s \in BoundedScope(t)
    PROVE  ScopeWaitTime(ScopeUpdateCount(s, t, FALSE), u) = ScopeWaitTime(s, u)
BY DEF BoundedScope, Scope, ScopeWaitTime, ScopeUpdateCount, Expired

LEMMA HierachyReadKeepsWait ==
    ASSUME NEW t \in Nat, NEW u \in Nat, t <= u, NEW h \in Seq(BoundedScope(t))
    PROVE  HierachyWaitTime(HierachyUpdateCount(h, t), u) = HierachyWaitTime(h, u)
<1> DEFINE g == HierachyUpdateCount(h, t)
<1>1. DOMAIN g = DOMAIN h
  BY DEF HierachyUpdateCount
<1>2. ASSUME NEW i \in DOMAIN h
      PROVE  ScopeWaitTime(g[i], u) = ScopeWaitTime(h[i], u)
  <2>1. h[i] \in BoundedScope(t)
    OBVIOUS
  <2>2. g[i] = ScopeUpdateCount(h[i], t, FALSE)
    BY DEF HierachyUpdateCount
  <2> QED BY <2>1, <2>2, ScopeReadKeepsWait
<1> HIDE DEF g
<1>3. {ScopeWaitTime(g[i], u) : i \in DOMAIN g} = {ScopeWaitTime(h[i], u) : i \in DOMAIN h}
  BY <1>1, <1>2
<1> QED BY <1>3 DEF HierachyWaitTime, g

\* Buckets no request has been counted in do not make anyone wait.
LEMMA FreshHierachyOpen ==
    ASSUME NEW t \in Nat, NEW h \in Seq(BoundedScope(t)),
           \A i \in DOMAIN h : h[i].next_reset = 0
    PROVE  HierachyWaitTime(h, t) = 0
<1>1. ASSUME NEW i \in DOMAIN h PROVE ScopeWaitTime(h[i], t) = 0
  BY <1>1 DEF ScopeWaitTime, Expired
<1> QED BY <1>1, HierachyWaitGreatest
-----------------------------------------------------------------------------
(* Pauses. *)

\* A paused bucket makes a request wait for the rest of the pause.
LEMMA PausedScope ==
    ASSUME NEW t \in Nat, NEW u \in Nat, t <= u, NEW s \in BoundedScope(u),
           NEW retry \in 0 .. MaxWindow, retry > 0
    PROVE  u + ScopeWaitTime(ScopeApplyRetryAfter(s, retry, t), u) >= t + retry
BY ResponsesAssumption
   DEF BoundedScope, Scope, ScopeWaitTime, ScopeApplyRetryAfter, Expired, Larger

\* So does a hierarchy whose last bucket is paused.
LEMMA PausedBack ==
    ASSUME NEW t \in Nat, NEW u \in Nat, t <= u,
           NEW h \in Seq(BoundedScope(u)), h # <<>>,
           NEW retry \in 0 .. MaxWindow, retry > 0
    PROVE  u + HierachyWaitTime(RetryOnBack(h, retry, t), u) >= t + retry
<1> DEFINE g == RetryOnBack(h, retry, t)
<1>1. g \in Seq(BoundedScope(u))
  BY RetryOnBackBounded
<1>2. Len(h) \in DOMAIN h /\ h[Len(h)] \in BoundedScope(u)
  OBVIOUS
<1>3. Len(h) \in DOMAIN g /\ g[Len(h)] = ScopeApplyRetryAfter(h[Len(h)], retry, t)
  BY <1>2 DEF RetryOnBack
<1>4. u + ScopeWaitTime(g[Len(h)], u) >= t + retry
  BY <1>2, <1>3, PausedScope
<1>5. HierachyWaitTime(g, u) >= ScopeWaitTime(g[Len(h)], u) /\ HierachyWaitTime(g, u) \in Nat
  BY <1>1, <1>3, HierachyWaitGreatest
<1>6. ScopeWaitTime(g[Len(h)], u) \in Nat
  <2>1. g[Len(h)] \in BoundedScope(u)
    BY <1>1, <1>3
  <2> QED BY <2>1, ScopeWaitBounded, ResponsesAssumption
<1> HIDE DEF g
<1>7. u + HierachyWaitTime(g, u) >= t + retry
  BY <1>4, <1>5, <1>6
<1> QED BY <1>7 DEF g

\* sync_from_headers never leaves a hierarchy without buckets that had some.
LEMMA SyncKeepsBuckets ==
    ASSUME NEW t \in Nat, NEW u \in Nat, t <= u,
           NEW h \in Seq(BoundedScope(t)), h # <<>>, NEW retry \in 0 .. MaxWindow,
           NEW limits \in Seq(LimitPart), AnnouncesAtMost(limits, MaxWindow),
           NEW cs \in Seq(Int)
    PROVE  HierachySyncFromHeaders(h, limits, cs, t, u, retry) # <<>>
<1> DEFINE g == HierachySyncFromHeaders(h, limits, cs, t, u, retry)
<1>1. DOMAIN g = DOMAIN h \/ (limits # <<>> /\ DOMAIN g = DOMAIN limits)
  BY DEF HierachySyncFromHeaders, EnforceRetry, RetryOnBack, SyncBuckets,
         HierachyUpdateCount, HierachyInsertRequest
<1>2. 1 \in DOMAIN g
  BY <1>1
<1> QED BY <1>2

\* A pause is enforced by the application buckets, of which there is always one.
LEMMA SyncEnforcesPause ==
    ASSUME NEW t \in Nat, NEW u \in Nat, t <= u,
           NEW h \in Seq(BoundedScope(t)), h # <<>>,
           NEW retry \in 0 .. MaxWindow, retry > 0,
           NEW limits \in Seq(LimitPart), AnnouncesAtMost(limits, MaxWindow),
           NEW cs \in Seq(Int)
    PROVE  u + HierachyWaitTime(HierachySyncFromHeaders(h, limits, cs, t, u, retry), u)
              >= t + retry
<1>1. CASE limits = <<>>
  <2> DEFINE g == HierachyInsertRequest(h, t, u)
  <2>1. g \in Seq(BoundedScope(u))
    BY HierachyInsertBounded
  <2>2. g # <<>>
    <3>1. DOMAIN g = DOMAIN h /\ 1 \in DOMAIN h
      BY DEF HierachyInsertRequest
    <3> QED BY <3>1
  <2> HIDE DEF g
  <2>3. u + HierachyWaitTime(RetryOnBack(g, retry, t), u) >= t + retry
    BY <2>1, <2>2, PausedBack
  <2> QED BY <1>1, <2>3 DEF g, HierachySyncFromHeaders
<1>2. CASE limits # <<>>
  <2> DEFINE synced == SyncBuckets(h, limits, cs, t, retry)
             settled == HierachyUpdateCount(synced, u)
  <2>1. synced \in Seq(BoundedScope(t))
    BY SyncBucketsBounded
  <2>2. settled \in Seq(BoundedScope(u))
    BY <2>1, HierachyUpdateBounded
  <2>3. settled # <<>>
    <3>1. DOMAIN settled = DOMAIN limits /\ 1 \in DOMAIN limits
      BY <1>2 DEF HierachyUpdateCount, SyncBuckets
    <3> QED BY <3>1
  <2>4. HierachyWaitTime(settled, u) \in Nat
    BY <2>2, HierachyWaitGreatest
  <2>5. HierachySyncFromHeaders(h, limits, cs, t, u, retry)
          = IF HierachyWaitTime(settled, u) < retry
            THEN RetryOnBack(settled, retry, t) ELSE settled
    BY <1>2 DEF HierachySyncFromHeaders, EnforceRetry
  <2> HIDE DEF synced, settled
  <2>6. u + HierachyWaitTime(RetryOnBack(settled, retry, t), u) >= t + retry
    BY <2>2, <2>3, PausedBack
  <2>7. CASE HierachyWaitTime(settled, u) < retry
    BY <2>5, <2>6, <2>7
  <2>8. CASE ~(HierachyWaitTime(settled, u) < retry)
    BY <2>4, <2>5, <2>8
  <2> QED BY <2>7, <2>8
<1> QED BY <1>1, <1>2
-----------------------------------------------------------------------------
(* The invariant is inductive. *)

\* What a response leaves in the region it is for.
LEMMA ResponseOnRegion ==
    ASSUME NEW t \in Nat, NEW u \in Nat, t <= u,
           NEW region \in BoundedRegion(t), region.app # <<>>,
           NEW m \in Methods, NEW resp \in Responses
    PROVE  LET after == RegionInsertWithHeaders(region, m, resp.response_header, t, u,
                                                RetryAfterSec(resp))
           IN  /\ after.app # <<>>
               /\ RetryAfterSec(resp) > 0
                    => u + HierachyWaitTime(after.app, u) >= t + RetryAfterSec(resp)
<1> DEFINE header == resp.response_header
           retry == RetryAfterSec(resp)
           app == HierachySyncFromHeaders(region.app, header.app_limit,
                                          header.app_limit_count, t, u, retry)
<1>1. /\ header.app_limit \in Seq(LimitPart) /\ header.app_limit_count \in Seq(Int)
      /\ AnnouncesAtMost(header.app_limit, MaxWindow)
  BY ResponsesAssumption DEF Response, RiotHeader
<1>2. retry \in 0 .. MaxWindow
  BY RetryAfterSecBounded
<1>3. region.app \in Seq(BoundedScope(t))
  BY DEF BoundedRegion
<1>4. RegionInsertWithHeaders(region, m, header, t, u, retry).app = app
  BY DEF RegionInsertWithHeaders, BoundedRegion
<1> HIDE DEF header, retry
<1>5. app # <<>>
  BY <1>1, <1>2, <1>3, SyncKeepsBuckets
<1>6. retry > 0 => u + HierachyWaitTime(app, u) >= t + retry
  BY <1>1, <1>2, <1>3, SyncEnforcesPause
<1> QED BY <1>4, <1>5, <1>6 DEF header, retry

\* The regions a response is applied to.
LEMMA BaseTracked ==
    ASSUME GInv, NEW resp \in Responses, NEW r \in Routes
    PROVE  LET base == IF initialised THEN counts
                       ELSE InitialiseCounts(resp.response_header)
           IN  base \in [Routes -> BoundedRegion(now)] /\ base[r].app # <<>>
<1> DEFINE limits == IF resp.response_header.app_limit = <<>>
                     THEN FallbackLimits ELSE resp.response_header.app_limit
<1>1. limits \in Seq(LimitPart) /\ limits # <<>>
  BY ResponsesAssumption DEF Response, RiotHeader
<1>2. HierachyOf(limits) # <<>>
  <2>1. DOMAIN HierachyOf(limits) = DOMAIN limits /\ 1 \in DOMAIN limits
    BY <1>1 DEF HierachyOf
  <2> QED BY <2>1
<1>3. InitialiseCounts(resp.response_header)[r].app = HierachyOf(limits)
  BY DEF InitialiseCounts, RegionInitLimits, GInv, IInv, BoundedRegion
<1>4. InitialiseCounts(resp.response_header) \in [Routes -> BoundedRegion(now)]
  BY InitialiseBounded DEF GInv
<1> QED BY <1>2, <1>3, <1>4 DEF GInv, IInv, AppTracked

\* InsertRequest in terms of the region it is for.
LEMMA InsertRequestSteps ==
    ASSUME GInv, NEW r \in Routes, NEW m \in Methods, NEW resp \in Responses,
           InsertRequest(r, m, resp)
    PROVE  LET base == IF initialised THEN counts
                       ELSE InitialiseCounts(resp.response_header)
           IN  /\ now \in Nat /\ now' \in {now, now + 1}
               /\ base \in [Routes -> BoundedRegion(now)]
               /\ \A q \in Routes : base[q].app # <<>>
               /\ counts' = [base EXCEPT ![r] =
                     RegionInsertWithHeaders(base[r], m, resp.response_header, now, now',
                                             RetryAfterSec(resp))]
               /\ initialised' = TRUE
BY BaseTracked DEF GInv, IInv, InsertRequest

LEMMA InsertRequestGInv ==
    ASSUME GInv, NEW r \in Routes, NEW m \in Methods, NEW resp \in Responses,
           InsertRequest(r, m, resp)
    PROVE  GInv'
<1> DEFINE base == IF initialised THEN counts ELSE InitialiseCounts(resp.response_header)
           region == RegionInsertWithHeaders(base[r], m, resp.response_header, now, now',
                                             RetryAfterSec(resp))
<1>1. /\ now \in Nat /\ now' \in Nat /\ now <= now'
      /\ base \in [Routes -> BoundedRegion(now)] /\ \A q \in Routes : base[q].app # <<>>
      /\ counts' = [base EXCEPT ![r] = region] /\ initialised' = TRUE
  <2>1. /\ now \in Nat /\ now' \in {now, now + 1}
        /\ base \in [Routes -> BoundedRegion(now)] /\ \A q \in Routes : base[q].app # <<>>
        /\ counts' = [base EXCEPT ![r] = region] /\ initialised' = TRUE
    BY InsertRequestSteps
  <2>2. now' \in Nat /\ now <= now'
    BY <2>1
  <2> HIDE DEF base, region
  <2> QED BY <2>1, <2>2
<1>2. region.app # <<>>
  <2> HIDE DEF base
  <2> QED BY <1>1, ResponseOnRegion
<1>3. AppTracked'
  <2> HIDE DEF base, region
  <2> QED BY <1>1, <1>2 DEF AppTracked
<1>4. IInv'
  BY InsertRequestIInv DEF GInv
<1> QED BY <1>1, <1>3, <1>4 DEF GInv, Pristine

\* A reader leaves every hierarchy its buckets, and a pristine one as it is.
LEMMA ReadOnRegion ==
    ASSUME NEW t \in Nat, NEW region \in BoundedRegion(t), NEW ms \in SUBSET Methods
    PROVE  region.app # <<>> => RegionUpdateCount(region, ms, t).app # <<>>
<1> DEFINE after == RegionUpdateCount(region, ms, t)
<1>1. after.app = HierachyUpdateCount(region.app, t)
  BY DEF RegionUpdateCount, BoundedRegion
<1>2. DOMAIN after.app = DOMAIN region.app
  BY <1>1 DEF HierachyUpdateCount
<1>3. region.app \in Seq(BoundedScope(t))
  BY DEF BoundedRegion
<1>4. region.app # <<>> => 1 \in DOMAIN region.app
  BY <1>3
<1> HIDE DEF after
<1>5. region.app # <<>> => after.app # <<>>
  BY <1>2, <1>4
<1> QED BY <1>5 DEF after

\* What a reader of any kind does to the regions.
LEMMA ReadSteps ==
    ASSUME GInv, Read
    PROVE  /\ now \in Nat /\ now' \in {now, now + 1}
           /\ initialised' = initialised
           /\ \A r \in Routes :
                 \/ counts'[r] = counts[r]
                 \/ \E ms \in SUBSET Methods : counts'[r] = RegionUpdateCount(counts[r], ms, now)
           /\ ~initialised => counts' = counts
<1>1. ASSUME NEW q \in Routes, NEW m \in Methods, CheckRateLimits(q, m)
      PROVE  /\ now' \in {now, now + 1} /\ initialised' = initialised
             /\ \A r \in Routes :
                   \/ counts'[r] = counts[r]
                   \/ \E ms \in SUBSET Methods :
                         counts'[r] = RegionUpdateCount(counts[r], ms, now)
             /\ ~initialised => counts' = counts
  BY <1>1 DEF CheckRateLimits, GInv, IInv
<1>2. ASSUME NEW q \in Routes, NEW m \in Methods, GetWaitTimeBreakdown(q, m)
      PROVE  /\ now' \in {now, now + 1} /\ initialised' = initialised
             /\ \A r \in Routes :
                   \/ counts'[r] = counts[r]
                   \/ \E ms \in SUBSET Methods :
                         counts'[r] = RegionUpdateCount(counts[r], ms, now)
             /\ ~initialised => counts' = counts
  BY <1>2 DEF GetWaitTimeBreakdown, GInv, IInv
<1>3. CASE GetSnapshot
  <2>1. now' \in {now, now + 1} /\ initialised' = initialised
    BY <1>3 DEF GetSnapshot
  <2>2. \A r \in Routes :
           \/ counts'[r] = counts[r]
           \/ \E ms \in SUBSET Methods : counts'[r] = RegionUpdateCount(counts[r], ms, now)
    BY <1>3 DEF GetSnapshot
  <2>3. ASSUME ~initialised PROVE counts' = counts
    <3>1. \A r \in Routes : ~counts[r].active
      BY <2>3 DEF GInv, Pristine, NewRegion
    <3>2. counts' = [r \in Routes |-> counts[r]]
      BY <1>3, <3>1 DEF GetSnapshot
    <3> QED BY <3>2 DEF GInv, IInv
  <2> QED BY <2>1, <2>2, <2>3 DEF GInv, IInv
<1> QED BY <1>1, <1>2, <1>3 DEF Read, GInv, IInv

LEMMA InitGInv == Init => GInv
<1> SUFFICES ASSUME Init PROVE GInv
  OBVIOUS
<1>1. IInv
  BY InitIInv
<1>2. NewRegion.app # <<>>
  BY DEF NewRegion
<1> QED BY <1>1, <1>2 DEF Init, GInv, AppTracked, Pristine

LEMMA NextGInv == GInv /\ [Next]_vars => GInv'
<1> SUFFICES ASSUME GInv, [Next]_vars PROVE GInv'
  OBVIOUS
<1>1. IInv'
  BY NextIInv DEF GInv
<1>2. CASE Respond
  BY <1>2, InsertRequestGInv DEF Respond
<1>3. CASE Read
  <2>1. AppTracked'
    <3> SUFFICES ASSUME NEW r \in Routes PROVE counts'[r].app # <<>>
      BY DEF AppTracked
    <3>1. counts[r].app # <<>> /\ counts[r] \in BoundedRegion(now) /\ now \in Nat
      BY DEF GInv, IInv, AppTracked
    <3> QED BY <1>3, <3>1, ReadSteps, ReadOnRegion
  <2>2. Pristine'
    BY <1>3, ReadSteps DEF GInv, Pristine
  <2> QED BY <1>1, <2>1, <2>2 DEF GInv
<1>4. CASE Tick \/ UNCHANGED vars
  BY <1>1, <1>4 DEF GInv, AppTracked, Pristine, Tick, vars
<1> QED BY <1>2, <1>3, <1>4 DEF Next
-----------------------------------------------------------------------------
(* Pauses are enforced. *)

\* After any response, its route and method wait at least for the rest of the
\* pause that it asked for or that insert_request assumes.
LEMMA InsertRequestEnforcesPause ==
    ASSUME GInv, NEW r \in Routes, NEW m \in Methods, NEW resp \in Responses,
           InsertRequest(r, m, resp)
    PROVE  now' + WaitTime(r, m, now)' >= now + RetryAfterSec(resp)
<1> DEFINE base == IF initialised THEN counts ELSE InitialiseCounts(resp.response_header)
           region == RegionInsertWithHeaders(base[r], m, resp.response_header, now, now',
                                             RetryAfterSec(resp))
           appWait == HierachyWaitTime(region.app, now')
           methodWait == HierachyWaitTime(region.methods[m], now')
<1>1. /\ now \in Nat /\ now' \in Nat /\ now <= now'
      /\ base \in [Routes -> BoundedRegion(now)] /\ base[r].app # <<>>
      /\ counts' = [base EXCEPT ![r] = region]
  <2>1. /\ now \in Nat /\ now' \in {now, now + 1}
        /\ base \in [Routes -> BoundedRegion(now)] /\ base[r].app # <<>>
        /\ counts' = [base EXCEPT ![r] = region]
    BY InsertRequestSteps
  <2>2. now' \in Nat /\ now <= now'
    BY <2>1
  <2> HIDE DEF base, region
  <2> QED BY <2>1, <2>2
<1>2. region \in BoundedRegion(now')
  <2> HIDE DEF base
  <2> QED BY <1>1, RegionInsertBounded
<1>3. RetryAfterSec(resp) > 0 => now' + appWait >= now + RetryAfterSec(resp)
  <2> HIDE DEF base
  <2> QED BY <1>1, ResponseOnRegion
<1>4. appWait \in Nat /\ methodWait \in Nat
  <2> HIDE DEF region
  <2>1. region.app \in Seq(BoundedScope(now')) /\ region.methods[m] \in Seq(BoundedScope(now'))
    BY <1>2 DEF BoundedRegion
  <2> QED BY <1>1, <2>1, HierachyWaitGreatest
<1>5. WaitTime(r, m, now)' = Larger(appWait, methodWait)
  <2>1. counts'[r] = region
    <3> HIDE DEF base, region
    <3> QED BY <1>1
  <2> HIDE DEF region
  <2> QED BY <2>1 DEF WaitTime, RegionWaitTime
<1>6. RetryAfterSec(resp) \in Nat
  BY RetryAfterSecBounded, ResponsesAssumption
<1> HIDE DEF appWait, methodWait
<1> QED BY <1>1, <1>3, <1>4, <1>5, <1>6 DEF Larger

\* The application buckets alone make every method of the route wait for the pause.
LEMMA InsertRequestPausesRoute ==
    ASSUME GInv, NEW r \in Routes, NEW m \in Methods, NEW resp \in Responses,
           InsertRequest(r, m, resp), RetryAfterSec(resp) > 0
    PROVE  now' + HierachyWaitTime(counts'[r].app, now') >= now + RetryAfterSec(resp)
<1> DEFINE base == IF initialised THEN counts ELSE InitialiseCounts(resp.response_header)
           region == RegionInsertWithHeaders(base[r], m, resp.response_header, now, now',
                                             RetryAfterSec(resp))
<1>1. /\ now \in Nat /\ now' \in {now, now + 1}
      /\ base \in [Routes -> BoundedRegion(now)] /\ base[r].app # <<>>
      /\ counts' = [base EXCEPT ![r] = region]
  BY InsertRequestSteps
<1>2. now' + HierachyWaitTime(region.app, now') >= now + RetryAfterSec(resp)
  <2> HIDE DEF base
  <2>1. now' \in Nat /\ now <= now'
    BY <1>1
  <2> QED BY <1>1, <2>1, ResponseOnRegion
<1>3. counts'[r] = region
  <2> HIDE DEF base, region
  <2> QED BY <1>1
<1> QED BY <1>2, <1>3

\* Neither time nor a reader lets the application buckets of a route open early.
LEMMA PauseOutlastsReads ==
    ASSUME GInv, NEW r \in Routes, now' \in {now, now + 1},
           \/ counts'[r] = counts[r]
           \/ \E ms \in SUBSET Methods : counts'[r] = RegionUpdateCount(counts[r], ms, now)
    PROVE  now' + HierachyWaitTime(counts'[r].app, now')
              >= now + HierachyWaitTime(counts[r].app, now)
<1> DEFINE h == counts[r].app
           h2 == counts'[r].app
<1>1. now \in Nat /\ now' \in Nat /\ now <= now'
  BY DEF GInv, IInv
<1>2. h \in Seq(BoundedScope(now))
  BY DEF GInv, IInv, BoundedRegion
<1>3. h2 = h \/ h2 = HierachyUpdateCount(h, now)
  BY DEF RegionUpdateCount, GInv, IInv, BoundedRegion
<1> HIDE DEF h, h2
<1>4. HierachyWaitTime(h2, now') = HierachyWaitTime(h, now')
  BY <1>1, <1>2, <1>3, HierachyReadKeepsWait
<1>5. HierachyWaitTime(h, now') = Larger(0, HierachyWaitTime(h, now) - (now' - now))
  BY <1>1, <1>2, HierachyWaitPasses
<1>6. HierachyWaitTime(h, now) \in Nat
  BY <1>1, <1>2, HierachyWaitGreatest
<1>7. now' + HierachyWaitTime(h2, now') >= now + HierachyWaitTime(h, now)
  BY <1>1, <1>4, <1>5, <1>6 DEF Larger
<1> QED BY <1>7 DEF h, h2

\* A request that asks meanwhile waits at least as long as the application buckets.
LEMMA AppWaitIsWaited ==
    ASSUME GInv, NEW r \in Routes, NEW m \in Methods
    PROVE  /\ HierachyWaitTime(counts[r].app, now) \in Nat
           /\ WaitTime(r, m, now) \in Nat
           /\ WaitTime(r, m, now) >= HierachyWaitTime(counts[r].app, now)
<1>1. now \in Nat /\ counts[r].app \in Seq(BoundedScope(now))
      /\ counts[r].methods[m] \in Seq(BoundedScope(now))
  BY DEF GInv, IInv, BoundedRegion
<1>2. /\ HierachyWaitTime(counts[r].app, now) \in Nat
      /\ HierachyWaitTime(counts[r].methods[m], now) \in Nat
  BY <1>1, HierachyWaitGreatest
<1> QED BY <1>2 DEF WaitTime, RegionWaitTime, Larger
-----------------------------------------------------------------------------
(* Running buckets are stable. *)

\* Reading a hierarchy touches none of its running buckets.
LEMMA ReadKeepsLiveScopes ==
    ASSUME NEW t, NEW h
    PROVE  \A i \in DOMAIN h :
              ~Expired(h[i], t) => /\ i \in DOMAIN HierachyUpdateCount(h, t)
                                   /\ HierachyUpdateCount(h, t)[i] = h[i]
BY DEF HierachyUpdateCount, ScopeUpdateCount

LEMMA ReadKeepsLiveBuckets ==
    ASSUME GInv, Read, NEW r \in Routes
    PROVE  /\ LiveScopesKept(counts[r].app, counts'[r].app)
           /\ \A m \in Methods : LiveScopesKept(counts[r].methods[m], counts'[r].methods[m])
<1>1. CASE counts'[r] = counts[r]
  BY <1>1 DEF LiveScopesKept
<1>2. ASSUME NEW ms \in SUBSET Methods,
             counts'[r] = RegionUpdateCount(counts[r], ms, now)
      PROVE  /\ LiveScopesKept(counts[r].app, counts'[r].app)
             /\ \A m \in Methods :
                   LiveScopesKept(counts[r].methods[m], counts'[r].methods[m])
  <2>1. counts[r] \in BoundedRegion(now)
    BY DEF GInv, IInv
  <2>2. counts'[r].app = HierachyUpdateCount(counts[r].app, now)
    BY <1>2, <2>1 DEF RegionUpdateCount, BoundedRegion
  <2>3. ASSUME NEW m \in Methods
        PROVE  counts'[r].methods[m] = IF m \in ms
                                       THEN HierachyUpdateCount(counts[r].methods[m], now)
                                       ELSE counts[r].methods[m]
    BY <1>2, <2>1 DEF RegionUpdateCount, BoundedRegion
  <2>4. LiveScopesKept(counts[r].app, counts'[r].app)
    BY <2>2, ReadKeepsLiveScopes DEF LiveScopesKept
  <2>5. ASSUME NEW m \in Methods
        PROVE  LiveScopesKept(counts[r].methods[m], counts'[r].methods[m])
    <3> DEFINE h == counts[r].methods[m]
               h2 == counts'[r].methods[m]
    <3>1. h2 = HierachyUpdateCount(h, now) \/ h2 = h
      BY <2>3
    <3> HIDE DEF h, h2
    <3>2. h2 = h => LiveScopesKept(h, h2)
      BY DEF LiveScopesKept
    <3>3. h2 = HierachyUpdateCount(h, now) => LiveScopesKept(h, h2)
      BY ReadKeepsLiveScopes DEF LiveScopesKept
    <3>4. LiveScopesKept(h, h2)
      BY <3>1, <3>2, <3>3
    <3> QED BY <3>4 DEF h, h2
  <2> QED BY <2>4, <2>5
<1> QED BY <1>1, <1>2, ReadSteps

\* A first response initialises every route, but a route that is not its own has no
\* running bucket that it could take away.
LEMMA ResponseKeepsOtherBuckets ==
    ASSUME GInv, NEW r \in Routes, NEW m \in Methods, NEW resp \in Responses,
           InsertRequest(r, m, resp), NEW q \in Routes \ {r}
    PROVE  /\ LiveScopesKept(counts[q].app, counts'[q].app)
           /\ \A n \in Methods : LiveScopesKept(counts[q].methods[n], counts'[q].methods[n])
<1>1. now \in Nat
  BY DEF GInv, IInv
<1>2. counts'[q] = IF initialised THEN counts[q]
                   ELSE InitialiseCounts(resp.response_header)[q]
  BY DEF GInv, IInv, InsertRequest, InitialiseCounts
<1>3. CASE initialised
  BY <1>2, <1>3 DEF LiveScopesKept
<1>4. CASE ~initialised
  <2>1. counts[q].app = <<NewScope(0, 0, 0)>> /\ \A n \in Methods : counts[q].methods[n] = <<>>
    BY <1>4 DEF GInv, Pristine, NewRegion
  <2>2. \A i \in DOMAIN counts[q].app : Expired(counts[q].app[i], now)
    BY <1>1, <2>1 DEF Expired, NewScope
  <2>3. \A n \in Methods : DOMAIN counts[q].methods[n] = {}
    BY <2>1
  <2> QED BY <2>2, <2>3 DEF LiveScopesKept
<1> QED BY <1>3, <1>4

\* A running bucket changes by responses on its own route alone.
THEOREM LiveBucketsAreStable == Spec => LiveBucketsStable
<1> DEFINE Stable(r) ==
        \/ /\ LiveScopesKept(counts[r].app, counts'[r].app)
           /\ \A m \in Methods : LiveScopesKept(counts[r].methods[m], counts'[r].methods[m])
        \/ \E m \in Methods, resp \in Responses : InsertRequest(r, m, resp)
<1>1. ASSUME GInv, Next, NEW r \in Routes PROVE Stable(r)
  <2>1. CASE Respond
    BY <1>1, <2>1, ResponseKeepsOtherBuckets DEF Respond
  <2>2. CASE Read
    BY <1>1, <2>2, ReadKeepsLiveBuckets
  <2>3. CASE Tick
    BY <2>3 DEF Tick, LiveScopesKept
  <2> QED BY <1>1, <2>1, <2>2, <2>3 DEF Next
<1>2. Spec => []GInv
  BY InitGInv, NextGInv, PTL DEF Spec
<1>3. GInv /\ [Next]_vars => [\A r \in Routes : Stable(r)]_vars
  <2> HIDE DEF Stable
  <2> QED BY <1>1
<1> QED BY <1>2, <1>3, PTL DEF Spec, LiveBucketsStable
-----------------------------------------------------------------------------
(* What a response announces is taken over. *)

\* A synced bucket ends no earlier than a window with this end, when ours has ended or
\* does not end earlier, or when the response is the first in that window.
LEMMA SyncBucketFollows ==
    ASSUME NEW t \in Nat, NEW h \in Seq(BoundedScope(t)), NEW retry \in 0 .. MaxWindow,
           NEW limits \in Seq(LimitPart), AnnouncesAtMost(limits, MaxWindow),
           NEW cs \in Seq(Int), NEW i \in DOMAIN limits,
           NEW ends \in Nat, ends <= t + limits[i].duration
    PROVE  LET s == SyncBuckets(h, limits, cs, t, retry)[i]
           IN  /\ s \in BoundedScope(t) /\ s.limit = limits[i].limit
               /\ i \in DOMAIN cs => s.count >= cs[i]
               /\ i \in DOMAIN cs
                  /\ (cs[i] <= 1 \/ i \notin DOMAIN h \/ h[i].next_reset <= t
                         \/ h[i].next_reset >= ends)
                     => s.next_reset >= ends
<1> DEFINE base == IF Rebuilt(h, limits) THEN HierachyOf(limits) ELSE h
           synced == ScopeSyncFromServer(base[i], CountAt(cs, i), limits[i].limit,
                                         limits[i].duration, t)
           s == SyncBuckets(h, limits, cs, t, retry)[i]
<1>1. s = IF CountAt(cs, i) >= limits[i].limit
          THEN ScopeApplyRetryAfter(synced, retry, t) ELSE synced
  BY DEF SyncBuckets
<1>2. SyncBuckets(h, limits, cs, t, retry) \in Seq(BoundedScope(t))
  BY SyncBucketsBounded
<1>3. DOMAIN SyncBuckets(h, limits, cs, t, retry) = DOMAIN limits
  BY DEF SyncBuckets
<1>4. s \in BoundedScope(t)
  BY <1>2, <1>3
<1>5. /\ limits[i].limit \in Int /\ limits[i].duration \in Int
      /\ i \in DOMAIN cs => cs[i] \in Int
  <2>1. limits[i] \in LimitPart /\ (i \in DOMAIN cs => cs[i] \in Int)
    OBVIOUS
  <2> QED BY <2>1 DEF LimitPart
<1>6. base[i].next_reset = 0 \/ (i \in DOMAIN h /\ base[i] = h[i])
  BY DEF Rebuilt, HierachyOf, NewScope
<1>7. i \in DOMAIN h => h[i].next_reset \in Nat
  BY DEF BoundedScope, Scope
<1>8. /\ synced.limit = limits[i].limit /\ synced.count = CountAt(cs, i)
      /\ synced.next_reset = IF base[i].next_reset <= t \/ CountAt(cs, i) <= 1
                             THEN t + Larger(1, limits[i].duration) ELSE base[i].next_reset
  <2> HIDE DEF base
  <2>1. synced.next_reset = IF t >= base[i].next_reset \/ CountAt(cs, i) <= 1
                            THEN t + Larger(1, limits[i].duration) ELSE base[i].next_reset
    BY DEF ScopeSyncFromServer, Expired
  <2>2. base[i].next_reset \in Nat
    BY <1>6, <1>7
  <2> QED BY <2>1, <2>2 DEF ScopeSyncFromServer
<1>9. CountAt(cs, i) \in Int /\ (i \in DOMAIN cs => CountAt(cs, i) = cs[i])
  BY <1>5 DEF CountAt
<1>10. /\ synced.next_reset \in Nat
       /\ i \in DOMAIN cs
          /\ (cs[i] <= 1 \/ i \notin DOMAIN h \/ h[i].next_reset <= t
                 \/ h[i].next_reset >= ends)
             => synced.next_reset >= ends
  <2> HIDE DEF base, synced
  <2> QED BY <1>5, <1>6, <1>7, <1>8, <1>9 DEF Larger
<1>11. /\ s.limit = synced.limit /\ s.count >= synced.count
       /\ s.next_reset >= synced.next_reset
  <2>1. synced.count \in Int /\ synced.limit \in Int
    BY <1>5, <1>8, <1>9
  <2>2. retry \in Int
    OBVIOUS
  <2>3. ScopeApplyRetryAfter(synced, retry, t).limit = synced.limit
    BY DEF ScopeApplyRetryAfter, ScopeSyncFromServer
  <2>4. /\ ScopeApplyRetryAfter(synced, retry, t).count >= synced.count
        /\ ScopeApplyRetryAfter(synced, retry, t).next_reset >= synced.next_reset
    <3>1. synced = [duration |-> synced.duration, limit |-> synced.limit,
                    count |-> synced.count, next_reset |-> synced.next_reset]
      BY DEF ScopeSyncFromServer
    <3> HIDE DEF synced
    <3> QED BY <1>10, <2>1, <2>2, <3>1 DEF ScopeApplyRetryAfter, Larger
  <2> HIDE DEF synced
  <2> QED BY <1>1, <1>10, <2>1, <2>3, <2>4
<1> HIDE DEF s, synced, base
<1>12. s.count \in Int /\ s.next_reset \in Nat /\ synced.count \in Int
  BY <1>4, <1>8, <1>9 DEF BoundedScope, Scope
<1>13. /\ s \in BoundedScope(t) /\ s.limit = limits[i].limit
       /\ i \in DOMAIN cs => s.count >= cs[i]
       /\ i \in DOMAIN cs
          /\ (cs[i] <= 1 \/ i \notin DOMAIN h \/ h[i].next_reset <= t
                 \/ h[i].next_reset >= ends)
             => s.next_reset >= ends
  BY <1>4, <1>5, <1>8, <1>9, <1>10, <1>11, <1>12
<1> QED BY <1>13 DEF s

\* The tail of sync_from_headers, which may pause the last bucket, leaves running
\* buckets no emptier and ending no earlier.
LEMMA EnforceRetryFollows ==
    ASSUME NEW t \in Nat, NEW u \in Nat, t <= u, NEW h \in Seq(BoundedScope(u)),
           NEW retry \in 0 .. MaxWindow, NEW i \in DOMAIN h
    PROVE  LET g == EnforceRetry(h, retry, t, u)
           IN  /\ i \in DOMAIN g /\ g[i].limit = h[i].limit
               /\ h[i].next_reset > u
                    => g[i].count >= h[i].count /\ g[i].next_reset >= h[i].next_reset
<1> DEFINE settled == HierachyUpdateCount(h, u)
           paused == RetryOnBack(settled, retry, t)
<1>1. h[i] \in BoundedScope(u)
  OBVIOUS
<1>2. settled \in Seq(BoundedScope(u)) /\ DOMAIN settled = DOMAIN h
  <2>1. u \in Nat /\ u <= u
    OBVIOUS
  <2>2. settled \in Seq(BoundedScope(u))
    BY <2>1, HierachyUpdateBounded
  <2> QED BY <2>2 DEF HierachyUpdateCount
<1>3. settled[i].limit = h[i].limit /\ (h[i].next_reset > u => settled[i] = h[i])
  BY <1>1 DEF HierachyUpdateCount, ScopeUpdateCount, Expired, BoundedScope, Scope
<1>4. settled[i] \in BoundedScope(u)
  BY <1>2
<1>5. ASSUME NEW s \in BoundedScope(u)
      PROVE  LET p == ScopeApplyRetryAfter(s, retry, t)
             IN  p.limit = s.limit /\ p.count >= s.count /\ p.next_reset >= s.next_reset
  <2>1. retry \in Int /\ s.count \in Int /\ s.limit \in Int /\ s.next_reset \in Nat
    BY <1>5, ResponsesAssumption DEF BoundedScope, Scope
  <2>2. s = [duration |-> s.duration, limit |-> s.limit, count |-> s.count,
             next_reset |-> s.next_reset]
    BY <1>5 DEF BoundedScope, Scope
  <2> QED BY <2>1, <2>2 DEF ScopeApplyRetryAfter, Larger
<1>6. i \in DOMAIN paused
      /\ (paused[i] = settled[i] \/ paused[i] = ScopeApplyRetryAfter(settled[i], retry, t))
  <2> HIDE DEF settled
  <2> QED BY <1>2 DEF RetryOnBack
<1>7. EnforceRetry(h, retry, t, u) \in {h, settled, paused}
  BY DEF EnforceRetry
<1> HIDE DEF settled, paused
<1>8. ASSUME NEW g \in {h, settled, paused}
      PROVE  /\ i \in DOMAIN g /\ g[i].limit = h[i].limit
             /\ h[i].next_reset > u
                  => g[i].count >= h[i].count /\ g[i].next_reset >= h[i].next_reset
  <2>1. h[i].count \in Int /\ h[i].next_reset \in Nat
    BY <1>1 DEF BoundedScope, Scope
  <2> QED BY <1>2, <1>3, <1>4, <1>5, <1>6, <1>8, <2>1
<1> QED BY <1>7, <1>8

\* So the buckets take over the announced counts and limits, and the ends of the windows
\* that are still running.
LEMMA SyncFollows ==
    ASSUME NEW t \in Nat, NEW u \in Nat, t <= u,
           NEW h \in Seq(BoundedScope(t)), NEW retry \in 0 .. MaxWindow,
           NEW limits \in Seq(LimitPart), AnnouncesAtMost(limits, MaxWindow),
           NEW cs \in Seq(Int), NEW i \in DOMAIN limits,
           NEW ends \in Nat, ends <= t + limits[i].duration
    PROVE  LET g == HierachySyncFromHeaders(h, limits, cs, t, u, retry)
           IN  /\ i \in DOMAIN g /\ g[i].limit = limits[i].limit
               /\ i \in DOMAIN cs /\ ends > u
                  /\ (cs[i] <= 1 \/ i \notin DOMAIN h \/ h[i].next_reset <= t
                         \/ h[i].next_reset >= ends)
                     => g[i].next_reset >= ends /\ g[i].count >= cs[i]
<1> DEFINE synced == SyncBuckets(h, limits, cs, t, retry)
           g == EnforceRetry(synced, retry, t, u)
           follows == cs[i] <= 1 \/ i \notin DOMAIN h \/ h[i].next_reset <= t
                         \/ h[i].next_reset >= ends
<1>1. limits # <<>>
  OBVIOUS
<1>2. HierachySyncFromHeaders(h, limits, cs, t, u, retry) = g
  BY <1>1 DEF HierachySyncFromHeaders
<1>3. synced \in Seq(BoundedScope(u)) /\ DOMAIN synced = DOMAIN limits
  BY SyncBucketsBounded, BoundedHierachyMonotone DEF SyncBuckets
<1>4. /\ synced[i].limit = limits[i].limit
      /\ i \in DOMAIN cs => synced[i].count >= cs[i]
      /\ i \in DOMAIN cs /\ follows => synced[i].next_reset >= ends
  BY SyncBucketFollows
<1> HIDE DEF synced, follows
<1>5. /\ i \in DOMAIN g /\ g[i].limit = synced[i].limit
      /\ synced[i].next_reset > u
           => g[i].count >= synced[i].count /\ g[i].next_reset >= synced[i].next_reset
  BY <1>3, EnforceRetryFollows
<1>6. g \in Seq(BoundedScope(u))
  <2>1. HierachySyncFromHeaders(h, limits, cs, t, u, retry) \in Seq(BoundedScope(u))
    BY HierachySyncBounded
  <2> QED BY <1>2, <2>1
<1> HIDE DEF g
<1>7. /\ synced[i].next_reset \in Nat /\ synced[i].count \in Int
      /\ g[i].next_reset \in Nat /\ g[i].count \in Int
      /\ i \in DOMAIN cs => cs[i] \in Int
  <2>1. synced[i] \in BoundedScope(u)
    BY <1>3
  <2>2. g[i] \in BoundedScope(u)
    BY <1>5, <1>6
  <2>3. i \in DOMAIN cs => cs[i] \in Int
    OBVIOUS
  <2> QED BY <2>1, <2>2, <2>3 DEF BoundedScope, Scope
<1>8. i \in DOMAIN g /\ g[i].limit = limits[i].limit
  BY <1>4, <1>5
<1>9. ASSUME i \in DOMAIN cs, ends > u, follows
      PROVE  g[i].next_reset >= ends /\ g[i].count >= cs[i]
  <2>1. synced[i].next_reset >= ends /\ synced[i].count >= cs[i]
    BY <1>4, <1>9
  <2>2. synced[i].next_reset > u
    BY <1>7, <1>9, <2>1
  <2>3. g[i].count >= synced[i].count /\ g[i].next_reset >= synced[i].next_reset
    BY <1>5, <2>2
  <2>4. g[i].next_reset >= ends
    BY <1>7, <2>1, <2>3
  <2>5. g[i].count >= cs[i]
    BY <1>7, <1>9, <2>1, <2>3
  <2> QED BY <2>4, <2>5
<1> QED BY <1>2, <1>8, <1>9 DEF follows
=============================================================================
