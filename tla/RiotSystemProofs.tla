-------------------------- MODULE RiotSystemProofs --------------------------
(***************************************************************************)
(* Proofs about client, service and network together, for any threads,     *)
(* routes, methods, limits and windows.                                    *)
(*                                                                         *)
(* The first part holds for any clocks and any faults: the replies of the  *)
(* service announce nothing longer than MaxWindow, so the client in the    *)
(* system is the client that RiotClientProofs is about.  The second part   *)
(* follows a refusal of a single thread: what its Retry-After promises,    *)
(* and that the thread waits for it.  The third follows the windows that   *)
(* refuse, through any threads.                                            *)
(***************************************************************************)
EXTENDS RiotRefusals, TLAPS

RateHeader ==
    [app_limit: {AppLimits}, app_limit_count: Seq(Int),
     method_limit: {MethodLimits}, method_limit_count: Seq(Int)]

RefusalHeader ==
    {Service!WithRetryAfter(h, seconds) : h \in RateHeader, seconds \in 0 .. MaxWindow}

\* What a thread may receive: what the service answers, and the failure of a transfer.
AnyReply ==
    {CprFailure} \cup [status: Int \ {CprFailure.status}, header: RateHeader \cup RefusalHeader]

Proven == INSTANCE RiotClientProofs WITH Replies <- AnyReply
-----------------------------------------------------------------------------
LEMMA SameHeaders ==
    /\ Client!AnnouncedHeader = Proven!AnnouncedHeader
    /\ Client!Request = Proven!Request
    /\ Client!Limiter!LimitPart = Proven!Limiter!LimitPart
    /\ \A limits, w : Client!Limiter!AnnouncesAtMost(limits, w)
                         <=> Proven!Limiter!AnnouncesAtMost(limits, w)
<1>1. Client!Limiter!RiotHeader = Proven!Limiter!RiotHeader
  BY DEF Client!Limiter!RiotHeader, Proven!Limiter!RiotHeader, Client!Limiter!LimitPart,
         Proven!Limiter!LimitPart, Client!Limiter!NoHeader, Proven!Limiter!NoHeader
<1>2. \A limits, w : Client!Limiter!AnnouncesAtMost(limits, w)
                        <=> Proven!Limiter!AnnouncesAtMost(limits, w)
  BY DEF Client!Limiter!AnnouncesAtMost, Proven!Limiter!AnnouncesAtMost
<1> QED BY <1>1, <1>2
           DEF Client!AnnouncedHeader, Proven!AnnouncedHeader, Client!Request, Proven!Request,
               Client!Limiter!LimitPart, Proven!Limiter!LimitPart

\* The service's headers name no window or pause longer than MaxWindow.
LEMMA RepliesWellFormed == Proven!RepliesAssumption
<1>1. DefaultHeader \in Proven!AnnouncedHeader
  BY ClientAssumption, SameHeaders DEF Client!RepliesAssumption
<1> DEFINE merged(h) == Proven!Overwrite(h, DefaultHeader)
<1>2. merged(CprFailure.header) = DefaultHeader
  BY <1>1 DEF Proven!Overwrite, CprFailure, Proven!AnnouncedHeader, Proven!Limiter!RiotHeader
<1>3. /\ AppLimits \in Seq(Proven!Limiter!LimitPart)
      /\ MethodLimits \in Seq(Proven!Limiter!LimitPart)
      /\ Proven!Limiter!AnnouncesAtMost(AppLimits, MaxWindow)
      /\ Proven!Limiter!AnnouncesAtMost(MethodLimits, MaxWindow)
  <2>1. ServiceLimit \subseteq Proven!Limiter!LimitPart
    BY DEF Proven!Limiter!LimitPart, ServiceLimit
  <2>2. \A limits \in Seq(ServiceLimit) : limits \in Seq(Proven!Limiter!LimitPart)
    BY <2>1
  <2> QED BY <2>2, ServiceAssumption DEF Proven!Limiter!AnnouncesAtMost
<1>4. ASSUME NEW h \in RateHeader PROVE merged(h) \in Proven!AnnouncedHeader
  BY <1>1, <1>3
     DEF Proven!Overwrite, RateHeader, Proven!AnnouncedHeader, Proven!Limiter!RiotHeader
<1>5. ASSUME NEW g \in RateHeader, NEW s \in 0 .. MaxWindow
      PROVE  merged(Service!WithRetryAfter(g, s)) \in Proven!AnnouncedHeader
  BY <1>1, <1>3
     DEF Proven!Overwrite, RateHeader, Proven!AnnouncedHeader, Proven!Limiter!RiotHeader,
         Service!WithRetryAfter
<1>6. ASSUME NEW reply \in AnyReply PROVE Proven!WellFormed(reply)
  <2>1. CASE reply = CprFailure
    BY <1>1, <1>2, <2>1 DEF Proven!WellFormed, CprFailure
  <2>2. CASE reply # CprFailure
    <3>1. /\ reply.status \in Int /\ reply.status # CprFailure.status
          /\ reply.header \in RateHeader \cup RefusalHeader
      BY <2>2 DEF AnyReply
    <3>2. merged(reply.header) \in Proven!AnnouncedHeader
      BY <1>4, <1>5, <3>1 DEF RefusalHeader
    <3> QED BY <3>1, <3>2 DEF Proven!WellFormed, CprFailure, Proven!CprError
  <2> QED BY <2>1, <2>2
<1>7. /\ MaxWindow \in Nat /\ MaxWindow >= 2 /\ MaxTime \in Nat /\ MaxCalls \in Nat
      /\ FallbackLimits \in Seq(Proven!Limiter!LimitPart) \ {<<>>}
      /\ Proven!Limiter!AnnouncesAtMost(FallbackLimits, MaxWindow)
      /\ InitialErrors \subseteq Int
      /\ NoRequest \notin Proven!Request
  BY ClientAssumption, SameHeaders DEF Client!RepliesAssumption
<1> QED BY <1>1, <1>6, <1>7 DEF Proven!RepliesAssumption
-----------------------------------------------------------------------------
(* The two names of the client's actions. *)

LEMMA SameLimiter ==
    /\ Client!Limiter!Init <=> Proven!Limiter!Init
    /\ \A r, m : Client!Limiter!CheckRateLimits(r, m) <=> Proven!Limiter!CheckRateLimits(r, m)
    /\ \A r, m, old : Client!Limiter!SendTime(r, m, old) = Proven!Limiter!SendTime(r, m, old)
    /\ \A r, m, resp :
          Client!Limiter!InsertRequest(r, m, resp) <=> Proven!Limiter!InsertRequest(r, m, resp)
    /\ \A r, m : Client!Limiter!GetWaitTimeBreakdown(r, m)
                    <=> Proven!Limiter!GetWaitTimeBreakdown(r, m)
    /\ Client!Limiter!GetSnapshot <=> Proven!Limiter!GetSnapshot
    /\ Client!Limiter!Tick <=> Proven!Limiter!Tick
    /\ \A a, b : Client!Limiter!Larger(a, b) = Proven!Limiter!Larger(a, b)
<1>1. Client!Limiter!Init <=> Proven!Limiter!Init
  BY DEF Client!Limiter!Init, Proven!Limiter!Init, Client!Limiter!NewRegion,
         Proven!Limiter!NewRegion, Client!Limiter!NewScope, Proven!Limiter!NewScope
<1>2. \A region, ms, t : Client!Limiter!RegionUpdateCount(region, ms, t)
                         = Proven!Limiter!RegionUpdateCount(region, ms, t)
  BY DEF Client!Limiter!RegionUpdateCount, Proven!Limiter!RegionUpdateCount,
         Client!Limiter!HierachyUpdateCount, Proven!Limiter!HierachyUpdateCount,
         Client!Limiter!ScopeUpdateCount, Proven!Limiter!ScopeUpdateCount,
         Client!Limiter!Expired, Proven!Limiter!Expired
<1>3. \A r, m, t : Client!Limiter!WaitTime(r, m, t) = Proven!Limiter!WaitTime(r, m, t)
  BY DEF Client!Limiter!WaitTime, Proven!Limiter!WaitTime, Client!Limiter!RegionWaitTime,
         Proven!Limiter!RegionWaitTime, Client!Limiter!HierachyWaitTime,
         Proven!Limiter!HierachyWaitTime, Client!Limiter!ScopeWaitTime,
         Proven!Limiter!ScopeWaitTime, Client!Limiter!Max, Proven!Limiter!Max,
         Client!Limiter!Larger, Proven!Limiter!Larger, Client!Limiter!Expired,
         Proven!Limiter!Expired
<1>4. \A h, t : Client!Limiter!HierachyWaitTime(h, t)
                = Proven!Limiter!HierachyWaitTime(h, t)
  BY DEF Client!Limiter!HierachyWaitTime, Proven!Limiter!HierachyWaitTime,
         Client!Limiter!ScopeWaitTime, Proven!Limiter!ScopeWaitTime, Client!Limiter!Max,
         Proven!Limiter!Max, Client!Limiter!Expired, Proven!Limiter!Expired
<1>5. \A h, t : Client!Limiter!HierachyUpdateCount(h, t)
                = Proven!Limiter!HierachyUpdateCount(h, t)
  BY DEF Client!Limiter!HierachyUpdateCount, Proven!Limiter!HierachyUpdateCount,
         Client!Limiter!ScopeUpdateCount, Proven!Limiter!ScopeUpdateCount,
         Client!Limiter!Expired, Proven!Limiter!Expired
<1>6. \A h, retry, t : Client!Limiter!RetryOnBack(h, retry, t)
                = Proven!Limiter!RetryOnBack(h, retry, t)
  BY DEF Client!Limiter!RetryOnBack, Proven!Limiter!RetryOnBack,
         Client!Limiter!ScopeApplyRetryAfter, Proven!Limiter!ScopeApplyRetryAfter,
         Client!Limiter!Larger, Proven!Limiter!Larger
<1>7. \A h, t, u : Client!Limiter!HierachyInsertRequest(h, t, u)
                = Proven!Limiter!HierachyInsertRequest(h, t, u)
  BY DEF Client!Limiter!HierachyInsertRequest, Proven!Limiter!HierachyInsertRequest,
         Client!Limiter!ScopeInsertRequest, Proven!Limiter!ScopeInsertRequest,
         Client!Limiter!ScopeUpdateCount, Proven!Limiter!ScopeUpdateCount,
         Client!Limiter!Expired, Proven!Limiter!Expired
<1>8. \A h, limits, cs, t, retry : Client!Limiter!SyncBuckets(h, limits, cs, t, retry)
                = Proven!Limiter!SyncBuckets(h, limits, cs, t, retry)
  BY DEF Client!Limiter!SyncBuckets, Proven!Limiter!SyncBuckets, Client!Limiter!Rebuilt,
         Proven!Limiter!Rebuilt, Client!Limiter!CountAt, Proven!Limiter!CountAt,
         Client!Limiter!ScopeSyncFromServer, Proven!Limiter!ScopeSyncFromServer,
         Client!Limiter!ScopeApplyRetryAfter, Proven!Limiter!ScopeApplyRetryAfter,
         Client!Limiter!Larger, Proven!Limiter!Larger, Client!Limiter!Expired,
         Proven!Limiter!Expired, Client!Limiter!HierachyOf, Proven!Limiter!HierachyOf,
         Client!Limiter!NewScope, Proven!Limiter!NewScope
<1>9. \A h, limits, cs, t, u, retry :
         Client!Limiter!HierachySyncFromHeaders(h, limits, cs, t, u, retry)
            = Proven!Limiter!HierachySyncFromHeaders(h, limits, cs, t, u, retry)
  BY <1>4, <1>5, <1>6, <1>7, <1>8
     DEF Client!Limiter!HierachySyncFromHeaders, Proven!Limiter!HierachySyncFromHeaders,
         Client!Limiter!EnforceRetry, Proven!Limiter!EnforceRetry
<1>10. \A header : Client!Limiter!InitialiseCounts(header) = Proven!Limiter!InitialiseCounts(header)
  BY DEF Client!Limiter!InitialiseCounts, Proven!Limiter!InitialiseCounts,
         Client!Limiter!RegionInitLimits, Proven!Limiter!RegionInitLimits,
         Client!Limiter!HierachyOf, Proven!Limiter!HierachyOf, Client!Limiter!NewScope,
         Proven!Limiter!NewScope
<1>11. \A resp : Client!Limiter!RetryAfterSec(resp) = Proven!Limiter!RetryAfterSec(resp)
  BY DEF Client!Limiter!RetryAfterSec, Proven!Limiter!RetryAfterSec, Client!Limiter!Larger,
         Proven!Limiter!Larger, Client!Limiter!NoHeader, Proven!Limiter!NoHeader
<1>12. ASSUME NEW region, NEW m, NEW header, NEW t, NEW u, NEW retry
       PROVE  Client!Limiter!RegionInsertWithHeaders(region, m, header, t, u, retry)
                 = Proven!Limiter!RegionInsertWithHeaders(region, m, header, t, u, retry)
  BY <1>9 DEF Client!Limiter!RegionInsertWithHeaders, Proven!Limiter!RegionInsertWithHeaders
<1>13. ASSUME NEW r, NEW m, NEW resp
       PROVE  Client!Limiter!InsertRequest(r, m, resp)
                 <=> Proven!Limiter!InsertRequest(r, m, resp)
  BY <1>10, <1>11, <1>12 DEF Client!Limiter!InsertRequest, Proven!Limiter!InsertRequest
<1> QED BY <1>1, <1>2, <1>3, <1>13
        DEF Client!Limiter!CheckRateLimits, Proven!Limiter!CheckRateLimits,
            Client!Limiter!SendTime, Proven!Limiter!SendTime,
            Client!Limiter!GetWaitTimeBreakdown, Proven!Limiter!GetWaitTimeBreakdown,
            Client!Limiter!GetSnapshot, Proven!Limiter!GetSnapshot, Client!Limiter!Tick,
            Proven!Limiter!Tick, Client!Limiter!Larger, Proven!Limiter!Larger

LEMMA SameClient ==
    /\ Client!Init <=> Proven!Init
    /\ \A t : Client!Step(t) <=> Proven!Step(t)
    /\ \A t : Client!Poll(t) <=> Proven!Poll(t)
    /\ \A t, r, m : Client!Query(t, r, m) <=> Proven!Query(t, r, m)
    /\ \A t, reply : Client!Receive(t, reply) <=> Proven!Receive(t, reply)
    /\ Client!Observe <=> Proven!Observe
    /\ Client!Tick <=> Proven!Tick
<1>1. Client!Init <=> Proven!Init
  BY SameLimiter DEF Client!Init, Proven!Init, Client!Handler!Init, Proven!Handler!Init
<1>2. \A t : Client!Update(t) <=> Proven!Update(t)
  BY SameLimiter DEF Client!CprError, Proven!CprError, Client!Update, Proven!Update,
         Client!Unaccompanied, Proven!Unaccompanied, Client!Heard, Proven!Heard,
         Client!Unreviewed, Proven!Unreviewed,
         Client!InFlight, Proven!InFlight, Client!Goto, Proven!Goto, Client!Return,
         Proven!Return, Client!limiter, Proven!limiter, Client!handler, Proven!handler,
         Client!client, Proven!client
<1>3. \A t : Client!CheckRateLimits(t) <=> Proven!CheckRateLimits(t)
  BY SameLimiter DEF Client!CheckRateLimits, Proven!CheckRateLimits, Client!Goto, Proven!Goto,
         Client!Return, Proven!Return, Client!limiter, Proven!limiter, Client!handler,
         Proven!handler, Client!client, Proven!client
<1>4. ASSUME NEW t PROVE Client!Step(t) <=> Proven!Step(t)
  BY <1>2, <1>3
     DEF Client!Step, Proven!Step, Client!Forgiven, Proven!Forgiven, Client!IsInitialized, Proven!IsInitialized,
         Client!SendFirst, Proven!SendFirst, Client!Send, Proven!Send,
         Client!ReviewRefusal, Proven!ReviewRefusal, Client!ReviewServerError,
         Proven!ReviewServerError, Client!CountServerError, Proven!CountServerError,
         Client!DecideServerError, Proven!DecideServerError, Client!ReviewFailure,
         Proven!ReviewFailure, Client!Goto, Proven!Goto, Client!Return, Proven!Return,
         Client!limiter, Proven!limiter, Client!handler, Proven!handler, Client!client,
         Proven!client, Client!Handler!ResetServerErrorCount,
         Proven!Handler!ResetServerErrorCount, Client!Handler!ReadErrorCount,
         Proven!Handler!ReadErrorCount, Client!Handler!WriteErrorCount,
         Proven!Handler!WriteErrorCount, Client!Handler!Resend, Proven!Handler!Resend,
         Client!Handler!MaxInternalDenials, Proven!Handler!MaxInternalDenials
<1>5. \A t : Client!Poll(t) <=> Proven!Poll(t)
  BY DEF Client!Poll, Proven!Poll, Client!Goto, Proven!Goto, Client!Return, Proven!Return,
         Client!limiter, Proven!limiter, Client!handler, Proven!handler, Client!client,
         Proven!client
<1>6. \A t, r, m : Client!Query(t, r, m) <=> Proven!Query(t, r, m)
  BY DEF Client!Query, Proven!Query, Client!NewRequest, Proven!NewRequest, Client!Goto,
         Proven!Goto, Client!Return, Proven!Return, Client!limiter, Proven!limiter,
         Client!handler, Proven!handler, Client!client, Proven!client, Client!NotSent,
         Proven!NotSent
<1>7. \A t, reply : Client!Receive(t, reply) <=> Proven!Receive(t, reply)
  BY DEF Client!Limiter!Larger, Proven!Limiter!Larger, Client!Receive, Proven!Receive,
         Client!Overwrite, Proven!Overwrite,
         Client!CprError, Proven!CprError, Client!Goto, Proven!Goto, Client!Return,
         Proven!Return, Client!limiter, Proven!limiter, Client!handler, Proven!handler,
         Client!client, Proven!client
<1>8. (Client!Observe <=> Proven!Observe) /\ (Client!Tick <=> Proven!Tick)
  BY SameLimiter DEF Client!Observe, Proven!Observe, Client!Tick, Proven!Tick, Client!Goto,
         Proven!Goto, Client!Return, Proven!Return, Client!limiter, Proven!limiter,
         Client!handler, Proven!handler, Client!client, Proven!client
<1> QED BY <1>1, <1>4, <1>5, <1>6, <1>7, <1>8
-----------------------------------------------------------------------------
(* The service's buckets, and the network. *)

\* What the service's buckets with these limits can be at a tick.
BucketsAt(limits, t) ==
    {bs \in [DOMAIN limits -> [count: Nat, ends: Nat]] :
        \A i \in DOMAIN limits : bs[i].ends <= t + limits[i].duration * TicksPerSecond}

UsedAt(t) ==
    [Routes -> [app: BucketsAt(AppLimits, t), methods: [Methods -> BucketsAt(MethodLimits, t)]]]

Messages == {Quiet, Asked} \cup {Answered(reply) : reply \in AnyReply}

\* Each thread waits for the network exactly while its request is out.
NetworkInv ==
    /\ net \in [Threads -> Messages]
    /\ \A t \in Threads :
          (net[t].stage = "quiet") = (pc[t] \notin {"sent_first", "sent"})

SInv ==
    /\ Proven!CInv
    /\ fraction \in 0 .. TicksPerSecond - 1
    /\ used \in UsedAt(tick)
    /\ NetworkInv

\* The limits of the service, in ticks.
LEMMA Windows ==
    ASSUME NEW limits \in {AppLimits, MethodLimits}, NEW i \in DOMAIN limits
    PROVE  /\ limits[i].limit \in Nat /\ limits[i].limit > 0
           /\ limits[i].duration \in Nat /\ limits[i].duration > 0
           /\ limits[i].duration <= MaxWindow
           /\ limits[i].duration * TicksPerSecond \in Nat
           /\ limits[i].duration * TicksPerSecond <= MaxWindow * TicksPerSecond
<1>1. limits[i] \in ServiceLimit /\ limits[i].duration <= MaxWindow
  BY ServiceAssumption
<1>2. limits[i].duration \in Nat /\ MaxWindow \in Nat /\ TicksPerSecond \in Nat
  BY <1>1, ServiceAssumption, RepliesWellFormed DEF ServiceLimit, Proven!RepliesAssumption
<1>3. \A a, b, c \in Nat : a * c \in Nat /\ (a <= b => a * c <= b * c)
  OBVIOUS
<1> QED BY <1>1, <1>2, <1>3 DEF ServiceLimit

LEMMA BucketsMonotone ==
    ASSUME NEW limits \in {AppLimits, MethodLimits}, NEW t \in Nat, NEW u \in Nat, t <= u
    PROVE  BucketsAt(limits, t) \subseteq BucketsAt(limits, u)
BY Windows DEF BucketsAt

LEMMA FreshBuckets ==
    ASSUME NEW limits \in {AppLimits, MethodLimits}, NEW t \in Nat,
           NEW bs \in BucketsAt(limits, t)
    PROVE  /\ Service!FreshAll(bs, t) \in BucketsAt(limits, t)
           /\ \A i \in DOMAIN limits :
                 LET b == Service!FreshAll(bs, t)[i]
                 IN  IF bs[i].ends > t THEN b = bs[i] ELSE b = [count |-> 0, ends |-> 0]
BY Windows DEF BucketsAt, Service!FreshAll, Service!Fresh

LEMMA CountedBuckets ==
    ASSUME NEW limits \in {AppLimits, MethodLimits}, NEW t \in Nat,
           NEW bs \in BucketsAt(limits, t)
    PROVE  Service!Counted(Service!FreshAll(bs, t), limits, t) \in BucketsAt(limits, t)
<1> DEFINE fresh == Service!FreshAll(bs, t)
<1>1. fresh \in BucketsAt(limits, t)
  BY FreshBuckets
<1> HIDE DEF fresh
<1>2. DOMAIN fresh = DOMAIN limits
  BY <1>1 DEF BucketsAt
<1>3. ASSUME NEW i \in DOMAIN limits
      PROVE  /\ fresh[i].count + 1 \in Nat /\ fresh[i].ends \in Nat
             /\ fresh[i].ends <= t + limits[i].duration * TicksPerSecond
             /\ t + limits[i].duration * TicksPerSecond \in Nat
  BY <1>1, Windows DEF BucketsAt
<1>4. Service!Counted(fresh, limits, t) \in BucketsAt(limits, t)
  BY <1>2, <1>3 DEF BucketsAt, Service!Counted
<1> QED BY <1>4 DEF fresh

\* The counts of the service's buckets, as a header announces them.
LEMMA CountsAnnounced ==
    ASSUME NEW limits \in {AppLimits, MethodLimits}, NEW t, NEW bs \in BucketsAt(limits, t)
    PROVE  Service!Counts(bs) \in Seq(Int)
<1>1. limits \in Seq(ServiceLimit)
  BY ServiceAssumption
<1>2. DOMAIN limits = 1 .. Len(limits) /\ Len(limits) \in Nat
  BY <1>1
<1>3. Service!Counts(bs) \in [1 .. Len(limits) -> Int]
  BY <1>2 DEF BucketsAt, Service!Counts
<1> QED BY <1>2, <1>3

\* A refusal asks for a pause no longer than the longest window.
LEMMA RetryAfterBounded ==
    ASSUME NEW t \in Nat, NEW app \in BucketsAt(AppLimits, t),
           NEW method \in BucketsAt(MethodLimits, t),
           \/ Service!Full(Service!FreshAll(app, t), AppLimits) # {}
           \/ Service!Full(Service!FreshAll(method, t), MethodLimits) # {}
    PROVE  Service!RetryAfter(Service!FreshAll(app, t), Service!FreshAll(method, t), t)
              \in 0 .. MaxWindow
<1> DEFINE a == Service!FreshAll(app, t)
           m == Service!FreshAll(method, t)
           ends == {a[i].ends : i \in Service!Full(a, AppLimits)}
                   \cup {m[i].ends : i \in Service!Full(m, MethodLimits)}
           last == t + MaxWindow * TicksPerSecond
<1>1. ASSUME NEW limits \in {AppLimits, MethodLimits}, NEW bs \in BucketsAt(limits, t),
             NEW i \in Service!Full(Service!FreshAll(bs, t), limits)
      PROVE  Service!FreshAll(bs, t)[i].ends \in Nat
             /\ Service!FreshAll(bs, t)[i].ends > t
             /\ Service!FreshAll(bs, t)[i].ends <= last
  <2>1. i \in DOMAIN limits
    BY FreshBuckets DEF Service!Full, BucketsAt
  <2>2. Service!FreshAll(bs, t)[i].count >= limits[i].limit
    BY DEF Service!Full
  <2>3. bs[i].ends > t /\ Service!FreshAll(bs, t)[i] = bs[i]
    BY <2>1, <2>2, FreshBuckets, Windows DEF BucketsAt
  <2>4. bs[i].ends \in Nat /\ bs[i].ends <= t + limits[i].duration * TicksPerSecond
    BY <2>1 DEF BucketsAt
  <2>5. MaxWindow * TicksPerSecond \in Nat
    BY ServiceAssumption, RepliesWellFormed DEF Proven!RepliesAssumption
  <2> QED BY <2>1, <2>3, <2>4, <2>5, Windows
<1>2. last \in Nat
  <2>1. TicksPerSecond \in Nat /\ MaxWindow \in Nat
    BY ServiceAssumption, RepliesWellFormed DEF Proven!RepliesAssumption
  <2>2. \A a1, b1 \in Nat : a1 * b1 \in Nat
    OBVIOUS
  <2> QED BY <2>1, <2>2
<1>3. ends \in SUBSET (0 .. last) /\ \A e \in ends : e > t
  BY <1>1, <1>2
<1>4. ends # {}
  OBVIOUS
<1>5. Service!Max(ends) \in ends
  <2>1. Proven!Rate!Max(ends) \in ends
    <3> HIDE DEF ends, last
    <3> QED BY <1>2, <1>3, <1>4, RepliesWellFormed, Proven!ResponsesAnnounced,
                 Proven!Rate!MaxBounded
  <2> QED BY <2>1 DEF Service!Max, Proven!Rate!Max
<1>6. \A e \in Nat : e > t /\ e <= last =>
         (e - t + TicksPerSecond - 1) \div TicksPerSecond \in 0 .. MaxWindow
  <2>1. TicksPerSecond \in Nat \ {0} /\ MaxWindow \in Nat
    BY ServiceAssumption, RepliesWellFormed DEF Proven!RepliesAssumption
  <2>2. ASSUME NEW n \in Nat \ {0}, NEW w \in Nat, NEW x \in Nat, x > 0, x <= w * n
        PROVE  (x + n - 1) \div n \in 0 .. w
    <3>1. PICK q \in Int : q = (x + n - 1) \div n
      OBVIOUS
    <3>2. n * q <= x + n - 1 /\ x + n - 1 < n * q + n
      BY <3>1
    <3>3. q < 0 => n * q <= -n
      OBVIOUS
    <3>4. q > w => n * q >= w * n + n
      OBVIOUS
    <3> QED BY <2>2, <3>1, <3>2, <3>3, <3>4
  <2> QED BY <2>1, <2>2
<1>7. Service!RetryAfter(a, m, t)
         = (Service!Max(ends) - t + TicksPerSecond - 1) \div TicksPerSecond
  BY DEF Service!RetryAfter
<1> HIDE DEF ends, last, a, m
<1>8. Service!RetryAfter(a, m, t) \in 0 .. MaxWindow
  <2>0. \A e \in ends : e \in 0 .. last /\ e > t
    BY <1>3
  <2>1. Service!Max(ends) \in Nat /\ Service!Max(ends) > t /\ Service!Max(ends) <= last
    BY <1>2, <1>5, <2>0
  <2>2. (Service!Max(ends) - t + TicksPerSecond - 1) \div TicksPerSecond \in 0 .. MaxWindow
    BY <1>6, <2>1, Zenon
  <2> QED BY <1>7, <2>2, Zenon
<1> QED BY <1>8 DEF a, m

\* What the service answers, a thread may receive.
LEMMA AnswersAreReplies ==
    ASSUME tick \in Nat, used \in UsedAt(tick), NEW r \in Routes, NEW m \in Methods
    PROVE  /\ \A status \in Statuses : Service!Answer(r, m, tick, status) \in AnyReply
           /\ ~Service!HasRoom(r, m, tick) => Service!Refusal(r, m, tick) \in AnyReply
<1>1. used[r].app \in BucketsAt(AppLimits, tick)
      /\ used[r].methods[m] \in BucketsAt(MethodLimits, tick)
  BY DEF UsedAt
<1>2. ASSUME NEW app \in BucketsAt(AppLimits, tick), NEW method \in BucketsAt(MethodLimits, tick)
      PROVE  Service!RateHeaders(app, method) \in RateHeader
  BY CountsAnnounced DEF Service!RateHeaders, RateHeader
<1>3. ASSUME NEW status \in Statuses PROVE Service!Answer(r, m, tick, status) \in AnyReply
  <2>1. status \in Int \ {CprFailure.status}
    BY ServiceAssumption
  <2> QED BY <1>1, <1>2, <2>1, CountedBuckets DEF Service!Answer, AnyReply
<1>4. ASSUME ~Service!HasRoom(r, m, tick) PROVE Service!Refusal(r, m, tick) \in AnyReply
  <2> DEFINE app == Service!FreshAll(used[r].app, tick)
             method == Service!FreshAll(used[r].methods[m], tick)
  <2>1. Service!RateHeaders(app, method) \in RateHeader
    BY <1>1, <1>2, FreshBuckets
  <2>2. Service!RetryAfter(app, method, tick) \in 0 .. MaxWindow
    BY <1>1, <1>4, RetryAfterBounded DEF Service!HasRoom
  <2>3. Service!Refusal(r, m, tick)
          = [status |-> 429,
             header |-> Service!WithRetryAfter(Service!RateHeaders(app, method),
                                               Service!RetryAfter(app, method, tick))]
    BY DEF Service!Refusal
  <2> HIDE DEF app, method
  <2> QED BY <2>1, <2>2, <2>3 DEF AnyReply, RefusalHeader, CprFailure
<1> QED BY <1>3, <1>4

LEMMA Clock == ASSUME SInv PROVE now \in Nat /\ fraction \in Nat /\ tick \in Nat
<1>1. now \in Nat /\ fraction \in Nat /\ TicksPerSecond \in Nat
  BY ServiceAssumption DEF SInv, Proven!CInv, Proven!Rate!GInv, Proven!Rate!IInv
<1>2. \A a, b \in Nat : a * b \in Nat
  OBVIOUS
<1> QED BY <1>1, <1>2 DEF tick

\* The network and the service let the client take the steps of RiotClient only.
LEMMA ClientMoves == ASSUME SInv, [Next]_vars PROVE [Proven!Next]_(Proven!vars)
<1>1. ASSUME NEW t \in Threads, ThreadStep(t) PROVE Proven!Next
  BY <1>1, SameClient DEF ThreadStep, Proven!Next, Proven!Internal
<1>2. ASSUME NEW t \in Threads, Deliver(t) PROVE Proven!Next
  <2>1. net[t] \in Messages /\ net[t].stage = "answered"
    BY <1>2 DEF Deliver, SInv, NetworkInv
  <2>2. net[t].reply \in AnyReply
    BY <2>1 DEF Messages, Quiet, Asked, Answered
  <2> QED BY <1>2, <2>2, SameClient DEF Deliver, Proven!Next
<1>3. ASSUME NEW t \in Threads, Lose(t) PROVE Proven!Next
  <2>1. CprFailure \in AnyReply
    BY DEF AnyReply
  <2> QED BY <1>3, <2>1, SameClient DEF Lose, Proven!Next
<1>4. ASSUME NEW t \in Threads, NEW r \in Routes, NEW m \in Methods, Call(t, r, m)
      PROVE  Proven!Next
  BY <1>4, SameClient DEF Call, Proven!Next, Proven!Internal
<1>5. CASE Observe
  BY <1>5, SameClient DEF Observe, Proven!Next, Proven!Internal
<1>6. ASSUME UNCHANGED clientVars PROVE UNCHANGED Proven!vars
  BY <1>6 DEF clientVars, Proven!vars, Proven!limiter, Proven!handler, Proven!client
<1>7. CASE Tick
  BY <1>6, <1>7, SameClient DEF Tick, Proven!Next, Proven!Internal
<1>8. ASSUME NEW t \in Threads, Serve(t) PROVE UNCHANGED Proven!vars
  BY <1>6, <1>8 DEF Serve
<1>9. CASE UNCHANGED vars
  BY <1>6, <1>9 DEF vars
<1> QED BY <1>1, <1>2, <1>3, <1>4, <1>5, <1>7, <1>8, <1>9 DEF Next

\* The clocks of the client and of the service run together.
LEMMA ClocksMove ==
    ASSUME SInv, [Next]_vars
    PROVE  /\ now' \in {now, now + 1} /\ fraction' \in 0 .. TicksPerSecond - 1
           /\ now' \in Nat /\ tick' \in Nat /\ tick <= tick'
<1>1. /\ now \in Nat /\ fraction \in 0 .. TicksPerSecond - 1
      /\ TicksPerSecond \in Nat \ {0} /\ now' \in {now, now + 1}
  BY Clock, ClientMoves, RepliesWellFormed, ServiceAssumption, Proven!ClockMoves DEF SInv
<1>2. \/ now' = now /\ fraction' = fraction
      \/ now' = now + 1 /\ fraction' = 0
      \/ now' = now /\ fraction' = fraction + 1 /\ fraction # TicksPerSecond - 1
  <2>1. ASSUME NEW t \in Threads, ThreadStep(t)
        PROVE  \/ now' = now /\ fraction' = fraction
               \/ now' = now + 1 /\ fraction' = 0
    BY <1>1, <2>1 DEF ThreadStep
  <2>2. ASSUME NEW t \in Threads, Serve(t) \/ Deliver(t) \/ Lose(t)
        PROVE  now' = now /\ fraction' = fraction
    BY <2>2 DEF Serve, Deliver, Lose, clientVars, Client!Receive, Client!limiter
  <2>3. ASSUME NEW t \in Threads, NEW r \in Routes, NEW m \in Methods, Call(t, r, m)
        PROVE  now' = now /\ fraction' = fraction
    BY <2>3 DEF Call, Client!Query, Client!limiter
  <2>4. CASE Observe
    BY <2>4 DEF Observe, Client!Observe, Client!Limiter!GetWaitTimeBreakdown,
                Client!Limiter!GetSnapshot
  <2>5. CASE Tick
    BY <2>5 DEF Tick, Client!Tick, Client!Limiter!Tick, clientVars
  <2>6. CASE UNCHANGED vars
    BY <2>6 DEF vars, clientVars
  <2> QED BY <2>1, <2>2, <2>3, <2>4, <2>5, <2>6 DEF Next
<1>3. /\ now * TicksPerSecond \in Nat
      /\ (now + 1) * TicksPerSecond = now * TicksPerSecond + TicksPerSecond
  <2>1. \A a, n \in Nat : a * n \in Nat /\ (a + 1) * n = a * n + n
    OBVIOUS
  <2> QED BY <1>1, <2>1
<1>4. PICK k, k2 : /\ k = now * TicksPerSecond /\ k2 = now' * TicksPerSecond
                   /\ tick = k + fraction /\ tick' = k2 + fraction'
  BY DEF tick
<1>5. now' \in Nat /\ fraction' \in 0 .. TicksPerSecond - 1
  BY <1>1, <1>2
<1>6. k \in Nat /\ (now' = now => k2 = k) /\ (now' = now + 1 => k2 = k + TicksPerSecond)
  BY <1>3, <1>4
<1>7. tick' \in Nat /\ tick <= tick'
  <2>1. tick = k + fraction /\ tick' = k2 + fraction'
    BY <1>4
  <2>2. now' = now => now' # now + 1
    BY <1>1
  <2> QED BY <1>1, <1>2, <1>6, <2>1, <2>2
<1> QED BY <1>1, <1>5, <1>7

LEMMA InitSInv == Init => SInv
<1> SUFFICES ASSUME Init PROVE SInv
  OBVIOUS
<1>1. Proven!CInv /\ now = 0
  BY SameClient, RepliesWellFormed, Proven!InitCInv
     DEF Init, Client!Init, Client!Limiter!Init
<1>2. tick = 0 /\ fraction = 0
  BY <1>1, ServiceAssumption DEF Init, tick
<1>3. ASSUME NEW limits \in {AppLimits, MethodLimits}
      PROVE  Service!InitialBuckets(limits) \subseteq BucketsAt(limits, 0)
  <2> SUFFICES ASSUME NEW bs \in Service!InitialBuckets(limits)
               PROVE  bs \in BucketsAt(limits, 0)
    OBVIOUS
  <2>1. bs \in [DOMAIN limits -> [count: Nat, ends: Nat]]
    BY ServiceAssumption DEF Service!InitialBuckets
  <2>2. ASSUME NEW i \in DOMAIN limits
        PROVE  bs[i].ends <= 0 + limits[i].duration * TicksPerSecond
    BY <2>1, Windows DEF Service!InitialBuckets
  <2> QED BY <2>1, <2>2 DEF BucketsAt
<1>4. used \in UsedAt(0)
  BY <1>3 DEF Init, Service!Init, UsedAt
<1>5. net = [t \in Threads |-> Quiet] /\ pc = [t \in Threads |-> "idle"]
  BY DEF Init, Client!Init
<1> QED BY <1>1, <1>2, <1>4, <1>5, ServiceAssumption DEF SInv, NetworkInv, Messages, Quiet

\* Something happens to the query of t.
Moves(t) ==
    \/ ThreadStep(t) \/ Serve(t) \/ Deliver(t) \/ Lose(t)
    \/ \E r \in Routes, m \in Methods : Call(t, r, m)

\* Nothing does, the forgiving of its denials apart.
Still(t) ==
    /\ pc'[t] = pc[t] /\ net'[t] = net[t]
    /\ pc[t] # "idle" =>
          /\ request'[t].route = request[t].route
          /\ request'[t].method = request[t].method
          /\ request'[t].send_time = request[t].send_time
          /\ request'[t].silence = request[t].silence
          /\ request'[t].last_response = request[t].last_response
          /\ request'[t].response_header = request[t].response_header

LEMMA MoverActs ==
    ASSUME SInv, NEW t \in Threads, Moves(t), ~Serve(t)
    PROVE  Proven!Acts(t)
<1>1. CASE ThreadStep(t)
  BY <1>1, SameClient DEF ThreadStep, Proven!Acts
<1>2. CASE Deliver(t)
  <2>1. net[t] \in Messages /\ net[t].stage = "answered"
    BY <1>2 DEF Deliver, SInv, NetworkInv
  <2>2. net[t].reply \in AnyReply
    BY <2>1 DEF Messages, Quiet, Asked, Answered
  <2> QED BY <1>2, <2>2, SameClient DEF Deliver, Proven!Acts
<1>3. CASE Lose(t)
  <2>1. CprFailure \in AnyReply
    BY DEF AnyReply
  <2> QED BY <1>3, <2>1, SameClient DEF Lose, Proven!Acts
<1>4. ASSUME NEW r \in Routes, NEW m \in Methods, Call(t, r, m) PROVE Proven!Acts(t)
  BY <1>4, SameClient DEF Call, Proven!Acts
<1> QED BY <1>1, <1>2, <1>3, <1>4 DEF Moves

LEMMA OthersStill ==
    ASSUME SInv, NEW t \in Threads, Moves(t), NEW u \in Threads \ {t}
    PROVE  Still(u)
<1>1. CASE Serve(t)
  BY <1>1 DEF Serve, clientVars, Still, SInv, NetworkInv
<1>2. CASE ~Serve(t)
  <2>1. Proven!CInv /\ Proven!Rests(u)
    BY <1>2, MoverActs, RepliesWellFormed, Proven!ActsAlone DEF SInv
  <2>2. pc[u] # "idle" =>
          /\ request'[u].route = request[u].route
          /\ request'[u].method = request[u].method
          /\ request'[u].send_time = request[u].send_time
          /\ request'[u].silence = request[u].silence
          /\ request'[u].last_response = request[u].last_response
          /\ request'[u].response_header = request[u].response_header
    BY <2>1 DEF Proven!CInv, Proven!InQuery, Proven!Request, Proven!Rests, Proven!Forgiven
  <2>3. net'[u] = net[u]
    BY <1>2 DEF Moves, ThreadStep, Deliver, Lose, Call, SInv, NetworkInv
  <2> QED BY <2>1, <2>2, <2>3 DEF Proven!Rests, Still
<1> QED BY <1>1, <1>2

\* What becomes of the messages of the one that moves.
LEMMA NetworkMoves ==
    ASSUME SInv, NEW t \in Threads, Moves(t)
    PROVE  /\ net' \in [Threads -> Messages]
           /\ \A u \in Threads \ {t} : pc'[u] = pc[u] /\ net'[u] = net[u]
           /\ (net'[t].stage = "quiet") = (pc'[t] \notin {"sent_first", "sent"})
<1> USE DEF SInv, NetworkInv
<1>1. /\ pc \in [Threads -> Proven!Labels] /\ net \in [Threads -> Messages]
      /\ Quiet \in Messages /\ Asked \in Messages
      /\ Quiet.stage = "quiet" /\ Asked.stage = "asked"
      /\ \A reply : Answered(reply).stage = "answered"
  BY DEF Proven!CInv, Messages, Quiet, Asked, Answered
<1>2. ASSUME NEW u \in Threads \ {t} PROVE pc'[u] = pc[u]
  BY <1>2, OthersStill DEF Still
<1>3. CASE ThreadStep(t)
  <2>1. Client!Step(t) \/ Client!Poll(t)
    BY <1>3 DEF ThreadStep
  <2>2. pc[t] \notin {"sent_first", "sent"}
    BY <2>1 DEF Client!Step, Client!IsInitialized, Client!SendFirst, Client!CheckRateLimits,
           Client!Send, Client!Update, Client!ReviewRefusal, Client!ReviewServerError,
           Client!CountServerError, Client!DecideServerError, Client!ReviewFailure,
           Client!Poll
  <2> QED BY <1>1, <1>2, <1>3, <2>2 DEF ThreadStep, Serve, clientVars
<1>4. CASE Serve(t)
  <2>1. tick \in Nat
    BY Clock
  <2>2. net[t].stage = "asked" /\ pc[t] \in {"sent_first", "sent"} /\ pc' = pc
    BY <1>4 DEF Serve, clientVars
  <2>3. request[t].route \in Routes /\ request[t].method \in Methods
    <3>1. pc[t] # "idle"
      BY <2>2
    <3> QED BY <3>1 DEF Proven!CInv, Proven!InQuery, Proven!Request
  <2>4. \E reply \in AnyReply : net' = [net EXCEPT ![t] = Answered(reply)]
    BY <1>4, <2>1, <2>3, AnswersAreReplies DEF Serve
  <2>5. \A reply \in AnyReply : Answered(reply) \in Messages
    BY DEF Messages
  <2> QED BY <1>1, <2>2, <2>4, <2>5
<1>5. CASE Deliver(t) \/ Lose(t)
  <2>1. net' = [net EXCEPT ![t] = Quiet] /\ ~Serve(t) /\ net[t].stage # "quiet"
    BY <1>1, <1>5 DEF Deliver, Lose, Serve
  <2>2. pc'[t] \in {"received", "received_first"}
    BY <1>1, <1>5 DEF Deliver, Lose, Client!Receive, Client!Goto
  <2> QED BY <1>1, <1>2, <2>1, <2>2
<1>6. ASSUME NEW r \in Routes, NEW m \in Methods, Call(t, r, m)
      PROVE  /\ net' = net /\ ~Serve(t)
             /\ pc[t] = "idle" /\ pc'[t] = "start"
  BY <1>1, <1>6 DEF Call, Serve, Client!Query, Client!Goto
<1> QED BY <1>1, <1>2, <1>3, <1>4, <1>5, <1>6 DEF Moves

LEMMA NextSInv == SInv /\ [Next]_vars => SInv'
<1> SUFFICES ASSUME SInv, [Next]_vars PROVE SInv'
  OBVIOUS
<1>1. Proven!CInv'
  BY ClientMoves, RepliesWellFormed, Proven!NextCInv DEF SInv
<1>2. fraction' \in 0 .. TicksPerSecond - 1 /\ tick \in Nat /\ tick' \in Nat /\ tick <= tick'
  BY Clock, ClocksMove
<1>3. used' \in UsedAt(tick')
  <2>1. used \in UsedAt(tick)
    BY DEF SInv
  <2>2. UsedAt(tick) \subseteq UsedAt(tick')
    BY <1>2, BucketsMonotone DEF UsedAt
  <2>3. ASSUME NEW t \in Threads, Serve(t) PROVE used' \in UsedAt(tick)
    <3>1. CASE used' = used
      BY <2>1, <3>1
    <3>2. CASE used' # used
      <4>1. PICK r, m : Service!Accept(r, m, tick)
        BY <2>3, <3>2 DEF Serve
      <4> DEFINE app == Service!Counted(Service!FreshAll(used[r].app, tick), AppLimits, tick)
                 method == Service!Counted(Service!FreshAll(used[r].methods[m], tick),
                                           MethodLimits, tick)
      <4>2. used' = [used EXCEPT ![r].app = app, ![r].methods[m] = method]
        BY <4>1 DEF Service!Accept
      <4>3. /\ r \in Routes => app \in BucketsAt(AppLimits, tick)
            /\ r \in Routes /\ m \in Methods => method \in BucketsAt(MethodLimits, tick)
        BY <1>2, <2>1, CountedBuckets DEF UsedAt
      <4> HIDE DEF app, method
      <4> QED BY <2>1, <4>2, <4>3 DEF UsedAt
    <3> QED BY <3>1, <3>2
  <2>4. CASE UNCHANGED used
    BY <2>1, <2>2, <2>4
  <2>5. CASE Next
    BY <2>2, <2>3, <2>4, <2>5
       DEF Next, ThreadStep, Deliver, Lose, Call, Observe, Tick
  <2> QED BY <2>4, <2>5 DEF vars
<1>4. NetworkInv'
  <2>1. CASE UNCHANGED <<pc, net>>
    BY <2>1 DEF SInv, NetworkInv
  <2>2. ASSUME NEW t \in Threads, Moves(t) PROVE NetworkInv'
    BY <2>2, NetworkMoves DEF SInv, NetworkInv
  <2>3. CASE Observe \/ Tick \/ UNCHANGED vars
    BY <2>1, <2>3 DEF Observe, Tick, vars, clientVars, Client!Observe, Client!Tick, Client!client
  <2> QED BY <2>2, <2>3 DEF Next, Moves
<1> QED BY <1>1, <1>2, <1>3, <1>4 DEF SInv

LEMMA SpecSInv == Spec => []SInv
BY InitSInv, NextSInv, PTL DEF Spec

\* The client of the system is the client of RiotClient, given replies that announce
\* the service's limits and pauses of at most MaxWindow.  So the pauses, the waits
\* shown and the retries that RiotClientProofs and RiotClientRetryProofs bound
\* are bounded here.
THEOREM ClientInSystem == Spec => Proven!Spec
<1>1. Init => Proven!Init
  BY SameClient DEF Init
<1> QED BY <1>1, ClientMoves, SpecSInv, PTL DEF Spec, Proven!Spec

\* Type correctness of the system.  A thread waits for the network exactly while its
\* request is out.
THEOREM SystemTypeCorrect == Spec => []TypeOK
<1>1. Proven!Spec => []Proven!TypeOK
  BY RepliesWellFormed, Proven!TypeCorrect
<1>2. Proven!TypeOK => Client!TypeOK
  BY SameHeaders
     DEF Proven!TypeOK, Client!TypeOK, Proven!Limiter!TypeOK, Client!Limiter!TypeOK,
         Proven!Limiter!Region, Client!Limiter!Region, Proven!Limiter!Scope,
         Client!Limiter!Scope, Proven!Handler!TypeOK, Client!Handler!TypeOK,
         Proven!Labels, Client!Labels
<1>3. Proven!TypeOK /\ SInv => TypeOK
  BY <1>2 DEF SInv, NetworkInv, TypeOK
<1> QED BY <1>1, <1>3, ClientInSystem, SpecSInv, PTL
-----------------------------------------------------------------------------
(* The requests and answers on their way. *)

\* An answer to t is on its way through the network or through query.
HasAnswer(t) ==
    \/ net[t].stage = "answered"
    \/ /\ pc[t] \in {"received_first", "received"}
       /\ request[t].last_response # CprFailure.status

\* A request of t has been let go, and has not been served.
Pending(t) == pc[t] \in {"first", "wait"} \/ net[t].stage = "asked"

LEMMA Stages ==
    ASSUME SInv, NEW t \in Threads
    PROVE  /\ net[t].stage \in {"quiet", "asked", "answered"}
           /\ net[t].stage # "quiet" <=> pc[t] \in {"sent_first", "sent"}
           /\ net[t].stage = "answered" => net[t].reply \in AnyReply
           /\ pc[t] # "idle" => request[t] \in Proven!InQuery
           /\ HasAnswer(t) => Client!InFlight(t)
           /\ Pending(t) => Client!InFlight(t)
           /\ pc \in [Threads -> Proven!Labels] /\ net \in [Threads -> Messages]
<1>1. net[t] \in Messages /\ net \in [Threads -> Messages]
      /\ (net[t].stage = "quiet") = (pc[t] \notin {"sent_first", "sent"})
  BY DEF SInv, NetworkInv
<1>2. /\ net[t].stage \in {"quiet", "asked", "answered"}
      /\ net[t].stage = "answered" => net[t].reply \in AnyReply
  BY <1>1 DEF Messages, Quiet, Asked, Answered
<1>3. pc \in [Threads -> Proven!Labels] /\ (pc[t] # "idle" => request[t] \in Proven!InQuery)
  BY DEF SInv, Proven!CInv
<1> QED BY <1>1, <1>2, <1>3 DEF HasAnswer, Pending, Client!InFlight

\* Where the steps of a thread lead.
LEMMA ThreadSteps ==
    ASSUME SInv, NEW t \in Threads, ThreadStep(t)
    PROVE  /\ net[t].stage = "quiet"
           /\ pc[t] \notin {"sent_first", "sent"}
           /\ pc'[t] \notin {"received_first", "received"}
           /\ pc[t] \in {"received_first", "received"} => Client!Update(t)
           /\ pc'[t] = "first" => Client!IsInitialized(t)
           /\ pc'[t] = "wait" => Client!CheckRateLimits(t) \/ Client!Poll(t)
           /\ pc'[t] = "sent_first" => Client!SendFirst(t)
           /\ pc'[t] = "sent" => Client!Send(t)
           /\ Client!Update(t) => pc'[t] \in {"idle", "review", "check"}
<1>1. pc \in [Threads -> Proven!Labels] /\ net[t].stage \in {"quiet", "asked", "answered"}
  BY Stages
<1>2. Client!Step(t) \/ Client!Poll(t)
  BY DEF ThreadStep
<1>3. Client!Update(t) => pc'[t] \in {"idle", "review", "check"}
  BY <1>1 DEF Client!Update, Client!Goto, Client!Return
<1>4. /\ pc[t] \notin {"sent_first", "sent"}
      /\ pc'[t] \notin {"received_first", "received"}
      /\ pc[t] \in {"received_first", "received"} => Client!Update(t)
      /\ pc'[t] = "first" => Client!IsInitialized(t)
      /\ pc'[t] = "wait" => Client!CheckRateLimits(t) \/ Client!Poll(t)
      /\ pc'[t] = "sent_first" => Client!SendFirst(t)
      /\ pc'[t] = "sent" => Client!Send(t)
  <2>1. CASE Client!Update(t)
    BY <1>3, <2>1 DEF Client!Update
  <2>2. CASE Client!CheckRateLimits(t)
    BY <1>1, <2>2 DEF Client!CheckRateLimits, Client!Goto
  <2>3. CASE Client!IsInitialized(t) \/ Client!SendFirst(t) \/ Client!Send(t) \/ Client!Poll(t)
    BY <1>1, <2>3
       DEF Client!IsInitialized, Client!SendFirst, Client!Send, Client!Poll, Client!Goto
  <2>4. CASE \/ Client!ReviewRefusal(t) \/ Client!ReviewServerError(t)
             \/ Client!CountServerError(t) \/ Client!DecideServerError(t)
             \/ Client!ReviewFailure(t)
    BY <1>1, <2>4
       DEF Client!ReviewRefusal, Client!ReviewServerError, Client!CountServerError,
           Client!DecideServerError, Client!ReviewFailure, Client!Goto, Client!Return
  <2> QED BY <1>2, <2>1, <2>2, <2>3, <2>4 DEF Client!Step
<1> QED BY <1>1, <1>3, <1>4, Stages

\* Who moves in a step; the others rest.
LEMMA SomeoneMoves ==
    ASSUME SInv, [Next]_vars, NEW t \in Threads
    PROVE  Moves(t) \/ Still(t)
<1>1. ASSUME NEW u \in Threads, Moves(u) PROVE Moves(t) \/ Still(t)
  BY <1>1, OthersStill
<1>2. CASE Observe \/ Tick \/ UNCHANGED vars
  BY <1>2 DEF Observe, Tick, Client!Observe, Client!Tick, vars, clientVars, Client!client, Still
<1> QED BY <1>1, <1>2 DEF Next, Moves

\* A full bucket is the reason, and its window is running.
LEMMA FullRuns ==
    ASSUME NEW t \in Nat, NEW limits \in {AppLimits, MethodLimits},
           NEW bs \in BucketsAt(limits, t),
           NEW i \in Service!Full(Service!FreshAll(bs, t), limits)
    PROVE  /\ i \in DOMAIN limits /\ i \in Service!Full(bs, limits)
           /\ bs[i].ends > t /\ bs[i].count >= limits[i].limit
<1>1. i \in DOMAIN limits /\ DOMAIN bs = DOMAIN limits
  BY FreshBuckets DEF Service!Full, BucketsAt
<1>2. Service!FreshAll(bs, t)[i].count >= limits[i].limit
  BY DEF Service!Full
<1>3. limits[i].limit \in Nat /\ limits[i].limit > 0
  BY <1>1, Windows
<1>4. IF bs[i].ends > t THEN Service!FreshAll(bs, t)[i] = bs[i]
                        ELSE Service!FreshAll(bs, t)[i] = [count |-> 0, ends |-> 0]
  BY <1>1, FreshBuckets
<1>5. bs[i].ends > t /\ bs[i].count >= limits[i].limit
  BY <1>2, <1>3, <1>4
<1> QED BY <1>1, <1>5 DEF Service!Full
-----------------------------------------------------------------------------
(* A single thread heeds a refusal, when its clock agrees with the service's. *)

\* The full ones of the service's buckets bs that are running at tick t end by s.
EndBy(bs, limits, t, s) ==
    \A i \in Service!Full(bs, limits) : bs[i].ends > t => bs[i].ends <= s

\* There is room for a request of route r and method m from second s on.
RoomBy(r, m, s) ==
    /\ EndBy(used[r].app, AppLimits, tick, s)
    /\ EndBy(used[r].methods[m], MethodLimits, tick, s)

\* The refusal is known to query, and the next attempt not served yet.
Refreshing(t) == pc[t] \in {"review", "check", "wait"} \/ net[t].stage = "asked"

\* What the service's Retry-After is worth on its way: in the network, in the request,
\* and once it is handed to the limiter.
RefusalLasts(t) ==
    RoomBy(request[t].route, request[t].method, now + net[t].reply.header.retry_after)
SilenceLasts(t) ==
    RoomBy(request[t].route, request[t].method, request[t].silence)
PauseLasts(t) ==
    RoomBy(request[t].route, request[t].method, quiet[request[t].route][request[t].method])

\* What a thread knows of its last refusal, and that it does not send before that is over.
Heeds(t) ==
    LET q == request[t]
    IN  /\ Refused(t) =>
              /\ q.last_response # 429
              /\ "retry_after" \in DOMAIN net[t].reply.header
              /\ net[t].reply.header.retry_after \in Nat
              /\ RefusalLasts(t)
        /\ pc[t] # "idle" /\ q.last_response = 429 =>
              /\ pc[t] \notin {"start", "first", "count", "decide"}
              /\ pc[t] \in {"received_first", "received"} => SilenceLasts(t)
              /\ Refreshing(t) => PauseLasts(t)
              /\ net[t].stage = "asked" => now >= quiet[q.route][q.method]

LEMMA EndByLater ==
    ASSUME NEW limits \in {AppLimits, MethodLimits}, NEW t0 \in Nat,
           NEW bs \in BucketsAt(limits, t0),
           NEW t \in Nat, NEW t2 \in Nat, NEW s \in Nat, NEW s2 \in Nat, t <= t2, s <= s2,
           EndBy(bs, limits, t, s)
    PROVE  EndBy(bs, limits, t2, s2)
<1> SUFFICES ASSUME NEW i \in Service!Full(bs, limits), bs[i].ends > t2
             PROVE  bs[i].ends <= s2
  BY DEF EndBy
<1>1. bs[i].ends \in Nat
  BY DEF BucketsAt, Service!Full
<1> QED BY <1>1 DEF EndBy

\* A refusal names the second from which on there is room.
LEMMA RefusalTells ==
    ASSUME TicksPerSecond = 1, SInv, NEW r \in Routes, NEW m \in Methods,
           ~Service!HasRoom(r, m, tick)
    PROVE  LET s == Service!RetryAfter(Service!FreshAll(used[r].app, tick),
                                       Service!FreshAll(used[r].methods[m], tick), tick)
           IN  s \in Nat /\ RoomBy(r, m, tick + s)
<1> DEFINE app == used[r].app
           method == used[r].methods[m]
           a == Service!FreshAll(app, tick)
           b == Service!FreshAll(method, tick)
           ends == {a[i].ends : i \in Service!Full(a, AppLimits)}
                   \cup {b[i].ends : i \in Service!Full(b, MethodLimits)}
           s == Service!RetryAfter(a, b, tick)
<1>1. app \in BucketsAt(AppLimits, tick) /\ method \in BucketsAt(MethodLimits, tick) /\ tick \in Nat
  BY Clock DEF SInv, UsedAt
<1>2. s \in 0 .. MaxWindow /\ MaxWindow \in Nat
  BY <1>1, RetryAfterBounded, RepliesWellFormed DEF Service!HasRoom, Proven!RepliesAssumption
<1>3. s = (Service!Max(ends) - tick + 1 - 1) \div 1
  BY DEF Service!RetryAfter
<1>4. ASSUME NEW limits \in {AppLimits, MethodLimits}, NEW bs \in BucketsAt(limits, tick),
             NEW i \in Service!Full(Service!FreshAll(bs, tick), limits)
      PROVE  /\ Service!FreshAll(bs, tick)[i].ends = bs[i].ends
             /\ bs[i].ends \in 0 .. tick + MaxWindow
  <2>1. i \in DOMAIN limits /\ bs[i].ends > tick
    BY <1>1, FullRuns
  <2>2. Service!FreshAll(bs, tick)[i] = bs[i]
    BY <1>1, <2>1, FreshBuckets
  <2>3. bs[i].ends \in Nat /\ bs[i].ends <= tick + limits[i].duration * 1
    BY <2>1 DEF BucketsAt
  <2> QED BY <1>1, <1>2, <2>1, <2>2, <2>3, Windows
<1>5. ends \in SUBSET (0 .. tick + MaxWindow) /\ ends # {}
  <2>1. ends \in SUBSET (0 .. tick + MaxWindow)
    BY <1>1, <1>4
  <2>2. ends # {}
    BY DEF Service!HasRoom
  <2> QED BY <2>1, <2>2
<1>6. Service!Max(ends) \in Nat /\ \A e \in ends : e <= Service!Max(ends) /\ e \in Nat
  <2>1. tick + MaxWindow \in Nat
    BY <1>1, <1>2
  <2>2. Proven!Rate!Max(ends) \in ends /\ \A e \in ends : Proven!Rate!Max(ends) >= e
    <3> HIDE DEF ends
    <3> QED BY <1>5, <2>1, RepliesWellFormed, Proven!ResponsesAnnounced, Proven!Rate!MaxBounded
  <2>3. Service!Max(ends) = Proven!Rate!Max(ends)
    BY DEF Service!Max, Proven!Rate!Max
  <2> HIDE DEF ends
  <2>4. \A e \in ends : e \in Nat
    BY <1>5, <2>1
  <2> QED BY <2>2, <2>3, <2>4
<1>7. tick + s = Service!Max(ends)
  <2>1. \A x \in Int : (x + 1 - 1) \div 1 = x
    OBVIOUS
  <2> HIDE DEF ends, s
  <2>2. Service!Max(ends) - tick \in Int
    BY <1>1, <1>6
  <2>3. s = Service!Max(ends) - tick
    BY <1>3, <2>1, <2>2
  <2> QED BY <1>1, <1>6, <2>3
<1>8. ASSUME NEW limits \in {AppLimits, MethodLimits}, NEW bs \in BucketsAt(limits, tick),
             NEW i \in Service!Full(bs, limits), bs[i].ends > tick
      PROVE  /\ i \in Service!Full(Service!FreshAll(bs, tick), limits)
             /\ Service!FreshAll(bs, tick)[i].ends = bs[i].ends
  <2>1. i \in DOMAIN limits
    BY DEF Service!Full, BucketsAt
  <2>2. /\ Service!FreshAll(bs, tick)[i] = bs[i]
        /\ DOMAIN Service!FreshAll(bs, tick) = DOMAIN limits
    BY <1>1, <1>8, <2>1, FreshBuckets DEF BucketsAt
  <2> QED BY <2>1, <2>2 DEF Service!Full
<1>9. EndBy(app, AppLimits, tick, tick + s)
  BY <1>1, <1>6, <1>7, <1>8 DEF EndBy
<1>10. EndBy(method, MethodLimits, tick, tick + s)
  BY <1>1, <1>6, <1>7, <1>8 DEF EndBy
<1> QED BY <1>2, <1>9, <1>10 DEF RoomBy

\* From that second on the service does not refuse.
LEMMA RoomComes ==
    ASSUME TicksPerSecond = 1, SInv, NEW r \in Routes, NEW m \in Methods, NEW s \in Nat,
           RoomBy(r, m, s), now >= s
    PROVE  Service!HasRoom(r, m, tick)
<1>1. /\ used[r].app \in BucketsAt(AppLimits, tick)
      /\ used[r].methods[m] \in BucketsAt(MethodLimits, tick)
      /\ tick \in Nat /\ tick = now
  <2>1. fraction = 0
    BY DEF SInv
  <2> QED BY <2>1, Clock DEF SInv, UsedAt, tick
<1>2. ASSUME NEW limits \in {AppLimits, MethodLimits}, NEW bs \in BucketsAt(limits, tick),
             NEW i \in Service!Full(Service!FreshAll(bs, tick), limits),
             EndBy(bs, limits, tick, s)
      PROVE  FALSE
  <2>1. i \in DOMAIN limits /\ i \in Service!Full(bs, limits) /\ bs[i].ends > tick
    BY <1>1, FullRuns
  <2>2. bs[i].ends \in Nat
    BY <2>1 DEF BucketsAt
  <2> QED BY <1>1, <1>2, <2>1, <2>2 DEF EndBy
<1> QED BY <1>1, <1>2 DEF RoomBy, Service!HasRoom

LEMMA RoomStays ==
    ASSUME SInv, [Next]_vars, UNCHANGED used, NEW r \in Routes, NEW m \in Methods,
           NEW s \in Nat, NEW s2 \in Nat, s <= s2, RoomBy(r, m, s)
    PROVE  /\ EndBy(used'[r].app, AppLimits, tick', s2)
           /\ EndBy(used'[r].methods[m], MethodLimits, tick', s2)
<1>1. tick \in Nat /\ tick' \in Nat /\ tick <= tick'
  BY Clock, ClocksMove
<1>2. /\ used[r].app \in BucketsAt(AppLimits, tick)
      /\ used[r].methods[m] \in BucketsAt(MethodLimits, tick)
  BY DEF SInv, UsedAt
<1> QED BY <1>1, <1>2, EndByLater DEF RoomBy

LEMMA HeedsThreadStep ==
    ASSUME \A t, u \in Threads : t = u, SInv, Proven!PInv,
           NEW t \in Threads, Heeds(t), ThreadStep(t)
    PROVE  Heeds(t)'
<1>1. [Next]_vars /\ UNCHANGED used
  BY DEF Next, ThreadStep
<1>2. /\ pc \in [Threads -> Proven!Labels] /\ net \in [Threads -> Messages]
      /\ net[t].stage = "quiet" /\ pc[t] \notin {"sent_first", "sent"}
      /\ pc[t] # "idle" => request[t] \in Proven!InQuery
      /\ request \in [Threads -> Proven!InQuery \cup {NoRequest}]
      /\ quiet \in [Routes -> [Methods -> Nat]]
      /\ now \in Nat /\ now' \in Nat
  BY <1>1, Stages, ThreadSteps, Clock, ClocksMove DEF SInv, Proven!CInv
<1>3. /\ net'[t].stage # "answered"
      /\ net'[t].stage = "asked" => pc'[t] \in {"sent_first", "sent"}
  BY <1>2 DEF ThreadStep, Asked
<1>4. pc'[t] \notin {"received_first", "received"}
  BY ThreadSteps
<1> SUFFICES ASSUME pc'[t] # "idle", request'[t].last_response = 429
             PROVE  /\ pc'[t] \notin {"start", "first", "count", "decide"}
                    /\ PauseLasts(t)'
                    /\ net'[t].stage = "asked" =>
                          now' >= quiet'[request'[t].route][request'[t].method]
  BY <1>3, <1>4 DEF Heeds, Refused
<1>5. Client!Step(t) \/ Client!Poll(t)
  BY DEF ThreadStep
<1>6. pc[t] # "idle" /\ request[t] \in Proven!InQuery
  BY <1>2, <1>5
     DEF Client!Step, Client!IsInitialized, Client!SendFirst, Client!CheckRateLimits,
         Client!Send, Client!Update, Client!ReviewRefusal, Client!ReviewServerError,
         Client!CountServerError, Client!DecideServerError, Client!ReviewFailure, Client!Poll
<1>7. PICK r \in Routes, m \in Methods, silence \in Nat :
         r = request[t].route /\ m = request[t].method /\ silence = request[t].silence
  BY <1>6 DEF Proven!InQuery, Proven!Request
<1>8. /\ request[t].last_response = 429
      /\ request'[t].route = r /\ request'[t].method = m
  <2> DEFINE Same == /\ request'[t].last_response = request[t].last_response
                     /\ request'[t].route = r /\ request'[t].method = m
  <2>1. /\ request'[t] = request[t] => Same
        /\ \A d : request'[t] = [request[t] EXCEPT !.denials = d] => Same
        /\ \A d : request'[t] = [request[t] EXCEPT !.send_time = d] => Same
    BY <1>6, <1>7 DEF Proven!InQuery, Proven!Request
  <2>11. ASSUME NEW b, request'[t] = Client!Heard(request[t], b) PROVE Same
    BY <1>6, <1>7, <2>11 DEF Proven!InQuery, Proven!Request, Client!Heard
  <2>12. ASSUME request'[t] = Client!Forgiven(request[t]) PROVE Same
    BY <1>6, <1>7, <2>12 DEF Proven!InQuery, Proven!Request, Client!Forgiven
  <2> HIDE DEF Same
  <2>2. ASSUME Client!CheckRateLimits(t)
        PROVE  \E d : request'[t] = [request[t] EXCEPT !.send_time = d]
    <3>1. PICK d : d = Client!Limiter!SendTime(r, m, request[t].send_time)
      OBVIOUS
    <3>2. request' = [request EXCEPT ![t] = [request[t] EXCEPT !.send_time = d]]
      BY <1>7, <2>2, <3>1 DEF Client!CheckRateLimits
    <3>3. request'[t] = [request[t] EXCEPT !.send_time = d]
      BY <1>2, <3>2
    <3> QED BY <3>3
  <2>3. ASSUME Client!Update(t)
        PROVE  request'[t] = Client!Heard(request[t], Client!Unreviewed(t))
    <3>1. request' = [request EXCEPT ![t] = Client!Heard(request[t], Client!Unreviewed(t))]
      BY <1>2, <2>3 DEF Client!Update, Client!Return, Client!Goto
    <3> QED BY <1>2, <3>1
  <2>4. ASSUME Client!ReviewRefusal(t)
        PROVE  request'[t] \in {request[t], Client!Forgiven(request[t])}
    BY <2>4 DEF Client!ReviewRefusal
  <2>5. ASSUME Client!ReviewServerError(t)
        PROVE  \E d : request'[t] = [request[t] EXCEPT !.denials = d]
    BY <1>2, <2>5 DEF Client!ReviewServerError
  <2>6. ASSUME Client!DecideServerError(t) \/ Client!ReviewFailure(t)
        PROVE  request'[t] = request[t]
    BY <1>2, <2>6
       DEF Client!DecideServerError, Client!ReviewFailure, Client!Return, Client!Goto
  <2>7. /\ Client!CheckRateLimits(t) => Same
        /\ Client!Update(t) => Same
        /\ Client!ReviewServerError(t) => Same
        /\ Client!DecideServerError(t) \/ Client!ReviewFailure(t) => Same
    BY <2>1, <2>2, <2>3, <2>5, <2>6, <2>11, Zenon
  <2>8. Client!ReviewRefusal(t) => Same
    BY <2>1, <2>4, <2>12
  <2>9. UNCHANGED request => Same
    BY <2>1
  <2>10. Same
    BY <1>5, <2>7, <2>8, <2>9
       DEF Client!Step, Client!IsInitialized, Client!SendFirst, Client!Send,
           Client!CountServerError, Client!Poll
  <2> QED BY <1>6, <2>10 DEF Same
<1>9. /\ pc[t] \notin {"start", "first", "count", "decide"}
      /\ pc[t] \in {"received_first", "received"} => RoomBy(r, m, silence)
      /\ pc[t] \in {"review", "check", "wait"} => RoomBy(r, m, quiet[r][m])
  BY <1>6, <1>7, <1>8 DEF Heeds, Refreshing, PauseLasts, SilenceLasts
<1>10. quiet[r][m] \in Nat
  BY <1>2
<1>11. CASE Client!Update(t)
  <2>1. Client!Unaccompanied(t)
    BY DEF Client!Unaccompanied
  <2>2. quiet'[r][m] = Client!Limiter!Larger(quiet[r][m], silence)
    BY <1>2, <1>7, <1>11, <2>1 DEF Client!Update
  <2>3. PICK s \in Nat : s = quiet'[r][m] /\ silence <= s
    BY <1>10, <2>2 DEF Client!Limiter!Larger
  <2>4. pc'[t] \in {"review", "check"} /\ pc[t] \in {"received_first", "received"}
    BY <1>11, ThreadSteps DEF Client!Update
  <2>5. RoomBy(r, m, s)'
    BY <1>1, <1>9, <2>3, <2>4, RoomStays DEF RoomBy
  <2> QED BY <1>3, <1>8, <2>3, <2>4, <2>5 DEF PauseLasts
<1>12. CASE ~Client!Update(t)
  <2>1. UNCHANGED quiet /\ pc[t] \in {"review", "check", "wait"}
    BY <1>2, <1>5, <1>6, <1>9, <1>12, ThreadSteps
       DEF Client!Step, Client!IsInitialized, Client!SendFirst, Client!CheckRateLimits,
           Client!Send, Client!ReviewRefusal, Client!ReviewServerError,
           Client!CountServerError, Client!DecideServerError, Client!ReviewFailure,
           Client!Poll, Proven!Labels
  <2>2. PauseLasts(t)'
    BY <1>1, <1>8, <1>9, <1>10, <2>1, RoomStays DEF RoomBy, PauseLasts
  <2>3. pc'[t] \notin {"start", "first", "count", "decide"}
    BY <1>2, <1>5, <1>8, <1>9, <1>12
       DEF Client!Step, Client!IsInitialized, Client!SendFirst, Client!CheckRateLimits,
           Client!Send, Client!ReviewRefusal, Client!ReviewServerError,
           Client!CountServerError, Client!DecideServerError, Client!ReviewFailure,
           Client!Poll, Client!Goto
  <2>4. ASSUME net'[t].stage = "asked" PROVE now' >= quiet'[r][m]
    <3>1. Client!Send(t)
      BY <1>3, <1>9, <2>4, ThreadSteps DEF Client!SendFirst
    <3>2. Proven!Sends(t) /\ now' = now
      BY <1>2, <3>1 DEF Client!Send, Client!Goto, Client!limiter, Proven!Sends
    <3>3. [Proven!Next]_(Proven!vars)
      BY <1>1, ClientMoves
    <3>4. now >= quiet[r][m]
      BY <1>7, <3>2, <3>3, RepliesWellFormed, Proven!SendsLate
    <3> QED BY <2>1, <3>2, <3>4
  <2> QED BY <1>8, <2>2, <2>3, <2>4
<1> QED BY <1>11, <1>12

LEMMA HeedsAnswer ==
    ASSUME TicksPerSecond = 1, SInv, NEW t \in Threads, Heeds(t), Serve(t)
    PROVE  Heeds(t)'
<1>1. /\ pc \in [Threads -> Proven!Labels] /\ net \in [Threads -> Messages]
      /\ net[t].stage = "asked" /\ pc[t] \in {"sent_first", "sent"}
      /\ request[t] \in Proven!InQuery
      /\ UNCHANGED <<pc, request, quiet, now, fraction>>
      /\ quiet \in [Routes -> [Methods -> Nat]]
  BY Stages DEF Serve, clientVars, SInv, Proven!CInv
<1>2. PICK r \in Routes, m \in Methods : r = request[t].route /\ m = request[t].method
  BY <1>1 DEF Proven!InQuery, Proven!Request
<1>3. tick \in Nat /\ tick = now /\ tick' = tick
  <2>1. fraction = 0
    BY DEF SInv
  <2> QED BY <1>1, <2>1, Clock DEF tick
<1>4. net'[t].stage = "answered" /\ ~Refreshing(t)' /\ pc'[t] \notin {"received_first", "received"}
  BY <1>1 DEF Serve, Answered, Refreshing
<1>5. ASSUME Refused(t)'
      PROVE  /\ request'[t].last_response # 429
             /\ "retry_after" \in DOMAIN net'[t].reply.header
             /\ net'[t].reply.header.retry_after \in Nat
             /\ RefusalLasts(t)'
  <2>1. /\ ~Service!HasRoom(r, m, tick) /\ UNCHANGED used
        /\ net' = [net EXCEPT ![t] = Answered(Service!Refusal(r, m, tick))]
    <3>1. ASSUME NEW status \in Statuses
          PROVE  net' # [net EXCEPT ![t] = Answered(Service!Answer(r, m, tick, status))]
      <4>1. status # 429
        BY ServiceAssumption
      <4> QED BY <1>1, <1>5, <4>1 DEF Answered, Service!Answer, Refused
    <3> QED BY <1>2, <3>1 DEF Serve
  <2>2. PICK s : s = Service!RetryAfter(Service!FreshAll(used[r].app, tick),
                                        Service!FreshAll(used[r].methods[m], tick), tick)
    OBVIOUS
  <2>3. s \in Nat /\ RoomBy(r, m, tick + s)
    BY <2>1, <2>2, RefusalTells
  <2>4. /\ "retry_after" \in DOMAIN net'[t].reply.header
        /\ net'[t].reply.header.retry_after = s
    BY <1>1, <2>1, <2>2 DEF Answered, Service!Refusal, Service!WithRetryAfter
  <2>5. RefusalLasts(t)'
    BY <1>1, <1>2, <1>3, <2>1, <2>3, <2>4 DEF RoomBy, RefusalLasts
  <2>6. request[t].last_response # 429
    <3> SUFFICES ASSUME request[t].last_response = 429 PROVE FALSE
      OBVIOUS
    <3>1. RoomBy(r, m, quiet[r][m]) /\ now >= quiet[r][m] /\ quiet[r][m] \in Nat
      BY <1>1, <1>2 DEF Heeds, Refreshing, PauseLasts
    <3> QED BY <2>1, <3>1, RoomComes
  <2> QED BY <1>1, <2>3, <2>4, <2>5, <2>6
<1> QED BY <1>1, <1>4, <1>5 DEF Heeds

LEMMA HeedsResponse ==
    ASSUME SInv, NEW t \in Threads, Heeds(t), Deliver(t) \/ Lose(t)
    PROVE  Heeds(t)'
<1>1. /\ pc \in [Threads -> Proven!Labels] /\ net \in [Threads -> Messages]
      /\ net[t].stage \in {"asked", "answered"}
      /\ pc[t] \in {"sent_first", "sent"} /\ request[t] \in Proven!InQuery
      /\ request \in [Threads -> Proven!InQuery \cup {NoRequest}]
      /\ now \in Nat /\ now' = now /\ UNCHANGED <<used, fraction, quiet>>
  BY Stages, Clock DEF Deliver, Lose, Client!Receive, Client!limiter, SInv, Proven!CInv
<1>2. /\ net'[t].stage = "quiet"
      /\ pc'[t] \in {"received_first", "received"}
  BY <1>1 DEF Deliver, Lose, Client!Receive, Client!Goto, Quiet
<1> SUFFICES ASSUME request'[t].last_response = 429 PROVE SilenceLasts(t)'
  BY <1>2 DEF Heeds, Refused, Refreshing
<1>3. ASSUME NEW reply, Client!Receive(t, reply)
      PROVE  /\ request'[t].last_response = reply.status
             /\ request'[t].route = request[t].route
             /\ request'[t].method = request[t].method
             /\ request'[t].silence
                   = IF "retry_after" \in DOMAIN reply.header
                     THEN now + Client!Limiter!Larger(0, reply.header.retry_after) ELSE 0
  BY <1>1, <1>3 DEF Client!Receive, Proven!InQuery, Proven!Request
<1>4. Deliver(t)
  <2>1. ~Lose(t)
    BY <1>3 DEF Lose, CprFailure
  <2> QED BY <2>1
<1>5. Refused(t) /\ Client!Receive(t, net[t].reply)
  BY <1>3, <1>4 DEF Deliver, Refused
<1>6. /\ net[t].reply.header.retry_after \in Nat
      /\ "retry_after" \in DOMAIN net[t].reply.header
      /\ RefusalLasts(t)
  BY <1>5 DEF Heeds
<1>7. request'[t].silence = now + net[t].reply.header.retry_after
  BY <1>1, <1>3, <1>5, <1>6 DEF Client!Limiter!Larger
<1>8. tick' = tick
  BY <1>1 DEF tick
<1> QED BY <1>1, <1>3, <1>5, <1>6, <1>7, <1>8 DEF RoomBy, RefusalLasts, SilenceLasts

LEMMA HeedsNext ==
    ASSUME \A t, u \in Threads : t = u, TicksPerSecond = 1, SInv, Proven!PInv,
           [Next]_vars, NEW t \in Threads, Heeds(t)
    PROVE  Heeds(t)'
<1>1. CASE Observe \/ Tick \/ UNCHANGED vars
  <2>1. UNCHANGED <<pc, request, quiet, net, used>>
    BY <1>1 DEF Observe, Tick, Client!Observe, Client!Tick, Client!client, vars, clientVars
  <2>2. /\ now \in Nat /\ now' \in Nat /\ now <= now'
        /\ quiet \in [Routes -> [Methods -> Nat]]
        /\ pc[t] # "idle" => request[t] \in Proven!InQuery
        /\ Refused(t) => pc[t] # "idle"
    BY Clock, ClocksMove, Stages DEF SInv, Proven!CInv, Refused
  <2>3. CASE pc[t] = "idle"
    BY <2>1, <2>2, <2>3 DEF Heeds, Refused
  <2>4. CASE pc[t] # "idle"
    <3>1. PICK r \in Routes, m \in Methods, silence \in Nat :
             r = request[t].route /\ m = request[t].method /\ silence = request[t].silence
      BY <2>2, <2>4 DEF Proven!InQuery, Proven!Request
    <3>2. quiet[r][m] \in Nat
      BY <2>2
    <3>3. SilenceLasts(t) => SilenceLasts(t)'
      BY <2>1, <3>1, RoomStays DEF RoomBy, SilenceLasts
    <3>4. PauseLasts(t) => PauseLasts(t)'
      BY <2>1, <3>1, <3>2, RoomStays DEF RoomBy, PauseLasts
    <3>5. ASSUME NEW s \in Nat, net[t].reply.header.retry_after = s, RefusalLasts(t)
          PROVE  RefusalLasts(t)'
      <4>1. now + s \in Nat /\ now' + s \in Nat /\ now + s <= now' + s
        BY <2>2
      <4> QED BY <2>1, <3>1, <3>5, <4>1, RoomStays DEF RoomBy, RefusalLasts
    <3> QED BY <2>1, <2>2, <3>1, <3>2, <3>3, <3>4, <3>5 DEF Heeds, Refused, Refreshing
  <2> QED BY <2>3, <2>4
<1>2. ASSUME NEW r \in Routes, NEW m \in Methods, Call(t, r, m) PROVE Heeds(t)'
  <2>1. request'[t] = Client!NewRequest(r, m) /\ UNCHANGED net
    BY <1>2 DEF Call, Client!Query, SInv, Proven!CInv
  <2>2. net[t].stage = "quiet"
    BY <1>2, Stages DEF Call, Client!Query
  <2> QED BY <2>1, <2>2 DEF Heeds, Refused, Client!NewRequest, Client!NotSent
<1> QED BY <1>1, <1>2, HeedsThreadStep, HeedsAnswer, HeedsResponse DEF Next

\* A refusal is the last that a call of a single thread meets in a row: the pause it is
\* told is long enough for every full bucket, and the thread waits for its end, whatever
\* other answers, failed transfers and losses have left in the limiter; when the service
\* counts in whole seconds (TicksPerSecond = 1), as the client does.
THEOREM RefusedOnce ==
    ASSUME \A t, u \in Threads : t = u, TicksPerSecond = 1
    PROVE  Spec => []NotRefusedTwice
<1> DEFINE AllHeed == \A t \in Threads : Heeds(t)
<1>1. Init => AllHeed
  <2> SUFFICES ASSUME Init, NEW t \in Threads PROVE Heeds(t)
    OBVIOUS
  <2>1. net[t] = Quiet /\ pc[t] = "idle"
    BY DEF Init, Client!Init
  <2> QED BY <2>1 DEF Heeds, Refused, Quiet
<1>2. SInv /\ Proven!PInv /\ AllHeed /\ [Next]_vars => AllHeed'
  BY HeedsNext
<1>3. Spec => []Proven!PInv
  BY RepliesWellFormed, ClientInSystem, Proven!SpecPInv, PTL
<1>4. AllHeed => NotRefusedTwice
  BY DEF Heeds, NotRefusedTwice
<1> QED BY <1>1, <1>2, <1>3, <1>4, SpecSInv, PTL DEF Spec
-----------------------------------------------------------------------------
(* Windows that refuse, and any threads, when the clocks agree. *)

\* What is kept of a refusal on its way is covered by the pause it asks for.
RefusalCovered(t) ==
    \A e \in refusal[t] :
        /\ Refused(t) =>
              /\ "retry_after" \in DOMAIN net[t].reply.header
              /\ net[t].reply.header.retry_after \in Nat
              /\ e <= now + net[t].reply.header.retry_after
        /\ AtHand(t) => e <= request[t].silence

\* The windows the limiter knows to be full are running, and it has been silenced for as long.
HeededSilenced ==
    \A r \in Routes : \A e \in heeded[r] :
        e > tick /\ \E m \in Methods : e <= quiet[r][m]

RefusalInv ==
    /\ refusal \in [Threads -> SUBSET Nat] /\ heeded \in [Routes -> SUBSET Nat]
    /\ \A t \in Threads : RefusalCovered(t)
    /\ HeededSilenced

LEMMA TickIsNow == ASSUME TicksPerSecond = 1, SInv PROVE tick = now /\ now \in Nat
<1>1. fraction = 0
  BY DEF SInv
<1> QED BY <1>1, Clock DEF tick

\* Only a refusal by the service is one.
LEMMA RefusesServes ==
    ASSUME SInv, [Next]_vars, NEW t \in Threads, Refuses(t)
    PROVE  /\ Serve(t) /\ net[t].stage = "asked" /\ pc[t] \in {"sent_first", "sent"}
           /\ request[t].route \in Routes /\ request[t].method \in Methods
           /\ ~Service!HasRoom(request[t].route, request[t].method, tick)
           /\ net'[t] = Answered(Service!Refusal(request[t].route, request[t].method, tick))
<1>1. /\ net \in [Threads -> Messages]
      /\ net'[t].stage = "answered" /\ net'[t].reply.status = 429
      /\ ~(net[t].stage = "answered" /\ net[t].reply.status = 429)
  BY Stages DEF Refuses, Refused
<1>2. ~Still(t)
  BY <1>1 DEF Still
<1>3. Moves(t)
  BY <1>2, SomeoneMoves
<1>4. Serve(t)
  <2>1. ~ThreadStep(t)
    <3> SUFFICES ASSUME ThreadStep(t) PROVE FALSE
      OBVIOUS
    <3>1. net'[t] \in {net[t], Asked}
      BY <1>1 DEF ThreadStep
    <3> QED BY <1>1, <3>1 DEF Asked
  <2>2. ~(Deliver(t) \/ Lose(t))
    BY <1>1 DEF Deliver, Lose, Quiet
  <2>3. ASSUME NEW r \in Routes, NEW m \in Methods, Call(t, r, m) PROVE FALSE
    BY <1>1, <2>3 DEF Call
  <2> QED BY <1>3, <2>1, <2>2, <2>3 DEF Moves
<1>5. net[t].stage = "asked" /\ pc[t] \in {"sent_first", "sent"} /\ request[t] \in Proven!InQuery
  BY <1>4, Stages DEF Serve
<1>6. request[t].route \in Routes /\ request[t].method \in Methods
  BY <1>5 DEF Proven!InQuery, Proven!Request
<1>7. ASSUME NEW status \in Statuses
      PROVE  net' # [net EXCEPT ![t] = Answered(Service!Answer(request[t].route,
                                                    request[t].method, tick, status))]
  <2>1. status # 429
    BY ServiceAssumption
  <2> QED BY <1>1, <2>1 DEF Answered, Service!Answer
<1>8. /\ ~Service!HasRoom(request[t].route, request[t].method, tick)
      /\ net' = [net EXCEPT ![t] = Answered(Service!Refusal(request[t].route,
                                                request[t].method, tick))]
  BY <1>4, <1>7 DEF Serve
<1> QED BY <1>1, <1>4, <1>5, <1>6, <1>8

\* The windows without room are over by the second the refusal names.
LEMMA WindowsTold ==
    ASSUME TicksPerSecond = 1, SInv, NEW r \in Routes, NEW m \in Methods,
           ~Service!HasRoom(r, m, tick)
    PROVE  LET header == Service!Refusal(r, m, tick).header
           IN  /\ "retry_after" \in DOMAIN header /\ header.retry_after \in Nat
               /\ FullWindows(r, m) \in SUBSET Nat
               /\ \A e \in FullWindows(r, m) : e <= now + header.retry_after
<1>1. PICK s : s = Service!RetryAfter(Service!FreshAll(used[r].app, tick),
                                      Service!FreshAll(used[r].methods[m], tick), tick)
  OBVIOUS
<1>2. s \in Nat /\ RoomBy(r, m, tick + s)
  BY <1>1, RefusalTells
<1>3. /\ "retry_after" \in DOMAIN Service!Refusal(r, m, tick).header
      /\ Service!Refusal(r, m, tick).header.retry_after = s
  BY <1>1 DEF Service!Refusal, Service!WithRetryAfter
<1>4. ASSUME NEW limits \in {AppLimits, MethodLimits}, NEW bs \in BucketsAt(limits, tick),
             EndBy(bs, limits, tick, tick + s), NEW e \in FullEnds(bs, limits)
      PROVE  e \in Nat /\ e <= tick + s
  BY <1>4 DEF FullEnds, EndBy, BucketsAt, Service!Full
<1>5. /\ used[r].app \in BucketsAt(AppLimits, tick)
      /\ used[r].methods[m] \in BucketsAt(MethodLimits, tick)
  BY DEF SInv, UsedAt
<1>6. \A e \in FullWindows(r, m) : e \in Nat /\ e <= tick + s
  BY <1>2, <1>4, <1>5 DEF FullWindows, RoomBy
<1> QED BY <1>2, <1>3, <1>6, TickIsNow

\* What has arrived with a refusal is kept until insert_request is called with it.
LEMMA RefusalStaysCovered ==
    ASSUME TicksPerSecond = 1, SInv, RefusalInv, [Next]_vars, RecordRefusals,
           NEW t \in Threads
    PROVE  refusal'[t] \in SUBSET Nat /\ RefusalCovered(t)'
<1>1. /\ refusal'[t] = IF Refuses(t) THEN FullWindows(request[t].route, request[t].method)
                       ELSE IF (Refused(t) \/ AtHand(t))' THEN refusal[t] ELSE {}
      /\ refusal[t] \in SUBSET Nat /\ RefusalCovered(t)
      /\ now \in Nat /\ now' \in Nat /\ now <= now'
  BY Clock, ClocksMove DEF RecordRefusals, RefusalInv
<1>2. CASE Refuses(t)
  <2>1. PICK r \in Routes, m \in Methods : r = request[t].route /\ m = request[t].method
    BY <1>2, RefusesServes
  <2>2. /\ ~Service!HasRoom(r, m, tick) /\ net'[t] = Answered(Service!Refusal(r, m, tick))
        /\ Serve(t) /\ pc[t] \in {"sent_first", "sent"}
    BY <1>2, <2>1, RefusesServes
  <2>3. now' = now /\ pc' = pc
    BY <2>2 DEF Serve, clientVars
  <2>4. net'[t].reply = Service!Refusal(r, m, tick)
    BY <2>2 DEF Answered
  <2>5. ~AtHand(t)'
    BY <2>2, <2>3 DEF AtHand
  <2>6. refusal'[t] = FullWindows(r, m)
    BY <1>1, <1>2, <2>1
  <2> QED BY <2>2, <2>3, <2>4, <2>5, <2>6, WindowsTold DEF RefusalCovered
<1>3. CASE ~Refuses(t) /\ Refused(t)'
  <2>1. Refused(t)
    BY <1>3 DEF Refuses
  <2>2. net[t].stage = "answered" /\ pc[t] \in {"sent_first", "sent"}
    BY <2>1, Stages DEF Refused
  <2>3. ~Moves(t)
    <3>1. ~(ThreadStep(t) \/ Serve(t))
      BY <2>2, ThreadSteps DEF Serve
    <3>2. ~(Deliver(t) \/ Lose(t))
      BY <1>3, Stages DEF Deliver, Lose, Quiet, Refused
    <3>3. \A r \in Routes, m \in Methods : ~Call(t, r, m)
      BY <2>2 DEF Call, Client!Query
    <3> QED BY <3>1, <3>2, <3>3 DEF Moves
  <2>4. net'[t] = net[t] /\ pc'[t] = pc[t]
    BY <2>3, SomeoneMoves DEF Still
  <2>5. refusal'[t] = refusal[t] /\ ~AtHand(t)'
    BY <1>1, <1>3, <2>2, <2>4 DEF AtHand
  <2> QED BY <1>1, <2>1, <2>4, <2>5 DEF RefusalCovered
<1>4. CASE ~Refuses(t) /\ ~Refused(t)' /\ AtHand(t)'
  <2>1. refusal'[t] = refusal[t]
    BY <1>1, <1>4
  <2>2. CASE Still(t)
    <3>1. AtHand(t) /\ request'[t].silence = request[t].silence
      BY <1>4, <2>2 DEF Still, AtHand
    <3> QED BY <1>1, <1>4, <2>1, <3>1 DEF RefusalCovered
  <2>3. CASE Moves(t)
    <3>1. ~ThreadStep(t) /\ ~Serve(t)
      BY <1>4, ThreadSteps, Stages DEF AtHand, Serve, clientVars
    <3>2. ASSUME NEW r \in Routes, NEW m \in Methods, Call(t, r, m) PROVE FALSE
      BY <1>4, <3>2, Stages DEF Call, Client!Query, Client!Goto, AtHand
    <3>3. /\ net[t].stage \in {"asked", "answered"} /\ pc[t] \in {"sent_first", "sent"}
          /\ request[t] \in Proven!InQuery /\ request \in [Threads -> Proven!InQuery \cup {NoRequest}]
      BY <2>3, <3>1, <3>2, Stages DEF Moves, Deliver, Lose, SInv, Proven!CInv
    <3>4. ASSUME NEW reply, Client!Receive(t, reply)
          PROVE  /\ request'[t].last_response = reply.status /\ now' = now
                 /\ request'[t].silence
                       = IF "retry_after" \in DOMAIN reply.header
                         THEN now + Client!Limiter!Larger(0, reply.header.retry_after) ELSE 0
      BY <3>3, <3>4 DEF Client!Receive, Client!limiter, Proven!InQuery, Proven!Request
    <3>5. ~Lose(t)
      BY <1>4, <3>4 DEF Lose, CprFailure, AtHand
    <3>6. Deliver(t)
      BY <2>3, <3>1, <3>2, <3>5 DEF Moves
    <3>7. Refused(t) /\ Client!Receive(t, net[t].reply)
      BY <1>4, <3>4, <3>6 DEF Deliver, Refused, AtHand
    <3>8. ASSUME NEW e \in refusal[t] PROVE e <= request'[t].silence
      BY <1>1, <3>4, <3>7, <3>8 DEF RefusalCovered, Client!Limiter!Larger
    <3> QED BY <1>1, <1>4, <2>1, <3>8 DEF RefusalCovered
  <2> QED BY <2>2, <2>3, SomeoneMoves
<1>5. CASE ~Refuses(t) /\ ~Refused(t)' /\ ~AtHand(t)'
  BY <1>1, <1>5 DEF RefusalCovered
<1> QED BY <1>2, <1>3, <1>4, <1>5

\* Silence is only ever prolonged, by insert_request.
LEMMA SilenceGrows ==
    ASSUME SInv, [Next]_vars, NEW r \in Routes, NEW m \in Methods
    PROVE  quiet[r][m] \in Nat /\ quiet'[r][m] \in Nat /\ quiet[r][m] <= quiet'[r][m]
<1>1. quiet[r][m] \in Nat /\ quiet'[r][m] \in Nat /\ quiet \in [Routes -> [Methods -> Nat]]
  BY NextSInv DEF SInv, Proven!CInv
<1>2. UNCHANGED quiet \/ \E t \in Threads : Client!Update(t)
  <2>1. ASSUME NEW t \in Threads, ThreadStep(t) PROVE UNCHANGED quiet \/ Client!Update(t)
    BY <2>1
       DEF ThreadStep, Client!Step, Client!IsInitialized, Client!SendFirst,
           Client!CheckRateLimits, Client!Send, Client!ReviewRefusal,
           Client!ReviewServerError, Client!CountServerError, Client!DecideServerError,
           Client!ReviewFailure, Client!Poll
  <2>2. ASSUME NEW t \in Threads, Serve(t) \/ Deliver(t) \/ Lose(t) PROVE UNCHANGED quiet
    BY <2>2 DEF Serve, Deliver, Lose, clientVars, Client!Receive
  <2>3. ASSUME NEW t \in Threads, NEW q \in Routes, NEW n \in Methods, Call(t, q, n)
        PROVE  UNCHANGED quiet
    BY <2>3 DEF Call, Client!Query
  <2>4. CASE Observe \/ Tick \/ UNCHANGED vars
    BY <2>4 DEF Observe, Tick, Client!Observe, Client!Tick, Client!client, vars, clientVars
  <2> QED BY <2>1, <2>2, <2>3, <2>4 DEF Next
<1>3. ASSUME NEW t \in Threads, Client!Update(t) PROVE quiet[r][m] <= quiet'[r][m]
  <2>1. request[t] \in Proven!InQuery
    BY <1>3 DEF Client!Update, SInv, Proven!CInv
  <2>2. PICK q \in Routes, n \in Methods, s \in Nat :
           q = request[t].route /\ n = request[t].method /\ s = request[t].silence
    BY <2>1 DEF Proven!InQuery, Proven!Request
  <2>3. \/ quiet' = [quiet EXCEPT ![q][n] = Client!Limiter!Larger(@, s)]
        \/ quiet' = quiet
    BY <1>3, <2>2 DEF Client!Update
  <2> QED BY <1>1, <2>3 DEF Client!Limiter!Larger
<1> QED BY <1>1, <1>2, <1>3

LEMMA HeededStaysSilenced ==
    ASSUME SInv, RefusalInv, [Next]_vars, RecordRefusals
    PROVE  heeded' \in [Routes -> SUBSET Nat] /\ HeededSilenced'
<1>1. ASSUME NEW r \in Routes, NEW t \in Threads, HandledAlone(t, r), NEW e \in refusal[t]
      PROVE  \E m \in Methods : e <= quiet'[r][m]
  <2>1. /\ AtHand(t) /\ request[t].route = r /\ Client!Unaccompanied(t)
        /\ pc[t] \in {"received_first", "received"} /\ pc'[t] # pc[t]
    BY <1>1 DEF HandledAlone, AtHand
  <2>2. net[t].stage = "quiet" /\ request[t] \in Proven!InQuery
    BY <2>1, Stages
  <2>3. ~Still(t)
    BY <2>1 DEF Still
  <2>4. ThreadStep(t)
    BY <2>1, <2>2, <2>3, SomeoneMoves DEF Moves, Serve, Deliver, Lose, Call, Client!Query
  <2>5. Client!Update(t)
    BY <2>1, <2>4, ThreadSteps
  <2>6. PICK m \in Methods : m = request[t].method
    BY <2>2 DEF Proven!InQuery, Proven!Request
  <2>7. quiet'[r][m] = Client!Limiter!Larger(quiet[r][m], request[t].silence)
    BY <2>1, <2>5, <2>6 DEF Client!Update, SInv, Proven!CInv
  <2>8. e <= request[t].silence /\ e \in Nat /\ request[t].silence \in Nat
        /\ quiet[r][m] \in Nat
    BY <1>1, <2>1, <2>2, SilenceGrows
       DEF RefusalInv, RefusalCovered, Proven!InQuery, Proven!Request
  <2> QED BY <2>7, <2>8 DEF Client!Limiter!Larger
<1>2. ASSUME NEW r \in Routes, NEW e \in heeded[r]
      PROVE  e \in Nat /\ \E m \in Methods : e <= quiet'[r][m]
  <2>1. PICK m \in Methods : e <= quiet[r][m]
    BY <1>2 DEF RefusalInv, HeededSilenced
  <2> QED BY <2>1, SilenceGrows DEF RefusalInv
<1>3. ASSUME NEW r \in Routes
      PROVE  heeded'[r] \in SUBSET Nat
             /\ \A e \in heeded'[r] : e > tick' /\ \E m \in Methods : e <= quiet'[r][m]
  <2>1. ASSUME NEW e \in heeded'[r]
        PROVE  /\ e > tick'
               /\ \/ e \in heeded[r]
                  \/ \E t \in Threads : HandledAlone(t, r) /\ e \in refusal[t]
    BY DEF RecordRefusals
  <2> QED BY <1>1, <1>2, <2>1 DEF RefusalInv
<1>4. heeded' = [r \in Routes |-> heeded'[r]]
  BY DEF RecordRefusals
<1> QED BY <1>3, <1>4 DEF HeededSilenced

\* While a window runs that the limiter knows to be full, nobody's request is at the service.
LEMMA NoneRefusedMeanwhile ==
    ASSUME TicksPerSecond = 1, SInv, Proven!PInv, RefusalInv, [Next]_vars,
           NEW t \in Threads, Refuses(t)
    PROVE  heeded[request[t].route] = {}
<1> SUFFICES ASSUME NEW e \in heeded[request[t].route] PROVE FALSE
  OBVIOUS
<1>1. PICK r \in Routes : r = request[t].route
  BY RefusesServes
<1>2. PICK m \in Methods : e <= quiet[r][m] /\ e > now
  BY <1>1, TickIsNow DEF RefusalInv, HeededSilenced
<1>3. quiet[r][m] > now
  BY <1>1, <1>2, TickIsNow, SilenceGrows DEF RefusalInv
<1>4. Proven!HeldBack(t, r, quiet[r][m])
  BY <1>3 DEF Proven!PInv, Proven!PauseHolds
<1>5. pc[t] \in {"sent_first", "sent"}
  BY RefusesServes
<1> QED BY <1>1, <1>4, <1>5 DEF Proven!HeldBack, Proven!InFlight

\* A window refuses no more once the limiter has been told of it by a response that came
\* alone, for any number of threads, limits and windows, and whatever was lost; when the
\* service counts in whole seconds (TicksPerSecond = 1).
THEOREM WindowsRefuseOnce ==
    ASSUME TicksPerSecond = 1
    PROVE  RefusalsSpec => RefusedOncePerWindow
<1>1. RefusalsInit => RefusalInv
  BY DEF RefusalsInit, RefusalInv, RefusalCovered, HeededSilenced
<1>2. SInv /\ RefusalInv /\ [RefusalsNext]_refusalsVars => RefusalInv'
  <2> SUFFICES ASSUME SInv, RefusalInv, [RefusalsNext]_refusalsVars PROVE RefusalInv'
    OBVIOUS
  <2>1. CASE UNCHANGED refusalsVars
    BY <2>1 DEF refusalsVars, vars, clientVars, RefusalInv, RefusalCovered, HeededSilenced,
                Refused, AtHand, tick
  <2>2. CASE RefusalsNext
    <3>1. [Next]_vars /\ RecordRefusals
      BY <2>2 DEF RefusalsNext
    <3>2. refusal' = [t \in Threads |-> refusal'[t]]
      BY <3>1 DEF RecordRefusals
    <3> QED BY <3>1, <3>2, RefusalStaysCovered, HeededStaysSilenced DEF RefusalInv
  <2> QED BY <2>1, <2>2
<1>3. RefusalsSpec => Spec
  <2>1. RefusalsInit => Init
    BY DEF RefusalsInit
  <2>2. [RefusalsNext]_refusalsVars => [Next]_vars
    BY DEF RefusalsNext, refusalsVars
  <2> QED BY <2>1, <2>2, PTL DEF RefusalsSpec, Spec
<1>4. RefusalsSpec => [](SInv /\ Proven!PInv)
  BY <1>3, SpecSInv, RepliesWellFormed, ClientInSystem, Proven!SpecPInv, PTL
<1>5. /\ SInv /\ Proven!PInv /\ RefusalInv /\ [RefusalsNext]_refusalsVars
      => [\A t \in Threads : Refuses(t) => heeded[request[t].route] = {}]_refusalsVars
  BY NoneRefusedMeanwhile DEF RefusalsNext
<1> QED BY <1>1, <1>2, <1>4, <1>5, PTL DEF RefusalsSpec, RefusedOncePerWindow
=============================================================================
