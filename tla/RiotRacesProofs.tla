-------------------------- MODULE RiotRacesProofs ---------------------------
(***************************************************************************)
(* Proofs about what the limiter knows of the service's buckets, for any   *)
(* threads, routes, methods, limits, windows and losses.  They assume that *)
(* the service counts in whole seconds, as the client does: by a finer     *)
(* clock the limiter has windows that end too early, even in a route with  *)
(* a single thread.                                                        *)
(*                                                                         *)
(* The induction follows the news of a bucket: the service counts a        *)
(* request, its answer carries the count, and until the limiter has heard  *)
(* of it the request is still on its way (HeardShadows, AnswerTrue), or    *)
(* its response is lost, and nothing is claimed of the windows that run; a *)
(* request that was let go finds the room the limiter saw as long as       *)
(* nobody else is counted before it (RoomAhead).                           *)
(***************************************************************************)
EXTENDS RiotRaces, RiotSystemProofs, FiniteSetTheorems

(* The buckets of a route, by key: <<>> for those of the application, <<m>> for those *)
(* of method m.                                                                       *)

Keys == {<<>>} \cup {<<m>> : m \in Methods}

Heard(r, k) == IF k = <<>> THEN counts[r].app ELSE counts[r].methods[k[1]]
Kept(r, k) == IF k = <<>> THEN used[r].app ELSE used[r].methods[k[1]]
LimitsOf(k) == IF k = <<>> THEN AppLimits ELSE MethodLimits
LimitsIn(header, k) == IF k = <<>> THEN header.app_limit ELSE header.method_limit
CountsIn(header, k) == IF k = <<>> THEN header.app_limit_count ELSE header.method_limit_count

\* The request counts in the buckets of this route and key.
On(q, r, k) == q.route = r /\ (k = <<>> \/ k = <<q.method>>)

\* The limiter has heard of these buckets.
Known(r, k) == IF k = <<>> THEN counts[r].active ELSE counts[r].methods[k[1]] # <<>>

\* What a step of the limiter can do to buckets it gets no response for: nothing but drop
\* the counts of windows that are over,
Untouched(r, k) ==
    /\ Known(r, k)' = Known(r, k)
    /\ DOMAIN Heard(r, k)' = DOMAIN Heard(r, k)
    /\ \A i \in DOMAIN Heard(r, k) :
          /\ Heard(r, k)'[i].next_reset = Heard(r, k)[i].next_reset
          /\ Heard(r, k)'[i].limit = Heard(r, k)[i].limit
          /\ Heard(r, k)[i].next_reset > now
                => Heard(r, k)'[i].count = Heard(r, k)[i].count

\* or initialise them.
Initialised(r, k) ==
    /\ ~Known(r, k) /\ ~Known(r, k)'
    /\ \A i \in DOMAIN Heard(r, k)' : Heard(r, k)'[i].next_reset = 0

LEMMA HeardTyped ==
    ASSUME Proven!CInv, NEW r \in Routes, NEW k \in Keys
    PROVE  /\ Heard(r, k) \in Seq(Proven!Rate!BoundedScope(now)) /\ now \in Nat
           /\ \A i \in DOMAIN Heard(r, k) : Heard(r, k)[i] \in Proven!Rate!BoundedScope(now)
           /\ Known(r, k) \in BOOLEAN
           /\ counts[r] \in Proven!Rate!BoundedRegion(now)
<1>1. counts[r] \in Proven!Rate!BoundedRegion(now) /\ now \in Nat
  BY DEF Proven!CInv, Proven!Rate!GInv, Proven!Rate!IInv
<1>2. Heard(r, k) \in Seq(Proven!Rate!BoundedScope(now)) /\ Known(r, k) \in BOOLEAN
  <2>1. /\ counts[r].app \in Seq(Proven!Rate!BoundedScope(now))
        /\ counts[r].active \in BOOLEAN
        /\ \A m \in Methods : counts[r].methods[m] \in Seq(Proven!Rate!BoundedScope(now))
    BY <1>1 DEF Proven!Rate!BoundedRegion
  <2>2. CASE k = <<>>
    BY <2>1, <2>2 DEF Heard, Known
  <2>3. ASSUME NEW m \in Methods, k = <<m>>
        PROVE  /\ Heard(r, k) = counts[r].methods[m]
               /\ Known(r, k) \in BOOLEAN
    BY <2>3 DEF Heard, Known
  <2> QED BY <2>1, <2>2, <2>3 DEF Keys
<1> QED BY <1>1, <1>2

LEMMA HierachyRead ==
    ASSUME NEW t \in Nat, NEW h \in Seq(Proven!Rate!BoundedScope(t)), NEW g,
           g = h \/ g = Proven!Rate!HierachyUpdateCount(h, t)
    PROVE  /\ DOMAIN g = DOMAIN h
           /\ \A i \in DOMAIN h : /\ g[i].next_reset = h[i].next_reset
                                  /\ g[i].limit = h[i].limit
                                  /\ h[i].next_reset > t => g[i].count = h[i].count
<1>1. CASE g = h
  BY <1>1
<1>2. CASE g = Proven!Rate!HierachyUpdateCount(h, t)
  <2>1. DOMAIN g = DOMAIN h
    BY <1>2 DEF Proven!Rate!HierachyUpdateCount
  <2>2. ASSUME NEW i \in DOMAIN h
        PROVE  /\ g[i].next_reset = h[i].next_reset
               /\ g[i].limit = h[i].limit
               /\ h[i].next_reset > t => g[i].count = h[i].count
    <3>1. h[i] \in Proven!Rate!BoundedScope(t)
      OBVIOUS
    <3>2. g[i] = Proven!Rate!ScopeUpdateCount(h[i], t, FALSE)
      BY <1>2 DEF Proven!Rate!HierachyUpdateCount
    <3> QED BY <3>1, <3>2
            DEF Proven!Rate!ScopeUpdateCount, Proven!Rate!Expired, Proven!Rate!BoundedScope,
                Proven!Rate!Scope
  <2> QED BY <2>1, <2>2
<1> QED BY <1>1, <1>2

LEMMA ReadersLeave ==
    ASSUME Proven!CInv, Proven!Rate!Read, NEW r \in Routes, NEW k \in Keys
    PROVE  Untouched(r, k)
<1>1. \/ counts'[r] = counts[r]
      \/ \E ms \in SUBSET Methods :
            counts'[r] = Proven!Rate!RegionUpdateCount(counts[r], ms, now)
  BY RepliesWellFormed, Proven!ResponsesAnnounced, Proven!Rate!ReadSteps DEF Proven!CInv
<1>2. counts[r] \in Proven!Rate!BoundedRegion(now) /\ now \in Nat
      /\ Heard(r, k) \in Seq(Proven!Rate!BoundedScope(now))
  BY HeardTyped
<1>3. ASSUME NEW ms \in SUBSET Methods,
             counts'[r] = Proven!Rate!RegionUpdateCount(counts[r], ms, now)
      PROVE  /\ counts'[r].active = counts[r].active
             /\ Heard(r, k)' \in
                   {Heard(r, k), Proven!Rate!HierachyUpdateCount(Heard(r, k), now)}
  BY <1>2, <1>3 DEF Proven!Rate!RegionUpdateCount, Proven!Rate!BoundedRegion, Heard, Keys
<1>4. /\ counts'[r].active = counts[r].active
      /\ Heard(r, k)' \in {Heard(r, k), Proven!Rate!HierachyUpdateCount(Heard(r, k), now)}
  <2>1. CASE counts'[r] = counts[r]
    BY <2>1 DEF Heard
  <2> QED BY <1>1, <1>3, <2>1
<1>5. PICK g : g = Heard(r, k)'
  OBVIOUS
<1>6. /\ DOMAIN g = DOMAIN Heard(r, k)
      /\ \A i \in DOMAIN Heard(r, k) :
            /\ g[i].next_reset = Heard(r, k)[i].next_reset
            /\ g[i].limit = Heard(r, k)[i].limit
            /\ Heard(r, k)[i].next_reset > now => g[i].count = Heard(r, k)[i].count
  BY <1>2, <1>4, <1>5, HierachyRead
<1>7. g = <<>> <=> Heard(r, k) = <<>>
  <2>1. Heard(r, k) # <<>> => 1 \in DOMAIN Heard(r, k)
    BY <1>2
  <2>2. Heard(r, k) = <<>> => Proven!Rate!HierachyUpdateCount(Heard(r, k), now) = <<>>
    BY DEF Proven!Rate!HierachyUpdateCount
  <2> QED BY <1>4, <1>5, <1>6, <2>1, <2>2
<1>8. Known(r, k)' = Known(r, k)
  BY <1>4, <1>5, <1>7 DEF Known, Heard
<1> QED BY <1>5, <1>6, <1>8 DEF Untouched

\* The regions a response is applied to: the limiter's, or new ones.
IsBase(base) ==
    /\ base \in [Routes -> Proven!Rate!BoundedRegion(now)]
    /\ \A r \in Routes :
          \/ base[r] = counts[r]
          \/ /\ ~counts[r].active /\ ~base[r].active
             /\ \A i \in DOMAIN base[r].app : base[r].app[i].next_reset = 0
             /\ base[r].methods = counts[r].methods

LEMMA ResponseBase ==
    ASSUME Proven!CInv, NEW resp \in Proven!AnyResponse, NEW q \in Routes, NEW n \in Methods,
           Proven!Rate!InsertRequest(q, n, resp)
    PROVE  \E base :
              /\ IsBase(base)
              /\ counts'[q] = Proven!Rate!RegionInsertWithHeaders(
                    base[q], n, resp.response_header, now, now',
                    Proven!Rate!RetryAfterSec(resp))
              /\ \A p \in Routes \ {q} : counts'[p] = base[p]
<1> DEFINE base == IF initialised THEN counts
                   ELSE Proven!Rate!InitialiseCounts(resp.response_header)
<1>1. /\ base \in [Routes -> Proven!Rate!BoundedRegion(now)]
      /\ counts' = [base EXCEPT ![q] =
            Proven!Rate!RegionInsertWithHeaders(
               base[q], n, resp.response_header, now, now', Proven!Rate!RetryAfterSec(resp))]
  BY RepliesWellFormed, Proven!ResponsesAnnounced, Proven!Rate!InsertRequestSteps
     DEF Proven!CInv
<1>2. ASSUME NEW r \in Routes, ~initialised
      PROVE  /\ ~counts[r].active /\ ~base[r].active
             /\ \A i \in DOMAIN base[r].app : base[r].app[i].next_reset = 0
             /\ base[r].methods = counts[r].methods
  <2>1. counts[r] = Proven!Rate!NewRegion
    BY <1>2 DEF Proven!CInv, Proven!Rate!GInv, Proven!Rate!Pristine
  <2>2. PICK limits : base[r] = Proven!Rate!RegionInitLimits(counts[r], limits)
    BY <1>2 DEF Proven!Rate!InitialiseCounts
  <2>3. base[r] = [counts[r] EXCEPT !.app = Proven!Rate!HierachyOf(limits)]
    BY <2>2 DEF Proven!Rate!RegionInitLimits
  <2>4. \A i \in DOMAIN Proven!Rate!HierachyOf(limits) :
           Proven!Rate!HierachyOf(limits)[i].next_reset = 0
    BY DEF Proven!Rate!HierachyOf, Proven!Rate!NewScope
  <2> HIDE DEF base
  <2> QED BY <2>1, <2>3, <2>4 DEF Proven!Rate!NewRegion
<1>3. ASSUME initialised PROVE base = counts
  BY <1>3
<1> HIDE DEF base
<1>4. IsBase(base)
  BY <1>1, <1>2, <1>3 DEF IsBase
<1> QED BY <1>1, <1>4

\* Buckets a response is not about.
LEMMA ResponseElsewhere ==
    ASSUME Proven!CInv, NEW resp \in Proven!AnyResponse, NEW q \in Routes, NEW n \in Methods,
           Proven!Rate!InsertRequest(q, n, resp),
           NEW r \in Routes, NEW k \in Keys, ~(q = r /\ (k = <<>> \/ k = <<n>>))
    PROVE  Untouched(r, k) \/ Initialised(r, k)
<1>1. PICK base :
         /\ IsBase(base)
         /\ counts'[q] = Proven!Rate!RegionInsertWithHeaders(
               base[q], n, resp.response_header, now, now',
               Proven!Rate!RetryAfterSec(resp))
         /\ \A p \in Routes \ {q} : counts'[p] = base[p]
  BY ResponseBase
<1>2. ASSUME NEW m \in Methods, k = <<m>>
      PROVE  /\ Heard(r, k) = counts[r].methods[m] /\ Heard(r, k)' = counts'[r].methods[m]
             /\ Known(r, k) = (counts[r].methods[m] # <<>>)
             /\ Known(r, k)' = (counts'[r].methods[m] # <<>>)
  BY <1>2 DEF Heard, Known
<1>3. ASSUME NEW m \in Methods, k = <<m>> PROVE Untouched(r, k)
  <2>1. counts'[r].methods[m] = base[r].methods[m]
    <3>1. CASE q # r
      BY <1>1, <3>1
    <3>2. CASE q = r
      <4>1. m # n
        BY <1>3, <3>2
      <4>2. counts'[r] = Proven!Rate!RegionInsertWithHeaders(
                            base[r], n, resp.response_header, now, now',
                            Proven!Rate!RetryAfterSec(resp))
        BY <1>1, <3>2
      <4>3. base[r] \in Proven!Rate!BoundedRegion(now)
        BY <1>1 DEF IsBase
      <4> QED BY <4>1, <4>2, <4>3
              DEF Proven!Rate!RegionInsertWithHeaders, Proven!Rate!BoundedRegion
    <3> QED BY <3>1, <3>2
  <2>2. base[r].methods[m] = counts[r].methods[m]
    BY <1>1 DEF IsBase
  <2> QED BY <1>2, <1>3, <2>1, <2>2 DEF Untouched
<1>4. ASSUME k = <<>> PROVE Untouched(r, k) \/ Initialised(r, k)
  <2>1. counts'[r] = base[r]
    BY <1>1, <1>4
  <2> QED BY <1>1, <1>4, <2>1 DEF IsBase, Untouched, Initialised, Heard, Known
<1> QED BY <1>3, <1>4 DEF Keys

\* Buckets a response is about.
LEMMA ResponseHere ==
    ASSUME Proven!CInv, NEW resp \in Proven!AnyResponse, NEW r \in Routes, NEW n \in Methods,
           Proven!Rate!InsertRequest(r, n, resp), NEW k \in Keys, k = <<>> \/ k = <<n>>
    PROVE  /\ \E h \in Seq(Proven!Rate!BoundedScope(now)) :
                 /\ h = Heard(r, k) \/ \A i \in DOMAIN h : h[i].next_reset = 0
                 /\ Heard(r, k)' = Proven!Rate!HierachySyncFromHeaders(
                                      h, LimitsIn(resp.response_header, k),
                                      CountsIn(resp.response_header, k), now, now',
                                      Proven!Rate!RetryAfterSec(resp))
           /\ k = <<>> => Known(r, k)'
<1>1. PICK base :
         /\ IsBase(base)
         /\ counts'[r] = Proven!Rate!RegionInsertWithHeaders(
               base[r], n, resp.response_header, now, now',
               Proven!Rate!RetryAfterSec(resp))
         /\ \A p \in Routes \ {r} : counts'[p] = base[p]
  BY ResponseBase
<1>2. counts'[r] = Proven!Rate!RegionInsertWithHeaders(
                      base[r], n, resp.response_header, now, now',
                      Proven!Rate!RetryAfterSec(resp))
  BY <1>1
<1>3. base[r] \in Proven!Rate!BoundedRegion(now)
  BY <1>1 DEF IsBase
<1>4. /\ counts'[r].active = TRUE
      /\ counts'[r].app = Proven!Rate!HierachySyncFromHeaders(
             base[r].app, resp.response_header.app_limit,
             resp.response_header.app_limit_count, now, now', Proven!Rate!RetryAfterSec(resp))
      /\ counts'[r].methods[n] = Proven!Rate!HierachySyncFromHeaders(
             base[r].methods[n], resp.response_header.method_limit,
             resp.response_header.method_limit_count, now, now',
             Proven!Rate!RetryAfterSec(resp))
  BY <1>2, <1>3 DEF Proven!Rate!RegionInsertWithHeaders, Proven!Rate!BoundedRegion
<1>5. /\ base[r].app \in Seq(Proven!Rate!BoundedScope(now))
      /\ base[r].methods[n] \in Seq(Proven!Rate!BoundedScope(now))
  BY <1>3 DEF Proven!Rate!BoundedRegion
<1>6. \/ base[r].app = counts[r].app
      \/ \A i \in DOMAIN base[r].app : base[r].app[i].next_reset = 0
  BY <1>1 DEF IsBase
<1>7. base[r].methods[n] = counts[r].methods[n]
  BY <1>1 DEF IsBase
<1>8. CASE k = <<>>
  BY <1>4, <1>5, <1>6, <1>8 DEF Heard, Known, LimitsIn, CountsIn
<1>9. CASE k = <<n>>
  <2>1. k # <<>> /\ k[1] = n
    BY <1>9
  <2> QED BY <1>4, <1>5, <1>7, <2>1 DEF Heard, LimitsIn, CountsIn
<1> QED BY <1>8, <1>9

\* What a step does to the limiter's buckets.
LEMMA LimiterMoves ==
    ASSUME SInv, [Next]_vars, NEW r \in Routes, NEW k \in Keys
    PROVE  \/ Untouched(r, k)
           \/ Initialised(r, k)
           \/ \E t \in Threads : /\ ThreadStep(t) /\ Client!Update(t) /\ On(request[t], r, k)
                                 /\ request[t].last_response # CprFailure.status
<1>1. ASSUME UNCHANGED counts PROVE Untouched(r, k)
  BY <1>1 DEF Untouched, Heard, Known
<1>2. ASSUME Proven!Rate!Read PROVE Untouched(r, k)
  BY <1>2, ReadersLeave DEF SInv
<1>3. ASSUME NEW t \in Threads, Client!CheckRateLimits(t) PROVE Untouched(r, k)
  <2>1. request[t] \in Proven!InQuery
    BY <1>3 DEF SInv, Proven!CInv, Client!CheckRateLimits
  <2>2. request[t].route \in Routes /\ request[t].method \in Methods
    BY <2>1 DEF Proven!InQuery, Proven!Request
  <2>3. Proven!Rate!CheckRateLimits(request[t].route, request[t].method)
    BY <1>3, SameLimiter, Proven!SameOperations, RepliesWellFormed DEF Client!CheckRateLimits
  <2> QED BY <1>2, <2>2, <2>3 DEF Proven!Rate!Read
<1>4. ASSUME NEW t \in Threads, Client!Update(t)
      PROVE  \/ Untouched(r, k) \/ Initialised(r, k)
             \/ On(request[t], r, k) /\ request[t].last_response # CprFailure.status
  <2> DEFINE q == request[t]
  <2>1. q \in Proven!InQuery
    BY <1>4 DEF SInv, Proven!CInv, Client!Update
  <2>2. /\ q.route \in Routes /\ q.method \in Methods
        /\ Proven!ResponseOf(q) \in Proven!AnyResponse
    BY <2>1, RepliesWellFormed, Proven!ResponseOfAny DEF Proven!InQuery, Proven!Request
  <2>3. CASE q.last_response = CprFailure.status
    BY <1>1, <1>4, <2>3 DEF Client!Update, Client!CprError, CprFailure, Client!limiter
  <2>4. CASE q.last_response # CprFailure.status
    <3>1. Client!Limiter!InsertRequest(q.route, q.method, Proven!ResponseOf(q))
      BY <1>4, <2>4 DEF Client!Update, Client!CprError, CprFailure, Proven!ResponseOf
    <3>2. Proven!Rate!InsertRequest(q.route, q.method, Proven!ResponseOf(q))
      BY <3>1, SameLimiter, Proven!SameOperations, RepliesWellFormed
    <3>3. CASE On(q, r, k)
      BY <2>4, <3>3
    <3>4. CASE ~On(q, r, k)
      <4> HIDE DEF q
      <4>1. ~(q.route = r /\ (k = <<>> \/ k = <<q.method>>))
        BY <3>4 DEF On
      <4> QED BY <2>2, <3>2, <4>1, ResponseElsewhere DEF SInv
    <3> QED BY <3>3, <3>4
  <2> QED BY <2>3, <2>4
<1>5. ASSUME NEW t \in Threads, ThreadStep(t), ~Client!Update(t) PROVE Untouched(r, k)
  <2>1. CASE Client!CheckRateLimits(t)
    BY <1>3, <2>1
  <2>2. CASE ~Client!CheckRateLimits(t)
    BY <1>1, <1>5, <2>2
       DEF ThreadStep, Client!Step, Client!IsInitialized, Client!SendFirst, Client!Send,
           Client!ReviewRefusal, Client!ReviewServerError, Client!CountServerError,
           Client!DecideServerError, Client!ReviewFailure, Client!Poll, Client!limiter
  <2> QED BY <2>1, <2>2
<1>6. CASE Observe
  <2>1. Proven!Rate!Read
    BY <1>6, SameLimiter, Proven!SameOperations, RepliesWellFormed
       DEF Observe, Client!Observe, Proven!Rate!Read
  <2> QED BY <1>2, <2>1
<1>7. ASSUME NEW t \in Threads, Moves(t), ~ThreadStep(t) PROVE UNCHANGED counts
  BY <1>7 DEF Moves, Serve, Deliver, Lose, Call, clientVars, Client!Receive, Client!Query,
              Client!limiter
<1>8. CASE Tick \/ UNCHANGED vars
  BY <1>1, <1>8 DEF Tick, Client!Tick, Client!Limiter!Tick, vars, clientVars
<1> QED BY <1>1, <1>4, <1>5, <1>6, <1>7, <1>8 DEF Next, Moves

\* What a step does to the service's buckets.
LEMMA KeptTyped ==
    ASSUME SInv, NEW r \in Routes, NEW k \in Keys
    PROVE  /\ Kept(r, k) \in BucketsAt(LimitsOf(k), tick) /\ tick \in Nat
           /\ LimitsOf(k) \in {AppLimits, MethodLimits}
<1>1. /\ used[r].app \in BucketsAt(AppLimits, tick)
      /\ \A m \in Methods : used[r].methods[m] \in BucketsAt(MethodLimits, tick)
  BY DEF SInv, UsedAt
<1>2. ASSUME NEW m \in Methods, k = <<m>>
      PROVE  Kept(r, k) = used[r].methods[m] /\ LimitsOf(k) = MethodLimits
  BY <1>2 DEF Kept, LimitsOf
<1>3. k = <<>> => Kept(r, k) = used[r].app /\ LimitsOf(k) = AppLimits
  BY DEF Kept, LimitsOf
<1> QED BY <1>1, <1>2, <1>3, Clock DEF Keys

LEMMA KeptTypedNext ==
    ASSUME NEW r \in Routes, NEW k \in Keys
    PROVE  (SInv => Kept(r, k) \in BucketsAt(LimitsOf(k), tick) /\ tick \in Nat)'
<1>1. SInv => Kept(r, k) \in BucketsAt(LimitsOf(k), tick) /\ tick \in Nat
  BY KeptTyped
<1> QED BY <1>1, PTL

\* An answer, or a refusal, tells the counts of the windows that run.
LEMMA ServeTells ==
    ASSUME SInv, NEW t \in Threads, Serve(t), NEW r \in Routes, NEW k \in Keys,
           On(request[t], r, k)
    PROVE  /\ net'[t].stage = "answered"
           /\ \A i \in DOMAIN LimitsOf(k) :
                 Kept(r, k)'[i].ends > tick =>
                    /\ i \in DOMAIN CountsIn(net'[t].reply.header, k)
                    /\ CountsIn(net'[t].reply.header, k)[i] = Kept(r, k)'[i].count
                    /\ \/ Kept(r, k)'[i].ends = Kept(r, k)[i].ends
                       \/ Kept(r, k)'[i].count = 1
<1> DEFINE m == request[t].method
           cs == CountsIn(net'[t].reply.header, k)
           limits == LimitsOf(k)
           fresh == Service!FreshAll(Kept(r, k), tick)
<1>1. Kept(r, k) \in BucketsAt(limits, tick) /\ tick \in Nat
      /\ limits \in {AppLimits, MethodLimits}
  BY KeptTyped
<1>2. /\ fresh \in BucketsAt(limits, tick)
      /\ \A i \in DOMAIN limits :
            IF Kept(r, k)[i].ends > tick THEN fresh[i] = Kept(r, k)[i]
                                         ELSE fresh[i] = [count |-> 0, ends |-> 0]
  BY <1>1, FreshBuckets
<1>3. request[t].route = r /\ m \in Methods /\ (k = <<>> \/ k = <<m>>)
  <2>1. pc[t] # "idle"
    BY DEF Serve, SInv, NetworkInv
  <2>2. request[t] \in Proven!InQuery
    BY <2>1 DEF SInv, Proven!CInv
  <2> QED BY <2>2 DEF On, Proven!InQuery, Proven!Request
<1>4. /\ used \in UsedAt(tick) /\ net \in [Threads -> Messages]
      /\ k = <<m>> => k # <<>> /\ k[1] = m
  BY DEF SInv, NetworkInv
<1> DEFINE counted == Service!Counted(fresh, limits, tick)
<1>5. CASE \E status \in Statuses :
              /\ Service!Accept(r, m, tick)
              /\ net' = [net EXCEPT ![t] = Answered(Service!Answer(r, m, tick, status))]
  <2>1. Kept(r, k)' = counted
    <3>1. CASE k = <<>>
      BY <1>3, <1>4, <1>5, <3>1 DEF Service!Accept, Kept, LimitsOf, UsedAt
    <3>2. CASE k = <<m>>
      BY <1>3, <1>4, <1>5, <3>2 DEF Service!Accept, Kept, LimitsOf, UsedAt
    <3> QED BY <1>3, <3>1, <3>2
  <2>2. net'[t].stage = "answered" /\ cs = Service!Counts(counted)
    <3>1. \E status \in Statuses : net'[t] = Answered(Service!Answer(r, m, tick, status))
      BY <1>4, <1>5
    <3> QED BY <1>3, <1>4, <3>1
            DEF Answered, Service!Answer, Service!RateHeaders, CountsIn, Kept, LimitsOf
  <2>3. ASSUME NEW i \in DOMAIN limits
        PROVE  /\ i \in DOMAIN cs /\ cs[i] = counted[i].count
               /\ counted[i].ends = Kept(r, k)[i].ends \/ counted[i].count = 1
    <3>1. DOMAIN fresh = DOMAIN limits /\ fresh[i].count \in Nat /\ fresh[i].ends \in Nat
      BY <1>2 DEF BucketsAt
    <3>2. counted[i].count = fresh[i].count + 1
          /\ (fresh[i].ends # 0 => counted[i].ends = fresh[i].ends)
      BY <3>1 DEF Service!Counted
    <3>3. DOMAIN counted = DOMAIN limits
      BY <3>1 DEF Service!Counted
    <3>4. i \in DOMAIN cs /\ cs[i] = counted[i].count
      BY <2>2, <3>3 DEF Service!Counts
    <3>5. (fresh[i] = Kept(r, k)[i] /\ fresh[i].ends # 0) \/ fresh[i].count = 0
      BY <1>1, <1>2
    <3> HIDE DEF counted, fresh, cs
    <3> QED BY <3>2, <3>4, <3>5
  <2> HIDE DEF counted, cs
  <2> QED BY <2>1, <2>2, <2>3 DEF cs
<1>6. CASE /\ net' = [net EXCEPT ![t] = Answered(Service!Refusal(r, m, tick))]
           /\ UNCHANGED used
  <2>1. Kept(r, k)' = Kept(r, k)
    BY <1>6 DEF Kept
  <2>2. net'[t].stage = "answered" /\ cs = Service!Counts(fresh)
    <3>1. net'[t] = Answered(Service!Refusal(r, m, tick))
      BY <1>4, <1>6
    <3>2. net'[t].stage = "answered" /\ net'[t].reply = Service!Refusal(r, m, tick)
      BY <3>1 DEF Answered
    <3>3. /\ Service!Refusal(r, m, tick).header.app_limit_count
                = Service!Counts(Service!FreshAll(used[r].app, tick))
          /\ Service!Refusal(r, m, tick).header.method_limit_count
                = Service!Counts(Service!FreshAll(used[r].methods[m], tick))
      BY DEF Service!Refusal, Service!RateHeaders, Service!WithRetryAfter
    <3>4. CASE k = <<>>
      BY <3>2, <3>3, <3>4 DEF CountsIn, Kept
    <3>5. CASE k = <<m>>
      BY <1>4, <3>2, <3>3, <3>5 DEF CountsIn, Kept
    <3> QED BY <1>3, <3>4, <3>5
  <2>3. DOMAIN fresh = DOMAIN limits
    BY <1>2 DEF BucketsAt
  <2>4. \A i \in DOMAIN limits : i \in DOMAIN cs /\ cs[i] = fresh[i].count
    BY <2>2, <2>3 DEF Service!Counts
  <2> HIDE DEF cs, fresh
  <2> QED BY <1>2, <2>1, <2>2, <2>4 DEF cs
<1> QED BY <1>3, <1>5, <1>6 DEF Serve

LEMMA KeptMoves ==
    ASSUME SInv, [Next]_vars, NEW r \in Routes, NEW k \in Keys
    PROVE  \/ Kept(r, k)' = Kept(r, k)
           \/ \E t \in Threads : Serve(t) /\ On(request[t], r, k)
<1>1. ASSUME UNCHANGED used PROVE Kept(r, k)' = Kept(r, k)
  BY <1>1 DEF Kept
<1>2. ASSUME NEW t \in Threads, Serve(t), ~On(request[t], r, k)
      PROVE  Kept(r, k)' = Kept(r, k)
  <2>1. CASE Service!Accept(request[t].route, request[t].method, tick)
    <3> DEFINE q == request[t]
               app == Service!Counted(Service!FreshAll(used[q.route].app, tick), AppLimits, tick)
               method == Service!Counted(Service!FreshAll(used[q.route].methods[q.method], tick),
                                         MethodLimits, tick)
    <3>1. used' = [used EXCEPT ![q.route].app = app, ![q.route].methods[q.method] = method]
      BY <2>1 DEF Service!Accept
    <3>2. used \in UsedAt(tick) /\ ~(q.route = r /\ (k = <<>> \/ k = <<q.method>>))
      BY <1>2 DEF SInv, On
    <3> HIDE DEF q, app, method
    <3>3. CASE k = <<>>
      BY <3>1, <3>2, <3>3 DEF Kept, UsedAt
    <3>4. ASSUME NEW m \in Methods, k = <<m>> PROVE Kept(r, k)' = Kept(r, k)
      <4>1. k # <<>> /\ k[1] = m /\ (q.route = r => q.method # m)
        BY <3>2, <3>4
      <4> QED BY <3>1, <3>2, <4>1 DEF Kept, UsedAt
    <3> QED BY <3>3, <3>4 DEF Keys
  <2>2. CASE UNCHANGED used
    BY <1>1, <2>2
  <2> QED BY <1>2, <2>1, <2>2 DEF Serve
<1>3. ASSUME NEW t \in Threads, Moves(t), ~Serve(t) PROVE UNCHANGED used
  BY <1>3 DEF Moves, ThreadStep, Deliver, Lose, Call
<1>4. CASE Observe \/ Tick \/ UNCHANGED vars
  BY <1>1, <1>4 DEF Observe, Tick, vars
<1> QED BY <1>1, <1>2, <1>3, <1>4 DEF Next, Moves
-----------------------------------------------------------------------------
(* Races. *)

LEMMA TwoAreMany ==
    ASSUME IsFiniteSet(Threads), NEW S \in SUBSET Threads, NEW t \in S, NEW u \in S, t # u
    PROVE  Cardinality(S) > 1
<1>1. IsFiniteSet(S) /\ Cardinality(S) \in Nat
  BY FS_Subset, FS_CardinalityType
<1>2. Cardinality(S) # 0 /\ Cardinality(S) # 1
  BY <1>1, FS_EmptySet, FS_Singleton
<1> QED BY <1>1, <1>2

LEMMA TwoRace ==
    ASSUME IsFiniteSet(Threads), NEW t \in Threads, NEW u \in Threads, t # u
    PROVE  /\ Client!InFlight(t) /\ Client!InFlight(u) /\ request[t].route = request[u].route
                => Racing(request[t].route)
           /\ (Client!InFlight(t) /\ Client!InFlight(u) /\ request[t].route = request[u].route
                => Racing(request[t].route))'
<1>1. ASSUME NEW r, Client!InFlight(t), Client!InFlight(u), request[t].route = r,
             request[u].route = r
      PROVE  Racing(r)
  <2> DEFINE S == {v \in Threads : Client!InFlight(v) /\ request[v].route = r}
  <2>1. S \in SUBSET Threads /\ t \in S /\ u \in S
    BY <1>1
  <2> HIDE DEF S
  <2>2. Cardinality(S) > 1
    BY <2>1, TwoAreMany
  <2> QED BY <2>2 DEF S, Racing
<1>2. ASSUME NEW r, Client!InFlight(t)', Client!InFlight(u)', request'[t].route = r,
             request'[u].route = r
      PROVE  Racing(r)'
  <2> DEFINE S == {v \in Threads : Client!InFlight(v)' /\ request'[v].route = r}
  <2>1. S \in SUBSET Threads /\ t \in S /\ u \in S
    BY <1>2
  <2> HIDE DEF S
  <2>2. Cardinality(S) > 1
    BY <2>1, TwoAreMany
  <2> QED BY <2>2 DEF S, Racing
<1> QED BY <1>1, <1>2

\* The running windows that have opened since the last race or loss on the route.
Claims(r, k) ==
    {i \in DOMAIN LimitsOf(k) : /\ Opened(Kept(r, k)[i], LimitsOf(k)[i]) > raced[r]
                                /\ Kept(r, k)[i].ends > tick}

RacesRecorded ==
    /\ raced \in [Routes -> Int]
    /\ \A r \in Routes : raced[r] <= tick /\ (Racing(r) => raced[r] = tick)

LEMMA RacesRecordedStep ==
    ASSUME SInv, RacesRecorded, [RacesNext]_racesVars
    PROVE  /\ RacesRecorded' /\ [Next]_vars
           /\ \A r \in Routes :
                 raced'[r] = IF Racing(r)' \/ LosesResponse(r) THEN tick' ELSE raced[r]
<1>1. [Next]_vars
  BY DEF RacesNext, racesVars
<1>2. tick \in Nat /\ tick' \in Nat /\ tick <= tick'
  BY <1>1, Clock, ClocksMove
<1>3. ASSUME NEW r \in Routes
      PROVE  raced'[r] = IF Racing(r)' \/ LosesResponse(r) THEN tick' ELSE raced[r]
  <2>1. CASE RacesNext
    BY <2>1 DEF RacesNext, RecordRaces
  <2>2. CASE UNCHANGED racesVars
    <3>1. UNCHANGED <<raced, tick, Racing(r)>>
      BY <2>2 DEF racesVars, vars, clientVars, tick, Racing, Client!InFlight
    <3>2. ASSUME NEW t \in Threads, Lose(t), net[t].stage = "answered" PROVE FALSE
      <4>1. net'[t].stage = "quiet" /\ net' = net
        BY <2>2, <3>2, Stages DEF Lose, Quiet, racesVars, vars
      <4> QED BY <3>2, <4>1
    <3> QED BY <3>1, <3>2 DEF RacesRecorded, LosesResponse
  <2> QED BY <2>1, <2>2
<1>4. raced' \in [Routes -> Int]
  <2>1. CASE RacesNext
    <3>1. raced' = [r \in Routes |-> raced'[r]]
      BY <2>1 DEF RacesNext, RecordRaces
    <3>2. \A r \in Routes : raced'[r] \in Int
      BY <1>2, <1>3 DEF RacesRecorded
    <3> QED BY <3>1, <3>2
  <2>2. CASE UNCHANGED racesVars
    BY <2>2 DEF racesVars, RacesRecorded
  <2> QED BY <2>1, <2>2
<1>5. \A r \in Routes : raced'[r] <= tick' /\ (Racing(r)' => raced'[r] = tick')
  BY <1>2, <1>3 DEF RacesRecorded
<1> QED BY <1>1, <1>3, <1>4, <1>5 DEF RacesRecorded

\* No window opens later than now.
LEMMA OpenedByNow ==
    ASSUME NEW limits \in {AppLimits, MethodLimits}, NEW t \in Nat,
           NEW bs \in BucketsAt(limits, t), NEW i \in DOMAIN limits
    PROVE  Opened(bs[i], limits[i]) \in Nat /\ Opened(bs[i], limits[i]) <= t
<1>1. PICK length \in Nat : length = limits[i].duration * TicksPerSecond
  BY Windows
<1>2. bs[i].ends \in Nat /\ bs[i].ends <= t + length
  BY <1>1 DEF BucketsAt
<1>3. Opened(bs[i], limits[i])
         = IF 0 >= bs[i].ends - length THEN 0 ELSE bs[i].ends - length
  BY <1>1 DEF Opened, Client!Limiter!Larger
<1> QED BY <1>2, <1>3

\* Nothing is claimed of a route while requests race there, nor directly after, nor when a
\* response is lost.
LEMMA NoClaims ==
    ASSUME SInv, RacesRecorded, [RacesNext]_racesVars, NEW r \in Routes, NEW k \in Keys,
           Racing(r) \/ Racing(r)' \/ LosesResponse(r)
    PROVE  Claims(r, k)' = {}
<1>1. /\ RacesRecorded' /\ [Next]_vars
      /\ raced'[r] = IF Racing(r)' \/ LosesResponse(r) THEN tick' ELSE raced[r]
  BY RacesRecordedStep
<1>2. SInv'
  BY <1>1, NextSInv
<1>3. CASE Racing(r)' \/ LosesResponse(r)
  <2>1. raced'[r] = tick'
    BY <1>1, <1>3
  <2>2. /\ Kept(r, k)' \in BucketsAt(LimitsOf(k), tick') /\ tick' \in Nat
        /\ LimitsOf(k) \in {AppLimits, MethodLimits}
    <3>1. (Kept(r, k) \in BucketsAt(LimitsOf(k), tick) /\ tick \in Nat)'
      BY <1>2, KeptTypedNext
    <3> QED BY <3>1, KeptTyped
  <2>3. \A i \in DOMAIN LimitsOf(k) :
           /\ Opened(Kept(r, k)'[i], LimitsOf(k)[i]) \in Nat
           /\ Opened(Kept(r, k)'[i], LimitsOf(k)[i]) <= tick'
    BY <2>2, OpenedByNow
  <2> QED BY <2>1, <2>2, <2>3 DEF Claims, Opened
<1>4. CASE Racing(r) /\ ~Racing(r)' /\ ~LosesResponse(r)
  <2>1. raced'[r] = tick
    BY <1>1, <1>4 DEF RacesRecorded
  <2>2. Kept(r, k)' = Kept(r, k)
    <3>1. ASSUME NEW t \in Threads, Serve(t) PROVE FALSE
      <4>1. Racing(r)' = Racing(r)
        BY <3>1 DEF Serve, clientVars, Racing, Client!InFlight
      <4> QED BY <1>4, <4>1
    <3> QED BY <1>1, <3>1, KeptMoves
  <2>3. \A i \in DOMAIN LimitsOf(k) :
           /\ Opened(Kept(r, k)[i], LimitsOf(k)[i]) \in Nat
           /\ Opened(Kept(r, k)[i], LimitsOf(k)[i]) <= tick
           /\ tick \in Nat
    BY KeptTyped, OpenedByNow
  <2> QED BY <2>1, <2>2, <2>3 DEF Claims, Opened
<1> QED BY <1>3, <1>4
-----------------------------------------------------------------------------
(* The answers on their way to the limiter, and the requests on theirs to the service. *)

AnswerHeader(t) ==
    IF net[t].stage = "answered" THEN net[t].reply.header ELSE request[t].response_header

\* The second from which on it may be sent.
Due(t) == IF pc[t] = "wait" THEN request[t].send_time ELSE 0

\* Headers as far as the limiter's counts depend on them.
SameNews(header, header2) ==
    /\ header.app_limit = header2.app_limit
    /\ header.app_limit_count = header2.app_limit_count
    /\ header.method_limit = header2.method_limit
    /\ header.method_limit_count = header2.method_limit_count

LEMMA StagesNext ==
    ASSUME NEW t \in Threads
    PROVE  (SInv => /\ net[t].stage # "quiet" <=> pc[t] \in {"sent_first", "sent"}
                    /\ HasAnswer(t) => Client!InFlight(t)
                    /\ Pending(t) => Client!InFlight(t))'
<1>1. SInv => /\ net[t].stage # "quiet" <=> pc[t] \in {"sent_first", "sent"}
              /\ HasAnswer(t) => Client!InFlight(t)
              /\ Pending(t) => Client!InFlight(t)
  BY Stages
<1> QED BY <1>1, PTL

-----------------------------------------------------------------------------
(* Where the answers come from and go to, when the clocks agree to the tick. *)

Reliable ==
    /\ TicksPerSecond = 1
    /\ IsFiniteSet(Threads)

LEMMA Seconds == ASSUME Reliable PROVE (SInv => tick = now) /\ (SInv => tick = now)'
<1>1. TicksPerSecond = 1
  BY DEF Reliable
<1>2. SInv => tick = now
  <2> SUFFICES ASSUME SInv PROVE tick = now
    OBVIOUS
  <2>1. fraction = 0
    BY <1>1 DEF SInv
  <2> QED BY <1>1, <2>1, Clock DEF tick
<1>3. (SInv => tick = now)'
  BY <1>2, PTL
<1> QED BY <1>2, <1>3

\* What the service and the network hand over is the service's.
HeadersOfService(t) ==
    /\ net[t].stage = "answered" =>
          /\ net[t].reply.header \in RateHeader \cup RefusalHeader
          /\ net[t].reply.status # CprFailure.status
    /\ HasAnswer(t) => \A k \in Keys : LimitsIn(AnswerHeader(t), k) = LimitsOf(k)

LEMMA AnswerNames ==
    ASSUME NEW header \in RateHeader \cup RefusalHeader
    PROVE  /\ {"app_limit", "app_limit_count", "method_limit", "method_limit_count"}
                 \subseteq DOMAIN header
           /\ \A k \in Keys : LimitsIn(header, k) = LimitsOf(k)
<1>1. ASSUME NEW h \in RateHeader
      PROVE  /\ DOMAIN h = {"app_limit", "app_limit_count", "method_limit",
                            "method_limit_count"}
             /\ h.app_limit = AppLimits /\ h.method_limit = MethodLimits
  BY DEF RateHeader
<1>2. ASSUME NEW g \in RateHeader, NEW s \in 0 .. MaxWindow
      PROVE  LET h == Service!WithRetryAfter(g, s)
             IN  /\ {"app_limit", "app_limit_count", "method_limit", "method_limit_count"}
                       \subseteq DOMAIN h
                 /\ h.app_limit = AppLimits /\ h.method_limit = MethodLimits
  BY <1>1 DEF Service!WithRetryAfter
<1> QED BY <1>1, <1>2 DEF RefusalHeader, LimitsIn, LimitsOf

\* The headers a request has after an answer bring the answer's news.
LEMMA NewsArrives ==
    ASSUME NEW header \in RateHeader \cup RefusalHeader, NEW old \in Proven!AnnouncedHeader
    PROVE  SameNews(Client!Overwrite(header, old), header)
<1>1. {"app_limit", "app_limit_count", "method_limit", "method_limit_count"} \subseteq DOMAIN header
  BY AnswerNames
<1>2. {"app_limit", "app_limit_count", "method_limit", "method_limit_count"} \subseteq DOMAIN old
  BY DEF Proven!AnnouncedHeader, Proven!Limiter!RiotHeader
<1> QED BY <1>1, <1>2 DEF SameNews, Client!Overwrite

LEMMA SameNewsCounts ==
    ASSUME NEW g, NEW h, SameNews(g, h), NEW k
    PROVE  LimitsIn(g, k) = LimitsIn(h, k) /\ CountsIn(g, k) = CountsIn(h, k)
BY DEF SameNews, LimitsIn, CountsIn

\* An answer comes from the service, and is the same until the limiter gets it.
LEMMA AnswerComes ==
    ASSUME SInv, [Next]_vars, NEW t \in Threads, HeadersOfService(t), HasAnswer(t)', ~Serve(t)
    PROVE  /\ HasAnswer(t)
           /\ request'[t].route = request[t].route /\ request'[t].method = request[t].method
           /\ SameNews(AnswerHeader(t)', AnswerHeader(t))
           /\ ~ThreadStep(t)
<1>1. /\ pc \in [Threads -> Proven!Labels] /\ net \in [Threads -> Messages]
      /\ net[t].stage # "quiet" <=> pc[t] \in {"sent_first", "sent"}
      /\ pc[t] # "idle" => request[t] \in Proven!InQuery
  BY Stages
<1>2. HasAnswer(t)' =
         \/ net'[t].stage = "answered"
         \/ pc'[t] \in {"received_first", "received"}
            /\ request'[t].last_response # CprFailure.status
  BY DEF HasAnswer
<1>3. CASE Still(t)
  <2>1. /\ pc'[t] = pc[t] /\ net'[t] = net[t]
    BY <1>3 DEF Still
  <2>2. pc[t] # "idle"
    BY <1>1, <1>2, <2>1
  <2>3. /\ request'[t].route = request[t].route /\ request'[t].method = request[t].method
        /\ request'[t].last_response = request[t].last_response
        /\ request'[t].response_header = request[t].response_header
    BY <1>3, <2>2 DEF Still
  <2>4. HasAnswer(t) /\ AnswerHeader(t)' = AnswerHeader(t)
    BY <1>2, <2>1, <2>3 DEF HasAnswer, AnswerHeader
  <2>5. ~ThreadStep(t)
    <3>1. ASSUME ThreadStep(t) PROVE FALSE
      <4>1. pc'[t] \notin {"received_first", "received"} /\ pc[t] \notin {"sent_first", "sent"}
        BY <3>1, ThreadSteps
      <4> QED BY <1>1, <1>2, <2>1, <4>1
    <3> QED BY <3>1
  <2> QED BY <2>3, <2>4, <2>5 DEF SameNews
<1>4. ASSUME ThreadStep(t) PROVE FALSE
  <2>1. /\ pc'[t] \notin {"received_first", "received"} /\ net[t].stage = "quiet"
    BY <1>4, ThreadSteps
  <2>2. net'[t].stage # "answered"
    BY <1>1, <1>4, <2>1 DEF ThreadStep, Asked
  <2> QED BY <1>2, <2>1, <2>2
<1>5. CASE Deliver(t)
  <2>1. /\ net[t].stage = "answered" /\ net[t].reply.header \in RateHeader \cup RefusalHeader
        /\ net[t].reply.status # CprFailure.status
    BY <1>5 DEF Deliver, HeadersOfService
  <2>2. /\ request[t] \in Proven!InQuery /\ net'[t].stage = "quiet"
    BY <1>1, <1>5, <2>1 DEF Deliver, Quiet
  <2>3. /\ request'[t].route = request[t].route /\ request'[t].method = request[t].method
        /\ request'[t].response_header
              = Client!Overwrite(net[t].reply.header, request[t].response_header)
    <3>1. request \in [Threads -> Proven!InQuery \cup {NoRequest}]
      BY DEF SInv, Proven!CInv
    <3> QED BY <1>5, <2>1, <2>2, <3>1
            DEF Deliver, Client!Receive, CprFailure, Client!CprError, Proven!InQuery,
                Proven!Request
  <2>4. SameNews(Client!Overwrite(net[t].reply.header, request[t].response_header),
                 net[t].reply.header)
    BY <2>1, <2>2, NewsArrives DEF Proven!InQuery
  <2>5. AnswerHeader(t)' = request'[t].response_header /\ AnswerHeader(t) = net[t].reply.header
    BY <2>1, <2>2 DEF AnswerHeader
  <2>6. HasAnswer(t)
    BY <2>1 DEF HasAnswer
  <2> QED BY <1>4, <2>3, <2>4, <2>5, <2>6
<1>6. ASSUME Lose(t) PROVE FALSE
  <2>1. net'[t].stage = "quiet"
    BY <1>1, <1>6 DEF Lose, Quiet
  <2>2. request'[t].last_response = CprFailure.status
    <3>1. request \in [Threads -> Proven!InQuery \cup {NoRequest}] /\ request[t] \in Proven!InQuery
      BY <1>1, <1>6 DEF SInv, Proven!CInv, Lose
    <3> QED BY <1>6, <3>1 DEF Lose, Client!Receive, Proven!InQuery, Proven!Request
  <2> QED BY <1>2, <2>1, <2>2
<1>7. ASSUME NEW r \in Routes, NEW m \in Methods, Call(t, r, m) PROVE FALSE
  <2>1. pc'[t] = "start" /\ pc[t] = "idle" /\ net' = net
    BY <1>1, <1>7 DEF Call, Client!Query, Client!Goto
  <2> QED BY <1>1, <1>2, <2>1
<1>8. Moves(t) \/ Still(t)
  BY SomeoneMoves
<1> QED BY <1>3, <1>4, <1>5, <1>6, <1>7, <1>8 DEF Moves
LEMMA HeadersOfServiceStep ==
    ASSUME SInv, [Next]_vars, NEW t \in Threads, HeadersOfService(t)
    PROVE  HeadersOfService(t)'
<1>1. CASE Serve(t)
  <2>1. /\ request[t].route \in Routes /\ request[t].method \in Methods
        /\ net \in [Threads -> Messages]
    <3>1. pc[t] # "idle"
      BY <1>1 DEF Serve, SInv, NetworkInv
    <3> QED BY <3>1, Stages DEF Proven!InQuery, Proven!Request
  <2>2. \E reply \in AnyReply : /\ net' = [net EXCEPT ![t] = Answered(reply)]
                                /\ reply.status # CprFailure.status
    <3>1. tick \in Nat /\ used \in UsedAt(tick)
      BY Clock DEF SInv
    <3>2. /\ \A status \in Statuses :
                Service!Answer(request[t].route, request[t].method, tick, status).status
                   # CprFailure.status
          /\ Service!Refusal(request[t].route, request[t].method, tick).status
                   # CprFailure.status
      BY ServiceAssumption DEF Service!Answer, Service!Refusal, CprFailure
    <3> QED BY <1>1, <2>1, <3>1, <3>2, AnswersAreReplies DEF Serve
  <2>3. PICK reply \in AnyReply : /\ net' = [net EXCEPT ![t] = Answered(reply)]
                                  /\ reply.status # CprFailure.status
    BY <2>2
  <2>4. net'[t].stage = "answered" /\ net'[t].reply = reply
    BY <2>1, <2>3 DEF Answered
  <2>5. reply.header \in RateHeader \cup RefusalHeader
    BY <2>3 DEF AnyReply
  <2>6. AnswerHeader(t)' = reply.header
    BY <2>4 DEF AnswerHeader
  <2> QED BY <2>3, <2>4, <2>5, <2>6, AnswerNames DEF HeadersOfService
<1>2. CASE ~Serve(t)
  <2>1. net'[t].stage = "answered" => net'[t] = net[t]
    <3>1. CASE ThreadStep(t)
      BY <3>1, Stages DEF ThreadStep, Asked
    <3>2. CASE Deliver(t) \/ Lose(t)
      BY <3>2, Stages DEF Deliver, Lose, Quiet
    <3>3. ASSUME NEW r \in Routes, NEW m \in Methods, Call(t, r, m) PROVE net' = net
      BY <3>3 DEF Call
    <3>4. Still(t) => net'[t] = net[t]
      BY DEF Still
    <3> QED BY <1>2, <3>1, <3>2, <3>3, <3>4, SomeoneMoves DEF Moves
  <2>2. ASSUME HasAnswer(t)', NEW k \in Keys PROVE LimitsIn(AnswerHeader(t), k)' = LimitsOf(k)
    <3>1. HasAnswer(t) /\ SameNews(AnswerHeader(t)', AnswerHeader(t))
      BY <1>2, <2>2, AnswerComes
    <3>2. LimitsIn(AnswerHeader(t)', k) = LimitsIn(AnswerHeader(t), k)
      BY <3>1, SameNewsCounts
    <3> QED BY <3>1, <3>2 DEF HeadersOfService, LimitsIn
  <2> QED BY <2>1, <2>2 DEF HeadersOfService, LimitsIn
<1> QED BY <1>1, <1>2

LEMMA AnswerGoes ==
    ASSUME Reliable, SInv, [Next]_vars, NEW t \in Threads, HeadersOfService(t),
           HasAnswer(t), ~HasAnswer(t)', ~LosesResponse(request[t].route)
    PROVE  /\ ThreadStep(t) /\ Client!Update(t)
           /\ request[t].last_response # CprFailure.status
           /\ AnswerHeader(t) = request[t].response_header
<1>1. /\ pc \in [Threads -> Proven!Labels] /\ net \in [Threads -> Messages]
      /\ net[t].stage # "quiet" <=> pc[t] \in {"sent_first", "sent"}
      /\ pc[t] # "idle" => request[t] \in Proven!InQuery
  BY Stages
<1>2. /\ net'[t].stage # "answered"
      /\ pc'[t] \in {"received_first", "received"}
            => request'[t].last_response = CprFailure.status
  BY DEF HasAnswer
<1>3. pc[t] # "idle"
  BY <1>1 DEF HasAnswer
<1>4. ASSUME Still(t) PROVE FALSE
  <2>1. pc'[t] = pc[t] /\ net'[t] = net[t]
        /\ request'[t].last_response = request[t].last_response
    BY <1>3, <1>4 DEF Still
  <2> QED BY <1>2, <2>1 DEF HasAnswer
<1>5. CASE ThreadStep(t)
  <2>1. net[t].stage = "quiet" /\ (pc[t] \in {"received_first", "received"} => Client!Update(t))
    BY <1>5, ThreadSteps
  <2> QED BY <1>5, <2>1 DEF HasAnswer, AnswerHeader
<1>6. ASSUME Serve(t) PROVE FALSE
  BY <1>1, <1>6 DEF Serve, HasAnswer
<1>7. ASSUME Deliver(t) PROVE FALSE
  <2>1. pc'[t] \in {"received_first", "received"}
    BY <1>1, <1>7 DEF Deliver, Client!Receive, Client!Goto
  <2>2. request'[t].last_response = net[t].reply.status
    <3>1. request \in [Threads -> Proven!InQuery \cup {NoRequest}] /\ request[t] \in Proven!InQuery
      BY <1>1, <1>3 DEF SInv, Proven!CInv
    <3> QED BY <1>7, <3>1 DEF Deliver, Client!Receive, Proven!InQuery, Proven!Request
  <2> QED BY <1>2, <1>7, <2>1, <2>2 DEF Deliver, HeadersOfService
<1>8. ASSUME Lose(t) PROVE FALSE
  <2>1. net[t].stage = "answered"
    BY <1>1, <1>8 DEF Lose, HasAnswer
  <2> QED BY <1>8, <2>1 DEF LosesResponse
<1>9. ASSUME NEW r \in Routes, NEW m \in Methods, Call(t, r, m) PROVE FALSE
  BY <1>3, <1>9 DEF Call, Client!Query
<1> QED BY <1>4, <1>5, <1>6, <1>7, <1>8, <1>9, SomeoneMoves DEF Moves

\* A request is let go by the check or, before there are limits, without one; from then on
\* it is sent when it is due, and served.
LEMMA PendingComes ==
    ASSUME SInv, [Next]_vars, NEW t \in Threads, Pending(t)'
    PROVE  \/ /\ Pending(t)
              /\ request'[t].route = request[t].route /\ request'[t].method = request[t].method
              /\ Due(t)' = Due(t) \/ (Due(t)' = 0 /\ Due(t) <= now)
              /\ ~Serve(t) /\ ~Client!Update(t)
           \/ ThreadStep(t) /\ Client!CheckRateLimits(t)
           \/ ThreadStep(t) /\ Client!IsInitialized(t) /\ ~initialised
<1>1. /\ pc \in [Threads -> Proven!Labels] /\ net \in [Threads -> Messages]
      /\ net[t].stage # "quiet" <=> pc[t] \in {"sent_first", "sent"}
      /\ pc[t] # "idle" => request[t] \in Proven!InQuery
  BY Stages
<1>2. /\ Pending(t)' = (pc'[t] \in {"first", "wait"} \/ net'[t].stage = "asked")
      /\ Due(t)' = IF pc'[t] = "wait" THEN request'[t].send_time ELSE 0
  BY DEF Pending, Due
<1>3. net'[t].stage # "quiet" <=> pc'[t] \in {"sent_first", "sent"}
  <2>1. SInv'
    BY NextSInv
  <2> QED BY <2>1, StagesNext
<1>4. CASE Still(t)
  <2>1. pc'[t] = pc[t] /\ net'[t] = net[t] /\ pc[t] # "idle"
    BY <1>1, <1>2, <1>4 DEF Still
  <2>2. /\ request'[t].route = request[t].route /\ request'[t].method = request[t].method
        /\ request'[t].send_time = request[t].send_time
    BY <1>4, <2>1 DEF Still
  <2>3. Pending(t) /\ Due(t)' = Due(t)
    BY <1>2, <2>1, <2>2 DEF Pending, Due
  <2>4. ~Client!Update(t)
    <3>1. ASSUME Client!Update(t) PROVE pc'[t] \notin {"received_first", "received"}
      BY <1>1, <3>1 DEF Client!Update, Client!Goto, Client!Return
    <3> QED BY <2>1, <3>1 DEF Client!Update
  <2>5. ~Serve(t)
    <3>1. ASSUME Serve(t) PROVE net'[t].stage = "answered"
      BY <1>1, <3>1 DEF Serve, Answered
    <3> QED BY <2>1, <3>1 DEF Serve
  <2> QED BY <2>2, <2>3, <2>4, <2>5
<1>5. CASE ThreadStep(t)
  <2>1. pc'[t] \in {"first", "wait", "sent_first", "sent"}
    BY <1>1, <1>2, <1>3, <1>5
  <2>2. ~Serve(t) /\ (Client!Update(t) => pc'[t] \in {"idle", "review", "check"})
    BY <1>5, ThreadSteps DEF Serve
  <2>3. CASE Client!IsInitialized(t)
    <3>1. ~initialised
      BY <1>1, <2>1, <2>3 DEF Client!IsInitialized, Client!Goto
    <3> QED BY <1>5, <2>3, <3>1
  <2>4. CASE Client!CheckRateLimits(t)
    BY <1>5, <2>4
  <2>5. CASE Client!Poll(t)
    BY <1>1, <1>2, <2>1, <2>2, <2>5 DEF Client!Poll, Pending, Due
  <2>6. CASE Client!SendFirst(t)
    BY <1>1, <1>2, <2>1, <2>2, <2>6 DEF Client!SendFirst, Client!Goto, Pending, Due
  <2>7. CASE Client!Send(t)
    BY <1>1, <1>2, <2>1, <2>2, <2>7, Clock
       DEF Client!Send, Client!Goto, Pending, Due, Proven!InQuery, Proven!Request
  <2> QED BY <1>5, <2>1, <2>3, <2>4, <2>5, <2>6, <2>7, ThreadSteps
<1>6. ASSUME Serve(t) PROVE FALSE
  <2>1. net'[t].stage = "answered"
    BY <1>1, <1>6 DEF Serve, Answered
  <2>2. pc'[t] \in {"sent_first", "sent"}
    BY <1>1, <1>6 DEF Serve, clientVars
  <2> QED BY <1>2, <2>1, <2>2
<1>7. ASSUME Deliver(t) \/ Lose(t) PROVE FALSE
  <2>1. net'[t].stage = "quiet" /\ pc'[t] \in {"received", "received_first"}
    BY <1>1, <1>7 DEF Deliver, Lose, Client!Receive, Client!Goto, Quiet
  <2> QED BY <1>2, <2>1
<1>8. ASSUME NEW r \in Routes, NEW m \in Methods, Call(t, r, m) PROVE FALSE
  <2>1. pc'[t] = "start"
    BY <1>1, <1>8 DEF Call, Client!Query, Client!Goto
  <2> QED BY <1>2, <1>3, <2>1
<1> QED BY <1>4, <1>5, <1>6, <1>7, <1>8, SomeoneMoves DEF Moves
-----------------------------------------------------------------------------
(* The invariant. *)

\* The limiter has the service's limits, or no window at all.
LimitsHeld(r, k) ==
    /\ Known(r, k) => \A i \in DOMAIN LimitsOf(k) :
          i \in DOMAIN Heard(r, k) => Heard(r, k)[i].limit = LimitsOf(k)[i].limit
    /\ ~Known(r, k) => \A i \in DOMAIN Heard(r, k) : Heard(r, k)[i].next_reset = 0

\* An answer has the counts that are still the service's, and if it does not open the
\* window, the limiter knows its end.
AnswerTrue(t, r, k) ==
    HasAnswer(t) /\ On(request[t], r, k) =>
        \A i \in Claims(r, k) :
            /\ i \in DOMAIN CountsIn(AnswerHeader(t), k)
            /\ CountsIn(AnswerHeader(t), k)[i] = Kept(r, k)[i].count
            /\ \/ Kept(r, k)[i].count <= 1
               \/ i \notin DOMAIN Heard(r, k)
               \/ Heard(r, k)[i].next_reset <= now
               \/ Heard(r, k)[i].next_reset >= Kept(r, k)[i].ends

\* Once every answer has been given to the limiter, it knows of every request.
HeardShadows(r, k) ==
    Known(r, k) /\ (\A t \in Threads : HasAnswer(t) => ~On(request[t], r, k)) =>
        \A i \in Claims(r, k) :
            /\ i \in DOMAIN Heard(r, k)
            /\ Heard(r, k)[i].next_reset >= Kept(r, k)[i].ends
            /\ Heard(r, k)[i].count >= Kept(r, k)[i].count

\* A request that is let go will find room, unless the window is over by then.
RoomAhead(t, r, k) ==
    Pending(t) /\ On(request[t], r, k) /\ Known(r, k) =>
        \A i \in Claims(r, k) :
            Kept(r, k)[i].ends > Due(t) => Kept(r, k)[i].count < LimitsOf(k)[i].limit

RInv ==
    /\ SInv /\ RacesRecorded
    /\ \A t \in Threads : HeadersOfService(t)
    /\ \A r \in Routes, k \in Keys :
          /\ LimitsHeld(r, k) /\ HeardShadows(r, k)
          /\ \A t \in Threads : AnswerTrue(t, r, k) /\ RoomAhead(t, r, k)

LEMMA Alone ==
    ASSUME Reliable, NEW r, NEW t \in Threads, NEW u \in Threads,
           request[t].route = r, request[u].route = r
    PROVE  ~Racing(r) /\ Client!InFlight(t) /\ Client!InFlight(u) => t = u
BY TwoRace DEF Reliable

LEMMA AloneNext ==
    ASSUME Reliable, NEW r, NEW t \in Threads, NEW u \in Threads,
           request'[t].route = r, request'[u].route = r
    PROVE  ~Racing(r)' /\ Client!InFlight(t)' /\ Client!InFlight(u)' => t = u
<1>1. t # u /\ Client!InFlight(t)' /\ Client!InFlight(u)' => Racing(request[t].route)'
  BY TwoRace DEF Reliable
<1>2. Racing(request[t].route)' = Racing(r)'
  BY DEF Racing
<1> QED BY <1>1, <1>2

\* The buckets a thread shares with others are its own while there is no race.
LEMMA OwnBuckets ==
    ASSUME Reliable, SInv, [Next]_vars, NEW r \in Routes, NEW k \in Keys, ~Racing(r),
           NEW t \in Threads, Client!InFlight(t), request[t].route = r,
           ~Serve(t)
    PROVE  /\ Kept(r, k)' = Kept(r, k)
           /\ Client!Update(t) \/ Untouched(r, k) \/ Initialised(r, k)
<1>1. ASSUME NEW u \in Threads, Serve(u), On(request[u], r, k) PROVE FALSE
  <2>1. Client!InFlight(u) /\ request[u].route = r
    BY <1>1, Stages DEF Serve, Client!InFlight, On
  <2> QED BY <1>1, <2>1, Alone
<1>2. ASSUME NEW u \in Threads, Client!Update(u), On(request[u], r, k) PROVE u = t
  <2>1. Client!InFlight(u) /\ request[u].route = r
    BY <1>2 DEF Client!Update, Client!InFlight, On
  <2> QED BY <2>1, Alone
<1> QED BY <1>1, <1>2, KeptMoves, LimiterMoves

\* What is claimed of a window has been claimed before.
LEMMA ClaimsLast ==
    ASSUME SInv, RacesRecorded, [RacesNext]_racesVars, NEW r \in Routes, NEW k \in Keys,
           ~Racing(r)', ~LosesResponse(r), NEW i \in Claims(r, k)',
           Kept(r, k)'[i].ends = Kept(r, k)[i].ends
    PROVE  i \in Claims(r, k)
<1>1. raced'[r] = raced[r] /\ [Next]_vars
  BY RacesRecordedStep
<1>2. tick \in Nat /\ tick' \in Nat /\ tick <= tick'
  BY <1>1, Clock, ClocksMove
<1>3. /\ i \in DOMAIN LimitsOf(k) /\ Kept(r, k)'[i].ends > tick'
      /\ Opened(Kept(r, k)'[i], LimitsOf(k)[i]) > raced'[r]
  BY DEF Claims, Opened
<1>4. Kept(r, k)[i].ends \in Nat
  <2>1. Kept(r, k) \in BucketsAt(LimitsOf(k), tick)
    BY KeptTyped
  <2> QED BY <1>3, <2>1 DEF BucketsAt
<1>5. Opened(Kept(r, k)'[i], LimitsOf(k)[i]) = Opened(Kept(r, k)[i], LimitsOf(k)[i])
  BY DEF Opened
<1> QED BY <1>1, <1>2, <1>3, <1>4, <1>5 DEF Claims

\* A response puts the service's limits in place, and what is true of it.
LEMMA UpdateHears ==
    ASSUME Reliable, RInv, [Next]_vars, NEW t \in Threads, ThreadStep(t), Client!Update(t),
           request[t].last_response # CprFailure.status,
           NEW r \in Routes, NEW k \in Keys, On(request[t], r, k)
    PROVE  /\ k = <<>> => Known(r, k)'
           /\ \A i \in DOMAIN LimitsOf(k) :
                 /\ i \in DOMAIN Heard(r, k)'
                 /\ Heard(r, k)'[i].limit = LimitsOf(k)[i].limit
                 /\ i \in Claims(r, k) /\ Kept(r, k)[i].ends > now' =>
                       /\ Heard(r, k)'[i].next_reset >= Kept(r, k)[i].ends
                       /\ Heard(r, k)'[i].count >= Kept(r, k)[i].count
<1> DEFINE q == request[t]
           resp == Proven!ResponseOf(q)
           header == resp.response_header
           cs == CountsIn(header, k)
           retry == Proven!Rate!RetryAfterSec(resp)
<1>1. /\ SInv /\ q \in Proven!InQuery
      /\ net[t].stage = "quiet" /\ pc[t] \in {"received_first", "received"}
  BY Stages, ThreadSteps DEF RInv, Client!Update
<1>2. HasAnswer(t) /\ AnswerHeader(t) = header
  BY <1>1 DEF HasAnswer, AnswerHeader, Proven!ResponseOf
<1>3. LimitsIn(header, k) = LimitsOf(k)
  BY <1>2 DEF RInv, HeadersOfService
<1>4. resp \in Proven!AnyResponse
  BY <1>1, RepliesWellFormed, Proven!ResponseOfAny
<1>5. q.method \in Methods /\ q.route = r /\ (k = <<>> \/ k = <<q.method>>)
  BY <1>1 DEF On, Proven!InQuery, Proven!Request
<1>6. Proven!Rate!InsertRequest(r, q.method, resp)
  <2>1. Client!Limiter!InsertRequest(q.route, q.method, resp)
    BY DEF Client!Update, Client!CprError, CprFailure, Proven!ResponseOf
  <2> QED BY <1>5, <2>1, SameLimiter, Proven!SameOperations, RepliesWellFormed
<1>7. Proven!Rate!ResponsesAssumption
  BY RepliesWellFormed, Proven!ResponsesAnnounced
<1>8. /\ LimitsOf(k) \in Seq(Proven!Rate!LimitPart) /\ cs \in Seq(Int)
      /\ Proven!Rate!AnnouncesAtMost(LimitsOf(k), MaxWindow)
  <2>1. header \in Proven!Rate!RiotHeader
    BY <1>4, <1>7 DEF Proven!Rate!ResponsesAssumption, Proven!Rate!Response
  <2>2. /\ Proven!Rate!AnnouncesAtMost(header.app_limit, MaxWindow)
        /\ Proven!Rate!AnnouncesAtMost(header.method_limit, MaxWindow)
    BY <1>4, <1>7 DEF Proven!Rate!ResponsesAssumption
  <2>3. LimitsIn(header, k) \in {header.app_limit, header.method_limit}
        /\ cs \in {header.app_limit_count, header.method_limit_count}
    BY DEF LimitsIn, CountsIn
  <2> HIDE DEF header, cs
  <2> QED BY <1>3, <2>1, <2>2, <2>3 DEF Proven!Rate!RiotHeader
<1>9. retry \in 0 .. MaxWindow
  BY <1>4, <1>7, Proven!Rate!RetryAfterSecBounded, RepliesWellFormed
<1> HIDE DEF q, resp, header, cs, retry
<1>10. PICK h \in Seq(Proven!Rate!BoundedScope(now)) :
          /\ h = Heard(r, k) \/ \A i \in DOMAIN h : h[i].next_reset = 0
          /\ Heard(r, k)' = Proven!Rate!HierachySyncFromHeaders(
                               h, LimitsOf(k), cs, now, now', retry)
  <2>1. \E h \in Seq(Proven!Rate!BoundedScope(now)) :
          /\ h = Heard(r, k) \/ \A i \in DOMAIN h : h[i].next_reset = 0
          /\ Heard(r, k)' = Proven!Rate!HierachySyncFromHeaders(
                               h, LimitsIn(header, k), cs, now, now', retry)
    BY <1>1, <1>4, <1>5, <1>6, ResponseHere DEF SInv, header, cs, retry
  <2> QED BY <1>3, <2>1
<1>11. k = <<>> => Known(r, k)'
  BY <1>1, <1>4, <1>5, <1>6, ResponseHere DEF SInv
<1>12. now \in Nat /\ now' \in Nat /\ now <= now' /\ tick = now
  BY <1>1, Clock, ClocksMove, Seconds
<1>13. ASSUME NEW i \in DOMAIN LimitsOf(k), NEW e \in Nat, e <= now + LimitsOf(k)[i].duration
       PROVE  LET g == Proven!Rate!HierachySyncFromHeaders(h, LimitsOf(k), cs, now, now', retry)
              IN  /\ i \in DOMAIN g /\ g[i].limit = LimitsOf(k)[i].limit
                  /\ i \in DOMAIN cs /\ e > now'
                     /\ (cs[i] <= 1 \/ i \notin DOMAIN h \/ h[i].next_reset <= now
                            \/ h[i].next_reset >= e)
                        => g[i].next_reset >= e /\ g[i].count >= cs[i]
  <2> DEFINE lims == LimitsOf(k)
             scopes == Seq(Proven!Rate!BoundedScope(now))
  <2>1. /\ h \in scopes /\ lims \in Seq(Proven!Rate!LimitPart) /\ cs \in Seq(Int)
        /\ Proven!Rate!AnnouncesAtMost(lims, MaxWindow)
        /\ retry \in 0 .. MaxWindow
        /\ now \in Nat /\ now' \in Nat /\ now <= now'
        /\ i \in DOMAIN lims /\ e \in Nat /\ e <= now + lims[i].duration
    BY <1>8, <1>9, <1>12, <1>13
  <2> HIDE DEF lims
  <2> QED BY <1>7, <2>1, RepliesWellFormed, Proven!Rate!SyncFollows, SMTT(30) DEF lims
<1>14. ASSUME NEW i \in DOMAIN LimitsOf(k)
       PROVE  /\ i \in DOMAIN Heard(r, k)'
              /\ Heard(r, k)'[i].limit = LimitsOf(k)[i].limit
              /\ i \in Claims(r, k) /\ Kept(r, k)[i].ends > now' =>
                    /\ Heard(r, k)'[i].next_reset >= Kept(r, k)[i].ends
                    /\ Heard(r, k)'[i].count >= Kept(r, k)[i].count
  <2> DEFINE ends == Kept(r, k)[i].ends
  <2>1. ends \in Nat /\ ends <= now + LimitsOf(k)[i].duration
    <3>1. /\ Kept(r, k) \in BucketsAt(LimitsOf(k), tick)
          /\ LimitsOf(k) \in {AppLimits, MethodLimits}
      BY <1>1, KeptTyped
    <3>2. LimitsOf(k)[i].duration * TicksPerSecond = LimitsOf(k)[i].duration
      BY <3>1, Windows DEF Reliable
    <3> QED BY <1>12, <3>1, <3>2 DEF BucketsAt
  <2>2. /\ i \in DOMAIN Heard(r, k)'
        /\ Heard(r, k)'[i].limit = LimitsOf(k)[i].limit
        /\ i \in DOMAIN cs /\ ends > now'
           /\ (cs[i] <= 1 \/ i \notin DOMAIN h \/ h[i].next_reset <= now
                  \/ h[i].next_reset >= ends)
              => Heard(r, k)'[i].next_reset >= ends /\ Heard(r, k)'[i].count >= cs[i]
    <3> HIDE DEF ends
    <3> DEFINE g == Proven!Rate!HierachySyncFromHeaders(h, LimitsOf(k), cs, now, now', retry)
    <3>1. /\ i \in DOMAIN g
          /\ g[i].limit = LimitsOf(k)[i].limit
          /\ i \in DOMAIN cs /\ ends > now'
             /\ (cs[i] <= 1 \/ i \notin DOMAIN h \/ h[i].next_reset <= now
                    \/ h[i].next_reset >= ends)
                => g[i].next_reset >= ends /\ g[i].count >= cs[i]
      BY <1>13, <2>1
    <3> HIDE DEF g
    <3> QED BY <1>10, <3>1 DEF g
  <2>3. ASSUME i \in Claims(r, k)
        PROVE  /\ i \in DOMAIN cs /\ cs[i] = Kept(r, k)[i].count
               /\ \/ cs[i] <= 1 \/ i \notin DOMAIN h
                  \/ h[i].next_reset <= now \/ h[i].next_reset >= ends
    <3>1. /\ i \in DOMAIN cs /\ cs[i] = Kept(r, k)[i].count
          /\ \/ cs[i] <= 1 \/ i \notin DOMAIN Heard(r, k)
             \/ Heard(r, k)[i].next_reset <= now \/ Heard(r, k)[i].next_reset >= ends
      BY <1>2, <2>3 DEF RInv, AnswerTrue, cs
    <3>2. CASE h = Heard(r, k)
      BY <3>1, <3>2
    <3>3. CASE \A j \in DOMAIN h : h[j].next_reset = 0
      BY <1>12, <3>1, <3>3
    <3> QED BY <1>10, <3>2, <3>3
  <2> HIDE DEF ends
  <2>4. i \in Claims(r, k) /\ ends > now' =>
          Heard(r, k)'[i].next_reset >= ends /\ Heard(r, k)'[i].count >= Kept(r, k)[i].count
    BY <2>2, <2>3
  <2> QED BY <2>2, <2>4 DEF ends
<1> QED BY <1>11, <1>14
LEMMA LimitsHeldStep ==
    ASSUME Reliable, RInv, [RacesNext]_racesVars, NEW r \in Routes, NEW k \in Keys
    PROVE  LimitsHeld(r, k)'
<1>1. SInv /\ [Next]_vars /\ LimitsHeld(r, k)
  BY RacesRecordedStep DEF RInv
<1>2. CASE Untouched(r, k)
  BY <1>1, <1>2 DEF Untouched, LimitsHeld
<1>3. CASE Initialised(r, k)
  BY <1>3 DEF Initialised, LimitsHeld
<1>4. ASSUME NEW t \in Threads, ThreadStep(t), Client!Update(t), On(request[t], r, k),
             request[t].last_response # CprFailure.status
      PROVE  LimitsHeld(r, k)'
  <2>1. /\ k = <<>> => Known(r, k)'
        /\ \A i \in DOMAIN LimitsOf(k) : Heard(r, k)'[i].limit = LimitsOf(k)[i].limit
    BY <1>1, <1>4, UpdateHears
  <2>2. k # <<>> /\ ~Known(r, k)' => Heard(r, k)' = <<>>
    BY DEF Known, Heard
  <2> QED BY <2>1, <2>2 DEF LimitsHeld
<1> QED BY <1>1, <1>2, <1>3, <1>4, LimiterMoves

LEMMA AnswerTrueStep ==
    ASSUME Reliable, RInv, [RacesNext]_racesVars, NEW r \in Routes, NEW k \in Keys,
           NEW t \in Threads
    PROVE  AnswerTrue(t, r, k)'
<1>1. /\ SInv /\ RacesRecorded /\ [Next]_vars /\ SInv'
      /\ HeadersOfService(t) /\ AnswerTrue(t, r, k)
  BY RacesRecordedStep, NextSInv DEF RInv
<1>2. CASE Racing(r) \/ Racing(r)' \/ LosesResponse(r)
  <2>1. Claims(r, k)' = {}
    BY <1>1, <1>2, NoClaims
  <2> QED BY <2>1 DEF AnswerTrue
<1>3. ASSUME ~Racing(r), ~Racing(r)', ~LosesResponse(r), HasAnswer(t)', On(request[t], r, k)',
             NEW i \in Claims(r, k)'
      PROVE  /\ i \in DOMAIN CountsIn(AnswerHeader(t), k)'
             /\ CountsIn(AnswerHeader(t), k)'[i] = Kept(r, k)'[i].count
             /\ \/ Kept(r, k)'[i].count <= 1
                \/ i \notin DOMAIN Heard(r, k)'
                \/ Heard(r, k)'[i].next_reset <= now'
                \/ Heard(r, k)'[i].next_reset >= Kept(r, k)'[i].ends
  <2>1. tick = now /\ tick' = now' /\ now \in Nat /\ now' \in Nat /\ now <= now'
    BY <1>1, Clock, ClocksMove, Seconds
  <2>2. i \in DOMAIN LimitsOf(k) /\ Kept(r, k)'[i].ends > tick'
    BY DEF Claims
  <2>3. CASE Serve(t)
    <3>1. /\ UNCHANGED <<now, counts, request, pc>> /\ net[t].stage = "asked"
          /\ pc[t] \in {"sent_first", "sent"}
      BY <1>1, <2>3, Stages DEF Serve, clientVars
    <3>2. On(request[t], r, k) /\ Client!InFlight(t) /\ ~HasAnswer(t)
      BY <1>3, <3>1 DEF On, Client!InFlight, HasAnswer
    <3>3. /\ net'[t].stage = "answered"
          /\ i \in DOMAIN CountsIn(net'[t].reply.header, k)
          /\ CountsIn(net'[t].reply.header, k)[i] = Kept(r, k)'[i].count
          /\ \/ Kept(r, k)'[i].ends = Kept(r, k)[i].ends
             \/ Kept(r, k)'[i].count = 1
      BY <1>1, <2>1, <2>2, <2>3, <3>1, <3>2, ServeTells
    <3>4. CountsIn(AnswerHeader(t), k)' = CountsIn(net'[t].reply.header, k)
      BY <3>3 DEF AnswerHeader, CountsIn
    <3>5. Heard(r, k)' = Heard(r, k) /\ now' = now
      BY <3>1 DEF Heard
    <3>6. ASSUME Kept(r, k)'[i].ends = Kept(r, k)[i].ends, i \in DOMAIN Heard(r, k)
          PROVE  Heard(r, k)[i].next_reset <= now
                 \/ Heard(r, k)[i].next_reset >= Kept(r, k)'[i].ends
      <4>1. CASE ~Known(r, k)
        BY <2>1, <3>6, <4>1 DEF RInv, LimitsHeld
      <4>2. CASE Known(r, k)
        <5>1. ASSUME NEW u \in Threads, HasAnswer(u), On(request[u], r, k) PROVE FALSE
          <6>1. Client!InFlight(u) /\ request[u].route = r /\ request[t].route = r
            BY <1>1, <3>2, <5>1, Stages DEF On
          <6> QED BY <1>3, <3>2, <5>1, <6>1, Alone
        <5>2. i \in Claims(r, k)
          BY <1>1, <1>3, <3>6, ClaimsLast
        <5> QED BY <3>6, <4>2, <5>1, <5>2 DEF RInv, HeardShadows
      <4> QED BY <4>1, <4>2
    <3> QED BY <3>3, <3>4, <3>5, <3>6
  <2>4. CASE ~Serve(t)
    <3>1. /\ HasAnswer(t) /\ Client!InFlight(t) /\ ~ThreadStep(t)
          /\ request'[t].route = request[t].route /\ request'[t].method = request[t].method
          /\ SameNews(AnswerHeader(t)', AnswerHeader(t))
      BY <1>1, <1>3, <2>4, AnswerComes, Stages
    <3>2. On(request[t], r, k) /\ request[t].route = r
      BY <1>3, <3>1 DEF On
    <3>3. CountsIn(AnswerHeader(t), k)' = CountsIn(AnswerHeader(t), k)
      <4>1. CountsIn(AnswerHeader(t)', k) = CountsIn(AnswerHeader(t), k)
        BY <3>1, SameNewsCounts
      <4> QED BY <4>1 DEF CountsIn
    <3>4. Kept(r, k)' = Kept(r, k)
      BY <1>1, <1>3, <2>4, <3>1, <3>2, OwnBuckets
    <3>5. i \in Claims(r, k)
      BY <1>1, <1>3, <3>4, ClaimsLast
    <3>6. /\ i \in DOMAIN CountsIn(AnswerHeader(t), k)
          /\ CountsIn(AnswerHeader(t), k)[i] = Kept(r, k)[i].count
          /\ \/ Kept(r, k)[i].count <= 1
             \/ i \notin DOMAIN Heard(r, k)
             \/ Heard(r, k)[i].next_reset <= now
             \/ Heard(r, k)[i].next_reset >= Kept(r, k)[i].ends
      BY <1>1, <3>1, <3>2, <3>5 DEF AnswerTrue
    <3>7. Untouched(r, k) \/ Initialised(r, k)
      <4>1. ASSUME NEW u \in Threads, ThreadStep(u), Client!Update(u), On(request[u], r, k)
            PROVE  FALSE
        <5>1. Client!InFlight(u) /\ request[u].route = r
          BY <4>1 DEF Client!Update, Client!InFlight, On
        <5> QED BY <1>3, <3>1, <3>2, <4>1, <5>1, Alone
      <4> QED BY <1>1, <4>1, LimiterMoves
    <3>8. \A j \in DOMAIN Heard(r, k) : Heard(r, k)[j].next_reset \in Nat
      BY <1>1, HeardTyped DEF SInv, Proven!Rate!BoundedScope, Proven!Rate!Scope
    <3>9. CASE Untouched(r, k)
      BY <2>1, <3>3, <3>4, <3>6, <3>8, <3>9 DEF Untouched
    <3>10. CASE Initialised(r, k)
      BY <2>1, <3>3, <3>4, <3>6, <3>10 DEF Initialised
    <3> QED BY <3>7, <3>9, <3>10
  <2> QED BY <2>3, <2>4
<1> QED BY <1>2, <1>3 DEF AnswerTrue
LEMMA HeardShadowsStep ==
    ASSUME Reliable, RInv, [RacesNext]_racesVars, NEW r \in Routes, NEW k \in Keys
    PROVE  HeardShadows(r, k)'
<1>1. SInv /\ RacesRecorded /\ [Next]_vars /\ SInv' /\ HeardShadows(r, k)
  BY RacesRecordedStep, NextSInv DEF RInv
<1>2. CASE Racing(r) \/ Racing(r)' \/ LosesResponse(r)
  <2>1. Claims(r, k)' = {}
    BY <1>1, <1>2, NoClaims
  <2> QED BY <2>1 DEF HeardShadows
<1>3. ASSUME ~Racing(r), ~Racing(r)', ~LosesResponse(r), Known(r, k)',
             \A t \in Threads : HasAnswer(t)' => ~On(request[t], r, k)',
             NEW i \in Claims(r, k)'
      PROVE  /\ i \in DOMAIN Heard(r, k)'
             /\ Heard(r, k)'[i].next_reset >= Kept(r, k)'[i].ends
             /\ Heard(r, k)'[i].count >= Kept(r, k)'[i].count
  <2>1. tick = now /\ tick' = now' /\ now \in Nat /\ now' \in Nat /\ now <= now'
    BY <1>1, Clock, ClocksMove, Seconds
  <2>2. i \in DOMAIN LimitsOf(k) /\ Kept(r, k)'[i].ends > tick'
    BY DEF Claims
  <2>3. Kept(r, k)' = Kept(r, k)
    <3>1. ASSUME NEW t \in Threads, Serve(t), On(request[t], r, k) PROVE FALSE
      <4>1. net'[t].stage = "answered"
        BY <1>1, <3>1, ServeTells
      <4>2. On(request[t], r, k)'
        BY <3>1 DEF Serve, clientVars, On
      <4> QED BY <1>3, <4>1, <4>2 DEF HasAnswer
    <3> QED BY <1>1, <3>1, KeptMoves
  <2>4. i \in Claims(r, k)
    BY <1>1, <1>3, <2>3, ClaimsLast
  <2>5. ASSUME NEW t \in Threads, ThreadStep(t), Client!Update(t), On(request[t], r, k),
               request[t].last_response # CprFailure.status
        PROVE  /\ i \in DOMAIN Heard(r, k)'
               /\ Heard(r, k)'[i].next_reset >= Kept(r, k)'[i].ends
               /\ Heard(r, k)'[i].count >= Kept(r, k)'[i].count
    BY <1>1, <2>1, <2>2, <2>3, <2>4, <2>5, UpdateHears
  <2>6. CASE \A t \in Threads :
                ~(/\ ThreadStep(t) /\ Client!Update(t) /\ On(request[t], r, k)
                  /\ request[t].last_response # CprFailure.status)
    <3>1. Untouched(r, k)
      <4>1. ~Initialised(r, k)
        BY <1>3 DEF Initialised
      <4> QED BY <1>1, <2>6, <4>1, LimiterMoves
    <3>2. ASSUME NEW t \in Threads, HasAnswer(t), On(request[t], r, k) PROVE FALSE
      <4>1. HeadersOfService(t)
        BY DEF RInv
      <4>2. HasAnswer(t)'
        BY <1>1, <1>3, <2>6, <3>2, <4>1, AnswerGoes DEF On
      <4>3. ~Serve(t)
        BY <1>1, <3>2, Stages DEF Serve, HasAnswer
      <4>4. request'[t].route = request[t].route /\ request'[t].method = request[t].method
        BY <1>1, <4>1, <4>2, <4>3, AnswerComes
      <4>5. On(request[t], r, k)'
        BY <3>2, <4>4 DEF On
      <4> QED BY <1>3, <4>2, <4>5
    <3>3. /\ i \in DOMAIN Heard(r, k)
          /\ Heard(r, k)[i].next_reset >= Kept(r, k)[i].ends
          /\ Heard(r, k)[i].count >= Kept(r, k)[i].count
      BY <1>1, <1>3, <2>4, <3>1, <3>2 DEF HeardShadows, Untouched
    <3>4. /\ Heard(r, k)[i].next_reset \in Nat /\ Kept(r, k)[i].ends \in Nat
      <4>1. Heard(r, k)[i].next_reset \in Nat
        BY <1>1, <3>3, HeardTyped DEF SInv, Proven!Rate!BoundedScope, Proven!Rate!Scope
      <4>2. Kept(r, k) \in BucketsAt(LimitsOf(k), tick)
        BY <1>1, KeptTyped
      <4> QED BY <2>2, <4>1, <4>2 DEF BucketsAt
    <3> QED BY <2>1, <2>2, <2>3, <3>1, <3>3, <3>4 DEF Untouched
  <2> QED BY <2>5, <2>6
<1> QED BY <1>2, <1>3 DEF HeardShadows

\* Before the first response nothing is known.
LEMMA NothingKnown ==
    ASSUME SInv, ~initialised, NEW r \in Routes, NEW k \in Keys
    PROVE  ~Known(r, k)
<1>1. counts[r] = Proven!Rate!NewRegion
  BY DEF SInv, Proven!CInv, Proven!Rate!GInv, Proven!Rate!Pristine
<1>2. ASSUME NEW m \in Methods, k = <<m>> PROVE Known(r, k) = (counts[r].methods[m] # <<>>)
  BY <1>2 DEF Known
<1> QED BY <1>1, <1>2 DEF Keys, Known, Proven!Rate!NewRegion

\* The check makes a request wait for every full bucket it is to be counted in.
LEMMA CheckWaits ==
    ASSUME SInv, [Next]_vars, NEW t \in Threads, Client!CheckRateLimits(t), initialised,
           NEW r \in Routes, NEW k \in Keys, On(request[t], r, k),
           NEW i \in DOMAIN Heard(r, k),
           Heard(r, k)[i].count >= Heard(r, k)[i].limit, Heard(r, k)[i].next_reset > now
    PROVE  request'[t].send_time >= Heard(r, k)[i].next_reset
<1> DEFINE m == request[t].method
<1>1. request[t] \in Proven!InQuery /\ request \in [Threads -> Proven!InQuery \cup {NoRequest}]
  BY DEF SInv, Proven!CInv, Client!CheckRateLimits
<1>2. request[t].route = r /\ m \in Methods /\ (k = <<>> \/ k = <<m>>)
  BY <1>1 DEF On, Proven!InQuery, Proven!Request
<1>3. now \in Nat /\ now' \in Nat /\ now <= now'
  BY Clock, ClocksMove
<1>4. Proven!Rate!ResponsesAssumption
  BY RepliesWellFormed, Proven!ResponsesAnnounced
<1>5. ASSUME NEW h \in Seq(Proven!Rate!BoundedScope(now))
      PROVE  /\ Proven!Rate!HierachyWaitTime(h, now) \in Nat
             /\ \A j \in DOMAIN h :
                   h[j].count >= h[j].limit /\ h[j].next_reset > now =>
                      Proven!Rate!HierachyWaitTime(h, now) >= h[j].next_reset - now
  <2>1. /\ Proven!Rate!HierachyWaitTime(h, now) \in Nat
        /\ \A j \in DOMAIN h : Proven!Rate!HierachyWaitTime(h, now)
                                  >= Proven!Rate!ScopeWaitTime(h[j], now)
    BY <1>3, <1>4, RepliesWellFormed, Proven!Rate!HierachyWaitGreatest
  <2>2. ASSUME NEW j \in DOMAIN h, h[j].count >= h[j].limit, h[j].next_reset > now
        PROVE  Proven!Rate!ScopeWaitTime(h[j], now) = h[j].next_reset - now
    <3>1. h[j].next_reset \in Nat
      BY DEF Proven!Rate!BoundedScope, Proven!Rate!Scope
    <3> QED BY <1>3, <2>2, <3>1 DEF Proven!Rate!ScopeWaitTime, Proven!Rate!Expired
  <2> QED BY <2>1, <2>2
<1>6. PICK app, method :
         /\ app = Proven!Rate!HierachyWaitTime(counts[r].app, now)
         /\ method = Proven!Rate!HierachyWaitTime(counts[r].methods[m], now)
  OBVIOUS
<1>7. /\ counts[r].app \in Seq(Proven!Rate!BoundedScope(now))
      /\ counts[r].methods[m] \in Seq(Proven!Rate!BoundedScope(now))
  BY <1>2, HeardTyped DEF SInv, Proven!Rate!BoundedRegion
<1>8. app \in Nat /\ method \in Nat
      /\ \/ k = <<>> /\ app >= Heard(r, k)[i].next_reset - now
         \/ k = <<m>> /\ method >= Heard(r, k)[i].next_reset - now
  <2>1. app \in Nat /\ method \in Nat
    BY <1>5, <1>6, <1>7
  <2>2. CASE k = <<>>
    <3>1. Heard(r, k) = counts[r].app
      BY <2>2 DEF Heard
    <3> QED BY <1>5, <1>6, <1>7, <2>1, <2>2, <3>1
  <2>3. CASE k = <<m>>
    <3>1. Heard(r, k) = counts[r].methods[m]
      <4>1. k # <<>> /\ k[1] = m
        BY <2>3
      <4> QED BY <4>1 DEF Heard
    <3> QED BY <1>5, <1>6, <1>7, <2>1, <2>3, <3>1
  <2> QED BY <1>2, <2>2, <2>3
<1>9. Proven!Rate!WaitTime(r, m, now) = IF app >= method THEN app ELSE method
  BY <1>6 DEF Proven!Rate!WaitTime, Proven!Rate!RegionWaitTime, Proven!Rate!Larger
<1>10. request'[t].send_time = IF Proven!Rate!WaitTime(r, m, now) = 0 THEN 0
                               ELSE now' + Proven!Rate!WaitTime(r, m, now)
  <2>1. request'[t].send_time = Client!Limiter!SendTime(r, m, request[t].send_time)
    BY <1>1, <1>2 DEF Client!CheckRateLimits, Proven!InQuery, Proven!Request
  <2>2. Proven!Limiter!WaitTime(r, m, now) = Proven!Rate!WaitTime(r, m, now)
    BY RepliesWellFormed, Proven!SameWait
  <2> QED BY <2>1, <2>2, SameLimiter DEF Proven!Limiter!SendTime
<1>11. Heard(r, k)[i].next_reset \in Nat
  BY HeardTyped DEF SInv, Proven!Rate!BoundedScope, Proven!Rate!Scope
<1> HIDE DEF m
<1> QED BY <1>3, <1>8, <1>9, <1>10, <1>11
LEMMA RoomAheadStep ==
    ASSUME Reliable, RInv, [RacesNext]_racesVars, NEW r \in Routes, NEW k \in Keys,
           NEW t \in Threads
    PROVE  RoomAhead(t, r, k)'
<1>1. /\ SInv /\ RacesRecorded /\ [Next]_vars /\ SInv'
      /\ HeardShadows(r, k) /\ LimitsHeld(r, k) /\ RoomAhead(t, r, k)
  BY RacesRecordedStep, NextSInv DEF RInv
<1>2. CASE Racing(r) \/ Racing(r)' \/ LosesResponse(r)
  <2>1. Claims(r, k)' = {}
    BY <1>1, <1>2, NoClaims
  <2> QED BY <2>1 DEF RoomAhead
<1>3. ASSUME ~Racing(r), ~Racing(r)', ~LosesResponse(r), Pending(t)', On(request[t], r, k)', Known(r, k)',
             NEW i \in Claims(r, k)', Kept(r, k)'[i].ends > Due(t)'
      PROVE  Kept(r, k)'[i].count < LimitsOf(k)[i].limit
  <2>1. tick = now /\ tick' = now' /\ now \in Nat /\ now' \in Nat /\ now <= now'
    BY <1>1, Clock, ClocksMove, Seconds
  <2>2. /\ i \in DOMAIN LimitsOf(k) /\ Kept(r, k)'[i].ends > tick'
        /\ LimitsOf(k) \in {AppLimits, MethodLimits}
        /\ request'[t].route = r /\ Client!InFlight(t)'
    BY <1>1, <1>3, KeptTyped, StagesNext DEF Claims, On
  <2>3. ~Initialised(r, k)
    BY <1>3 DEF Initialised
  <2>4. CASE /\ Pending(t)
             /\ request'[t].route = request[t].route /\ request'[t].method = request[t].method
             /\ Due(t)' = Due(t) \/ (Due(t)' = 0 /\ Due(t) <= now)
             /\ ~Serve(t) /\ ~Client!Update(t)
    <3>1. On(request[t], r, k) /\ request[t].route = r /\ Client!InFlight(t)
      BY <1>1, <1>3, <2>4, Stages DEF On
    <3>2. Kept(r, k)' = Kept(r, k) /\ Untouched(r, k)
      BY <1>1, <1>3, <2>3, <2>4, <3>1, OwnBuckets
    <3>3. i \in Claims(r, k) /\ Known(r, k)
      BY <1>1, <1>3, <3>2, ClaimsLast DEF Untouched
    <3>4. Kept(r, k)[i].ends \in Nat
      <4>1. Kept(r, k) \in BucketsAt(LimitsOf(k), tick)
        BY <1>1, KeptTyped
      <4> QED BY <2>2, <4>1 DEF BucketsAt
    <3>5. Kept(r, k)[i].ends > Due(t)
      <4>1. CASE Due(t)' = Due(t)
        BY <1>3, <3>2, <4>1
      <4>2. CASE Due(t) <= now
        <5>1. Due(t) \in Nat
          <6>1. pc[t] = "wait" => request[t].send_time \in Nat
            BY <1>1, Stages DEF Proven!InQuery, Proven!Request
          <6> QED BY <6>1 DEF Due
        <5> QED BY <2>1, <2>2, <3>2, <3>4, <4>2, <5>1
      <4> QED BY <2>4, <4>1, <4>2
    <3> QED BY <1>1, <2>4, <3>1, <3>2, <3>3, <3>5 DEF RoomAhead
  <2>5. CASE ThreadStep(t) /\ Client!CheckRateLimits(t)
    <3>1. /\ pc[t] = "check" /\ request[t] \in Proven!InQuery /\ ~Client!Update(t) /\ ~Serve(t)
          /\ net[t].stage = "quiet"
      BY <1>1, <2>5, Stages, ThreadSteps DEF Client!CheckRateLimits, Client!Update, Serve
    <3>2. /\ request'[t].route = request[t].route /\ request'[t].method = request[t].method
          /\ pc'[t] = "wait"
      <4>1. /\ request \in [Threads -> Proven!InQuery \cup {NoRequest}]
            /\ pc \in [Threads -> Proven!Labels]
        BY <1>1 DEF SInv, Proven!CInv
      <4> QED BY <2>5, <3>1, <4>1
              DEF Client!CheckRateLimits, Client!Goto, Proven!InQuery, Proven!Request
    <3>3. On(request[t], r, k)
      BY <1>3, <3>2 DEF On
    <3>4. ASSUME NEW u \in Threads \ {t}, Client!InFlight(u), request[u].route = r PROVE FALSE
      <4>1. Still(u)
        BY <1>1, <2>5, OthersStill DEF Moves
      <4>2. pc[u] # "idle" /\ pc'[u] = pc[u] /\ request'[u].route = r
        BY <3>4, <4>1 DEF Still, Client!InFlight
      <4>3. Client!InFlight(u)'
        BY <3>4, <4>2 DEF Client!InFlight
      <4> QED BY <1>3, <2>2, <4>2, <4>3, AloneNext
    <3>5. ASSUME NEW u \in Threads, HasAnswer(u), On(request[u], r, k) PROVE FALSE
      <4>1. Client!InFlight(u) /\ request[u].route = r
        BY <1>1, <3>5, Stages DEF On
      <4>2. ~HasAnswer(t)
        BY <3>1 DEF HasAnswer
      <4> QED BY <3>4, <3>5, <4>1, <4>2
    <3>6. Kept(r, k)' = Kept(r, k)
      BY <2>5 DEF ThreadStep, Kept
    <3>7. Untouched(r, k)
      <4>1. ASSUME NEW u \in Threads, Client!Update(u), On(request[u], r, k) PROVE FALSE
        <5>1. Client!InFlight(u) /\ request[u].route = r
          BY <4>1 DEF Client!Update, Client!InFlight, On
        <5> QED BY <3>1, <3>4, <4>1, <5>1
      <4> QED BY <1>1, <2>3, <4>1, LimiterMoves
    <3>8. i \in Claims(r, k) /\ Known(r, k)
      BY <1>1, <1>3, <3>6, <3>7, ClaimsLast DEF Untouched
    <3>9. /\ i \in DOMAIN Heard(r, k)
          /\ Heard(r, k)[i].next_reset >= Kept(r, k)[i].ends
          /\ Heard(r, k)[i].count >= Kept(r, k)[i].count
          /\ Heard(r, k)[i].limit = LimitsOf(k)[i].limit
      BY <1>1, <2>2, <3>5, <3>8 DEF HeardShadows, LimitsHeld
    <3>10. /\ Heard(r, k)[i].next_reset \in Nat /\ Heard(r, k)[i].count \in Int
           /\ Kept(r, k)[i].ends \in Nat /\ Kept(r, k)[i].count \in Nat
           /\ LimitsOf(k)[i].limit \in Nat
      <4>1. Heard(r, k)[i].next_reset \in Nat /\ Heard(r, k)[i].count \in Int
        BY <1>1, <3>9, HeardTyped DEF SInv, Proven!Rate!BoundedScope, Proven!Rate!Scope
      <4>2. Kept(r, k) \in BucketsAt(LimitsOf(k), tick)
        BY <1>1, KeptTyped
      <4>3. LimitsOf(k)[i].limit \in Nat
        BY <2>2, Windows
      <4> QED BY <2>2, <4>1, <4>2, <4>3 DEF BucketsAt
    <3>11. Due(t)' = request'[t].send_time
      BY <3>2 DEF Due
    <3>12. ASSUME Kept(r, k)[i].count >= LimitsOf(k)[i].limit PROVE FALSE
      <4>1. initialised
        <5>1. initialised \in BOOLEAN
          BY <1>1 DEF SInv, Proven!CInv, Proven!Rate!GInv, Proven!Rate!IInv
        <5> QED BY <1>1, <3>8, <5>1, NothingKnown
      <4>2. Heard(r, k)[i].count >= Heard(r, k)[i].limit /\ Heard(r, k)[i].next_reset > now
        BY <2>1, <2>2, <3>6, <3>9, <3>10, <3>12
      <4>3. request'[t].send_time >= Heard(r, k)[i].next_reset
        BY <1>1, <2>5, <3>3, <3>9, <4>1, <4>2, CheckWaits
      <4>4. request'[t].send_time \in Nat
        <5>1. (pc[t] # "idle" => request[t] \in Proven!InQuery)'
          BY <1>1 DEF SInv, Proven!CInv
        <5> QED BY <3>2, <5>1 DEF Proven!InQuery, Proven!Request
      <4> QED BY <1>3, <3>6, <3>9, <3>10, <3>11, <4>3, <4>4
    <3> QED BY <3>6, <3>10, <3>12
  <2>6. CASE ThreadStep(t) /\ Client!IsInitialized(t) /\ ~initialised
    <3>1. Known(r, k)' = Known(r, k)
      BY <2>6 DEF Client!IsInitialized, Client!limiter, Known
    <3> QED BY <1>1, <1>3, <2>6, <3>1, NothingKnown
  <2> QED BY <1>1, <1>3, <2>4, <2>5, <2>6, PendingComes
<1> QED BY <1>2, <1>3 DEF RoomAhead

LEMMA InitRInv == RacesInit => RInv
<1> SUFFICES ASSUME RacesInit PROVE RInv
  OBVIOUS
<1>1. SInv /\ ~initialised
  BY InitSInv DEF RacesInit, Init, Client!Init, Client!Limiter!Init
<1>2. ASSUME NEW t \in Threads PROVE pc[t] = "idle" /\ net[t].stage = "quiet"
  <2>1. net = [u \in Threads |-> Quiet] /\ pc = [u \in Threads |-> "idle"]
    BY DEF RacesInit, Init, Client!Init
  <2>2. Quiet.stage = "quiet"
    BY DEF Quiet
  <2> QED BY <2>1, <2>2
<1>3. ASSUME NEW t \in Threads PROVE ~HasAnswer(t) /\ ~Pending(t)
  BY <1>2 DEF HasAnswer, Pending
<1>4. RacesRecorded
  <2>1. ASSUME NEW r \in Routes PROVE ~Racing(r)
    <3>1. {t \in Threads : Client!InFlight(t) /\ request[t].route = r} = {}
      BY <1>2 DEF Client!InFlight
    <3> QED BY <3>1, FS_EmptySet DEF Racing
  <2>2. tick \in Nat
    BY <1>1, Clock
  <2> QED BY <2>1, <2>2 DEF RacesInit, RacesRecorded, Never
<1>5. ASSUME NEW r \in Routes, NEW k \in Keys PROVE LimitsHeld(r, k) /\ ~Known(r, k)
  <2>1. ~Known(r, k)
    BY <1>1, NothingKnown
  <2>2. counts[r] = Proven!Rate!NewRegion
    BY <1>1 DEF SInv, Proven!CInv, Proven!Rate!GInv, Proven!Rate!Pristine
  <2>3. CASE k = <<>>
    BY <2>1, <2>2, <2>3
       DEF LimitsHeld, Heard, Proven!Rate!NewRegion, Proven!Rate!NewScope
  <2>4. CASE k # <<>>
    <3>1. Heard(r, k) = <<>>
      BY <2>1, <2>4 DEF Heard, Known
    <3> QED BY <2>1, <3>1 DEF LimitsHeld
  <2> QED BY <2>1, <2>3, <2>4
<1> QED BY <1>1, <1>2, <1>3, <1>4, <1>5
        DEF RInv, HeadersOfService, HeardShadows, AnswerTrue, RoomAhead

LEMMA NextRInv == ASSUME Reliable PROVE RInv /\ [RacesNext]_racesVars => RInv'
<1> SUFFICES ASSUME RInv, [RacesNext]_racesVars PROVE RInv'
  OBVIOUS
<1>1. SInv /\ RacesRecorded
  BY DEF RInv
<1>2. SInv' /\ RacesRecorded' /\ [Next]_vars
  BY <1>1, RacesRecordedStep, NextSInv
<1>3. ASSUME NEW t \in Threads PROVE HeadersOfService(t)'
  BY <1>1, <1>2, HeadersOfServiceStep DEF RInv
<1>4. ASSUME NEW r \in Routes, NEW k \in Keys
      PROVE  /\ LimitsHeld(r, k)' /\ HeardShadows(r, k)'
             /\ \A t \in Threads : AnswerTrue(t, r, k)' /\ RoomAhead(t, r, k)'
  BY LimitsHeldStep, HeardShadowsStep, AnswerTrueStep, RoomAheadStep
<1> QED BY <1>2, <1>3, <1>4 DEF RInv, Keys

LEMMA SpecRInv == ASSUME Reliable PROVE RacesSpec => []RInv
BY InitRInv, NextRInv, PTL DEF RacesSpec
-----------------------------------------------------------------------------
(* What follows. *)

\* Between races the limiter has at least the counts and the ends of the service's
\* running windows, whatever requests have done to each other, and whatever responses were
\* lost, in windows before: for any number of threads, routes, methods, limits and windows,
\* when the service counts in whole seconds (TicksPerSecond = 1).
THEOREM RacesLeaveNoTrace ==
    ASSUME TicksPerSecond = 1, IsFiniteSet(Threads)
    PROVE  RacesSpec => []ShadowsUnraced
<1>1. Reliable
  BY DEF Reliable
<1>2. RInv => ShadowsUnraced
  <2> SUFFICES ASSUME RInv PROVE ShadowsUnraced
    OBVIOUS
  <2>1. SInv /\ tick = now
    BY <1>1, Seconds DEF RInv
  <2>2. ASSUME NEW r \in Routes, \A t \in Threads : Unheard(t) => request[t].route # r,
               NEW k \in Keys, Known(r, k)
        PROVE  Shadows(Heard(r, k), Kept(r, k), Unraced(r, Kept(r, k), LimitsOf(k)))
    <3>1. ASSUME NEW t \in Threads, HasAnswer(t), On(request[t], r, k) PROVE FALSE
      <4>1. Unheard(t)
        BY <2>1, <3>1, Stages DEF HasAnswer, Unheard
      <4> QED BY <2>2, <3>1, <4>1 DEF On
    <3>2. DOMAIN Kept(r, k) = DOMAIN LimitsOf(k)
      BY <2>1, KeptTyped DEF BucketsAt
    <3>3. ASSUME NEW i \in Unraced(r, Kept(r, k), LimitsOf(k)), Kept(r, k)[i].ends > tick
          PROVE  /\ i \in DOMAIN Heard(r, k)
                 /\ Heard(r, k)[i].next_reset >= Kept(r, k)[i].ends
                 /\ Heard(r, k)[i].count >= Kept(r, k)[i].count
      <4>1. i \in Claims(r, k)
        BY <3>2, <3>3 DEF Unraced, Claims
      <4> QED BY <2>2, <3>1, <4>1 DEF RInv, HeardShadows
    <3>4. ASSUME NEW i \in DOMAIN Heard(r, k)
          PROVE  Heard(r, k)[i].next_reset * TicksPerSecond = Heard(r, k)[i].next_reset
      <4>1. Heard(r, k)[i].next_reset \in Nat
        BY <2>1, HeardTyped DEF SInv, Proven!Rate!BoundedScope, Proven!Rate!Scope
      <4> QED BY <4>1
    <3> QED BY <3>3, <3>4 DEF Shadows
  <2>3. ASSUME NEW r \in Routes, \A t \in Threads : Unheard(t) => request[t].route # r
        PROVE  /\ counts[r].active =>
                    Shadows(counts[r].app, used[r].app, Unraced(r, used[r].app, AppLimits))
               /\ \A m \in Methods :
                     counts[r].methods[m] # <<>> =>
                        Shadows(counts[r].methods[m], used[r].methods[m],
                                Unraced(r, used[r].methods[m], MethodLimits))
    <3>1. counts[r].active =>
             Shadows(counts[r].app, used[r].app, Unraced(r, used[r].app, AppLimits))
      <4> DEFINE k == <<>>
      <4>1. k \in Keys /\ Heard(r, k) = counts[r].app /\ Kept(r, k) = used[r].app
            /\ LimitsOf(k) = AppLimits /\ Known(r, k) = counts[r].active
        BY DEF Keys, Heard, Kept, LimitsOf, Known
      <4> HIDE DEF k
      <4> QED BY <2>2, <2>3, <4>1
    <3>2. ASSUME NEW m \in Methods, counts[r].methods[m] # <<>>
          PROVE  Shadows(counts[r].methods[m], used[r].methods[m],
                         Unraced(r, used[r].methods[m], MethodLimits))
      <4> DEFINE k == <<m>>
      <4>1. k \in Keys /\ Heard(r, k) = counts[r].methods[m]
            /\ Kept(r, k) = used[r].methods[m]
            /\ LimitsOf(k) = MethodLimits /\ Known(r, k) = (counts[r].methods[m] # <<>>)
        BY DEF Keys, Heard, Kept, LimitsOf, Known
      <4> HIDE DEF k
      <4> QED BY <2>2, <2>3, <3>2, <4>1
    <3> QED BY <3>1, <3>2
  <2> QED BY <2>3 DEF ShadowsUnraced
<1> QED BY <1>1, <1>2, SpecRInv, PTL

\* Only the service refuses, and counts nothing then.
LEMMA RefusalSteps ==
    ASSUME SInv, [Next]_vars, NEW t \in Threads, Refuses(t)
    PROVE  /\ Serve(t) /\ ~Service!HasRoom(request[t].route, request[t].method, tick)
           /\ UNCHANGED <<used, counts>>
           /\ Pending(t) /\ Due(t) = 0
           /\ request[t].route \in Routes /\ request[t].method \in Methods
<1>1. /\ pc \in [Threads -> Proven!Labels] /\ net \in [Threads -> Messages]
      /\ net[t].stage # "quiet" <=> pc[t] \in {"sent_first", "sent"}
      /\ pc[t] # "idle" => request[t] \in Proven!InQuery
  BY Stages
<1>2. net'[t].stage = "answered" /\ net'[t].reply.status = 429 /\ net'[t] # net[t]
  BY DEF Refuses, Refused
<1>3. Serve(t)
  <2>1. CASE ThreadStep(t)
    BY <1>1, <1>2, <2>1 DEF ThreadStep, Asked
  <2>2. CASE Deliver(t) \/ Lose(t)
    BY <1>1, <1>2, <2>2 DEF Deliver, Lose, Quiet
  <2>3. ASSUME NEW r \in Routes, NEW m \in Methods, Call(t, r, m) PROVE FALSE
    BY <1>2, <2>3 DEF Call
  <2>4. ~Still(t)
    BY <1>2 DEF Still
  <2> QED BY <2>1, <2>2, <2>3, <2>4, SomeoneMoves DEF Moves
<1>4. ASSUME NEW status \in Statuses
      PROVE  net' # [net EXCEPT ![t] = Answered(Service!Answer(request[t].route,
                                                   request[t].method, tick, status))]
  <2>1. status # 429
    BY ServiceAssumption
  <2> QED BY <1>1, <1>2, <2>1 DEF Answered, Service!Answer
<1>5. ~Service!HasRoom(request[t].route, request[t].method, tick) /\ UNCHANGED used
  BY <1>3, <1>4 DEF Serve
<1>6. net[t].stage = "asked" /\ pc[t] \in {"sent_first", "sent"} /\ UNCHANGED counts
  BY <1>1, <1>3 DEF Serve, clientVars
<1>7. request[t].route \in Routes /\ request[t].method \in Methods
  BY <1>1, <1>6 DEF Proven!InQuery, Proven!Request
<1> QED BY <1>3, <1>5, <1>6, <1>7 DEF Pending, Due

\* What RefusedOnlyInRace excuses a refusal with.
Excused(t) ==
    LET r == request[t].route
        m == request[t].method
    IN  \/ ~counts[r].active
        \/ /\ counts[r].methods[m] = <<>>
           /\ Service!Full(used[r].methods[m], MethodLimits) # {}
        \/ Service!Full(used[r].app, AppLimits) \ Unraced(r, used[r].app, AppLimits) # {}
        \/ Service!Full(used[r].methods[m], MethodLimits)
               \ Unraced(r, used[r].methods[m], MethodLimits) # {}

LEMMA RefusalsExcused ==
    ASSUME Reliable, RInv, [RacesNext]_racesVars, NEW t \in Threads, Refuses(t)
    PROVE  Excused(t)
<1> DEFINE r == request[t].route
           m == request[t].method
<1>1. SInv /\ RacesRecorded /\ [Next]_vars
  BY RacesRecordedStep DEF RInv
<1>2. /\ ~Service!HasRoom(r, m, tick) /\ r \in Routes /\ m \in Methods
      /\ Pending(t) /\ Due(t) = 0
  BY <1>1, RefusalSteps
<1>3. Excused(t) <=>
         \/ ~counts[r].active
         \/ /\ counts[r].methods[m] = <<>>
            /\ Service!Full(used[r].methods[m], MethodLimits) # {}
         \/ Service!Full(used[r].app, AppLimits) \ Unraced(r, used[r].app, AppLimits) # {}
         \/ Service!Full(used[r].methods[m], MethodLimits)
                \ Unraced(r, used[r].methods[m], MethodLimits) # {}
  BY DEF Excused
<1> HIDE DEF r, m
<1>4. /\ used[r].app \in BucketsAt(AppLimits, tick) /\ tick \in Nat
      /\ used[r].methods[m] \in BucketsAt(MethodLimits, tick)
  BY <1>1, <1>2, Clock DEF SInv, UsedAt
<1>5. ASSUME NEW k \in Keys, On(request[t], r, k), Known(r, k),
             NEW i \in DOMAIN LimitsOf(k), Kept(r, k)[i].ends > tick,
             Kept(r, k)[i].count >= LimitsOf(k)[i].limit
      PROVE  i \notin Unraced(r, Kept(r, k), LimitsOf(k))
  <2>1. Kept(r, k)[i].count \in Nat /\ Kept(r, k)[i].ends \in Nat
        /\ LimitsOf(k)[i].limit \in Nat
    <3>1. Kept(r, k) \in BucketsAt(LimitsOf(k), tick)
          /\ LimitsOf(k) \in {AppLimits, MethodLimits}
      BY <1>1, <1>2, KeptTyped
    <3>2. LimitsOf(k)[i].limit \in Nat
      BY <3>1, Windows
    <3> QED BY <3>1, <3>2 DEF BucketsAt
  <2>2. i \in Unraced(r, Kept(r, k), LimitsOf(k)) => i \in Claims(r, k)
    BY <1>5 DEF Unraced, Claims
  <2>3. RoomAhead(t, r, k)
    BY <1>2 DEF RInv
  <2>4. i \in Claims(r, k) => Kept(r, k)[i].count < LimitsOf(k)[i].limit
    BY <1>2, <1>4, <1>5, <2>1, <2>3 DEF RoomAhead
  <2> QED BY <1>5, <2>1, <2>2, <2>4
<1>6. CASE Service!Full(Service!FreshAll(used[r].app, tick), AppLimits) # {}
  <2>1. PICK i \in Service!Full(Service!FreshAll(used[r].app, tick), AppLimits) : TRUE
    BY <1>6
  <2>2. /\ i \in DOMAIN AppLimits /\ i \in Service!Full(used[r].app, AppLimits)
        /\ used[r].app[i].ends > tick /\ used[r].app[i].count >= AppLimits[i].limit
    BY <1>4, FullRuns
  <2> DEFINE k == <<>>
  <2>3. /\ k \in Keys /\ On(request[t], r, k) /\ (counts[r].active => Known(r, k))
        /\ Kept(r, k) = used[r].app /\ LimitsOf(k) = AppLimits
    BY DEF Keys, On, Known, Kept, LimitsOf, r
  <2> HIDE DEF k
  <2>4. counts[r].active => i \notin Unraced(r, used[r].app, AppLimits)
    <3>1. /\ i \in DOMAIN LimitsOf(k) /\ Kept(r, k)[i].ends > tick
          /\ Kept(r, k)[i].count >= LimitsOf(k)[i].limit
      BY <2>2, <2>3
    <3>2. Known(r, k) => i \notin Unraced(r, Kept(r, k), LimitsOf(k))
      BY <1>5, <2>3, <3>1
    <3> QED BY <2>3, <3>2
  <2> QED BY <1>3, <2>2, <2>4
<1>7. CASE Service!Full(Service!FreshAll(used[r].methods[m], tick), MethodLimits) # {}
  <2>1. PICK i \in Service!Full(Service!FreshAll(used[r].methods[m], tick), MethodLimits) : TRUE
    BY <1>7
  <2>2. /\ i \in DOMAIN MethodLimits /\ i \in Service!Full(used[r].methods[m], MethodLimits)
        /\ used[r].methods[m][i].ends > tick
        /\ used[r].methods[m][i].count >= MethodLimits[i].limit
    BY <1>4, FullRuns
  <2> DEFINE k == <<m>>
  <2>3. /\ k \in Keys /\ On(request[t], r, k) /\ (counts[r].methods[m] # <<>> => Known(r, k))
        /\ Kept(r, k) = used[r].methods[m] /\ LimitsOf(k) = MethodLimits
    BY <1>2 DEF Keys, On, Known, Kept, LimitsOf, r, m
  <2> HIDE DEF k
  <2>4. counts[r].methods[m] # <<>> => i \notin Unraced(r, used[r].methods[m], MethodLimits)
    <3>1. /\ i \in DOMAIN LimitsOf(k) /\ Kept(r, k)[i].ends > tick
          /\ Kept(r, k)[i].count >= LimitsOf(k)[i].limit
      BY <2>2, <2>3
    <3>2. Known(r, k) => i \notin Unraced(r, Kept(r, k), LimitsOf(k))
      BY <1>5, <2>3, <3>1
    <3> QED BY <2>3, <3>2
  <2> QED BY <1>3, <2>2, <2>4
<1> QED BY <1>2, <1>6, <1>7 DEF Service!HasRoom

\* A request the limiter lets go is refused only when nothing has been heard of the
\* buckets yet, or when requests have raced, or a response was lost, in the window that is
\* full: no interleaving of checks, sends, answers, losses, resends and other calls costs
\* more than the window it happens in, when the service counts in whole seconds.
THEOREM RacesCostAWindow ==
    ASSUME TicksPerSecond = 1, IsFiniteSet(Threads)
    PROVE  RacesSpec => RefusedOnlyInRace
<1>1. Reliable
  BY DEF Reliable
<1>2. RInv /\ [RacesNext]_racesVars => [\A t \in Threads : Refuses(t) => Excused(t)]_racesVars
  BY <1>1, RefusalsExcused
<1>3. RacesSpec => [][\A t \in Threads : Refuses(t) => Excused(t)]_racesVars
  BY <1>1, <1>2, SpecRInv, PTL DEF RacesSpec
<1> QED BY <1>3 DEF RefusedOnlyInRace, Excused
-----------------------------------------------------------------------------
(* Routes where nothing has ever been missed. *)

\* What excuses a refusal there.
FirstHeard(t) ==
    LET r == request[t].route
        m == request[t].method
    IN  \/ ~counts[r].active
        \/ /\ counts[r].methods[m] = <<>>
           /\ Service!Full(used[r].methods[m], MethodLimits) # {}

FirstInv ==
    /\ RInv
    /\ \A t \in Threads : Refused(t) /\ raced[request[t].route] = Never => FirstHeard(t)

\* All windows of a route where nothing has been missed count.
LEMMA NoneRaced ==
    ASSUME SInv, NEW r \in Routes, raced[r] = Never, NEW limits \in {AppLimits, MethodLimits},
           NEW bs \in BucketsAt(limits, tick)
    PROVE  Service!Full(bs, limits) \ Unraced(r, bs, limits) = {}
<1>1. DOMAIN bs = DOMAIN limits /\ tick \in Nat
  BY Clock DEF BucketsAt
<1>2. \A i \in DOMAIN limits : Opened(bs[i], limits[i]) \in Nat
  BY <1>1, OpenedByNow
<1> QED BY <1>1, <1>2 DEF Service!Full, Unraced, Never

LEMMA FirstStep ==
    ASSUME Reliable, FirstInv, [RacesNext]_racesVars
    PROVE  FirstInv'
<1>1. RInv' /\ RInv
  BY NextRInv DEF FirstInv
<1>2. SInv /\ RacesRecorded /\ [Next]_vars /\ tick \in Nat /\ tick' \in Nat
  BY <1>1, RacesRecordedStep, Clock, ClocksMove DEF RInv
<1>3. ASSUME NEW r \in Routes, raced'[r] = Never
      PROVE  raced[r] = Never /\ ~Racing(r) /\ ~Racing(r)' /\ ~LosesResponse(r)
  <2>1. raced'[r] = IF Racing(r)' \/ LosesResponse(r) THEN tick' ELSE raced[r]
    BY <1>2, RacesRecordedStep
  <2>2. raced[r] = Never /\ ~Racing(r)' /\ ~LosesResponse(r)
    BY <1>2, <1>3, <2>1 DEF Never
  <2>3. ~Racing(r)
    BY <1>2, <2>2 DEF RacesRecorded, Never
  <2> QED BY <2>2, <2>3
<1>4. ASSUME NEW t \in Threads, Refuses(t), raced'[request'[t].route] = Never
      PROVE  FirstHeard(t)'
  <2> DEFINE r == request[t].route
             m == request[t].method
  <2>1. /\ Serve(t) /\ r \in Routes /\ m \in Methods /\ UNCHANGED <<used, counts>>
    BY <1>2, <1>4, RefusalSteps
  <2>2. UNCHANGED request
    BY <2>1 DEF Serve, clientVars
  <2>3. raced[r] = Never
    BY <1>3, <1>4, <2>1, <2>2
  <2>4. /\ used[r].app \in BucketsAt(AppLimits, tick)
        /\ used[r].methods[m] \in BucketsAt(MethodLimits, tick)
    BY <1>2, <2>1 DEF SInv, UsedAt
  <2>5. /\ Service!Full(used[r].app, AppLimits) \ Unraced(r, used[r].app, AppLimits) = {}
        /\ Service!Full(used[r].methods[m], MethodLimits)
              \ Unraced(r, used[r].methods[m], MethodLimits) = {}
    BY <1>2, <2>1, <2>4, <2>3, NoneRaced
  <2>6. Excused(t)
    BY <1>1, <1>4, RefusalsExcused
  <2>7. FirstHeard(t)
    BY <2>5, <2>6 DEF Excused, FirstHeard
  <2> QED BY <2>1, <2>2, <2>7 DEF FirstHeard
<1>5. ASSUME NEW t \in Threads, Refused(t), Refused(t)', raced'[request'[t].route] = Never
      PROVE  FirstHeard(t)'
  <2>1. /\ net[t].stage = "answered" /\ net'[t].stage = "answered"
        /\ pc[t] \in {"sent_first", "sent"}
        /\ request[t] \in Proven!InQuery
    BY <1>2, <1>5, Stages DEF Refused
  <2>2. Still(t)
    <3>1. CASE ThreadStep(t)
      BY <1>2, <2>1, <3>1, ThreadSteps
    <3>2. CASE Serve(t)
      BY <2>1, <3>2 DEF Serve
    <3>3. CASE Deliver(t) \/ Lose(t)
      BY <1>2, <2>1, <3>3, Stages DEF Deliver, Lose, Quiet
    <3>4. ASSUME NEW r \in Routes, NEW m \in Methods, Call(t, r, m) PROVE FALSE
      BY <2>1, <3>4 DEF Call, Client!Query
    <3> QED BY <1>2, <3>1, <3>2, <3>3, <3>4, SomeoneMoves DEF Moves
  <2>3. PICK r \in Routes, m \in Methods : request[t].route = r /\ request[t].method = m
    BY <2>1 DEF Proven!InQuery, Proven!Request
  <2>4. request'[t].route = r /\ request'[t].method = m
    BY <2>1, <2>2, <2>3 DEF Still
  <2>5. Client!InFlight(t) /\ ~Serve(t) /\ ~Client!Update(t)
    BY <2>1 DEF Client!InFlight, Serve, Client!Update
  <2>6. ASSUME NEW k \in Keys
        PROVE  Kept(r, k)' = Kept(r, k) /\ (~Known(r, k) => ~Known(r, k)')
    <3>1. ~Racing(r) /\ request[t].route = r
      BY <1>3, <1>5, <2>3, <2>4
    <3>2. Kept(r, k)' = Kept(r, k) /\ (Untouched(r, k) \/ Initialised(r, k))
      BY <1>2, <2>3, <2>5, <3>1, OwnBuckets
    <3>3. CASE Untouched(r, k)
      BY <3>2, <3>3, Zenon DEF Untouched
    <3>4. CASE Initialised(r, k)
      BY <3>2, <3>4, Zenon DEF Initialised
    <3> QED BY <3>2, <3>3, <3>4
  <2>7. ~counts[r].active => ~counts'[r].active
    <3>1. <<>> \in Keys
      BY DEF Keys
    <3>2. Known(r, <<>>) <=> counts[r].active
      BY DEF Known
    <3>3. Known(r, <<>>)' <=> counts'[r].active
      BY DEF Known
    <3> QED BY <2>6, <3>1, <3>2, <3>3
  <2>8. /\ used'[r].methods[m] = used[r].methods[m]
        /\ counts[r].methods[m] = <<>> => counts'[r].methods[m] = <<>>
    <3>1. <<m>> \in Keys
      BY <2>3 DEF Keys
    <3>2. Known(r, <<m>>) <=> counts[r].methods[m] # <<>>
      BY DEF Known
    <3>3. Known(r, <<m>>)' <=> counts'[r].methods[m] # <<>>
      BY DEF Known
    <3>4. Kept(r, <<m>>) = used[r].methods[m] /\ Kept(r, <<m>>)' = used'[r].methods[m]
      BY DEF Kept
    <3>5. Kept(r, <<m>>)' = Kept(r, <<m>>) /\ (~Known(r, <<m>>) => ~Known(r, <<m>>)')
      BY <2>6, <3>1
    <3> QED BY <3>2, <3>3, <3>4, <3>5
  <2>9. /\ FirstHeard(t)
        /\ FirstHeard(t) <=> \/ ~counts[r].active
                             \/ /\ counts[r].methods[m] = <<>>
                                /\ Service!Full(used[r].methods[m], MethodLimits) # {}
    <3>1. raced[request[t].route] = Never
      BY <1>3, <1>5, <2>3, <2>4
    <3> QED BY <1>5, <2>3, <3>1 DEF FirstInv, FirstHeard
  <2>10. FirstHeard(t)' <=> \/ ~counts'[r].active
                            \/ /\ counts'[r].methods[m] = <<>>
                               /\ Service!Full(used'[r].methods[m], MethodLimits) # {}
    BY <2>4 DEF FirstHeard, Service!Full
  <2> QED BY <2>7, <2>8, <2>9, <2>10
<1> QED BY <1>1, <1>4, <1>5 DEF FirstInv, Refuses

\* Where no two requests have ever raced and no response was lost, on the routes of a
\* thread alone with its key for instance, a request is refused only before the route, or the
\* method, has been heard of: however often the service has answered with errors, whatever
\* requests have been lost on the way, and whatever the key had been used for when the client
\* started.  The service counts in whole seconds (TicksPerSecond = 1).
THEOREM UnracedRefusedAtFirst ==
    ASSUME TicksPerSecond = 1, IsFiniteSet(Threads)
    PROVE  RacesSpec => []RefusedOnlyAtFirst
<1>1. Reliable
  BY DEF Reliable
<1>2. RacesInit => FirstInv
  <2> SUFFICES ASSUME RacesInit PROVE FirstInv
    OBVIOUS
  <2>1. ASSUME NEW t \in Threads PROVE ~Refused(t)
    <3>1. net = [u \in Threads |-> Quiet]
      BY DEF RacesInit, Init
    <3> QED BY <3>1 DEF Refused, Quiet
  <2> QED BY <2>1, InitRInv DEF FirstInv
<1>3. FirstInv /\ [RacesNext]_racesVars => FirstInv'
  BY <1>1, FirstStep
<1>4. FirstInv => RefusedOnlyAtFirst
  BY DEF FirstInv, RefusedOnlyAtFirst, FirstHeard
<1> QED BY <1>2, <1>3, <1>4, PTL DEF RacesSpec
=============================================================================
