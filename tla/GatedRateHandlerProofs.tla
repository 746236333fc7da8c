----------------------- MODULE GatedRateHandlerProofs -----------------------
(***************************************************************************)
(* Proofs that the rate limiter enforces every pause the service asks for, *)
(* and that it implements RateGate, for any routes, methods, responses and *)
(* windows.                                                                *)
(***************************************************************************)
EXTENDS GatedRateHandler, RateHandlerProofs

LEMMA GatedNextIsNext == [GatedNext]_<<vars, responses>> => [Next]_vars
BY DEF GatedNext, GatedRespond, Next, Respond, vars

LEMMA GatedSpecGInv == GatedSpec => []GInv
<1>1. GatedInit => GInv
  BY InitGInv DEF GatedInit
<1>2. GInv /\ [GatedNext]_<<vars, responses>> => GInv'
  BY NextGInv, GatedNextIsNext
<1> QED BY <1>1, <1>2, PTL DEF GatedSpec
-----------------------------------------------------------------------------
\* Every pause is enforced, whatever the headers that came with it.
THEOREM PausesAreEnforced == GatedSpec => RetryAfterEnforced
<1>1. ASSUME GInv
      PROVE  \A r \in Routes, m \in Methods, resp \in Responses :
                responses'[r] # responses[r] /\ InsertRequest(r, m, resp)
                    => now' + WaitTime(r, m, now)' >= now + RetryAfterSec(resp)
  BY <1>1, InsertRequestEnforcesPause
<1> QED BY <1>1, GatedSpecGInv, PTL DEF GatedSpec, RetryAfterEnforced
-----------------------------------------------------------------------------
(* The limiter implements the gate. *)

\* Until when a region holds back the requests of method m, seen at time t.
Closed(region, m, t) ==
    IF RegionWaitTime(region, m, t) = 0 THEN 0 ELSE t + RegionWaitTime(region, m, t)

LEMMA ClosedBounded ==
    ASSUME NEW t \in Nat, NEW region \in BoundedRegion(t), NEW m \in Methods
    PROVE  /\ RegionWaitTime(region, m, t) \in 0 .. MaxWindow
           /\ Closed(region, m, t) \in {0} \cup ((t + 1) .. (t + MaxWindow))
<1>1. /\ HierachyWaitTime(region.app, t) \in 0 .. MaxWindow
      /\ HierachyWaitTime(region.methods[m], t) \in 0 .. MaxWindow
  BY HierachyWaitBounded DEF BoundedRegion
<1>2. RegionWaitTime(region, m, t) \in 0 .. MaxWindow
  BY <1>1, ResponsesAssumption DEF RegionWaitTime, Larger
<1> QED BY <1>2, ResponsesAssumption DEF Closed

\* A region that nobody touches opens when its second comes.
LEMMA ClosedPasses ==
    ASSUME NEW t \in Nat, NEW u \in Nat, t <= u,
           NEW region \in BoundedRegion(t), NEW m \in Methods
    PROVE  Closed(region, m, u) = Gate!At(Closed(region, m, t), u)
<1> DEFINE a == HierachyWaitTime(region.app, t)
           b == HierachyWaitTime(region.methods[m], t)
<1>1. region.app \in Seq(BoundedScope(t)) /\ region.methods[m] \in Seq(BoundedScope(t))
  BY DEF BoundedRegion
<1>2. a \in Nat /\ b \in Nat
  BY <1>1, HierachyWaitGreatest
<1>3. /\ HierachyWaitTime(region.app, u) = Larger(0, a - (u - t))
      /\ HierachyWaitTime(region.methods[m], u) = Larger(0, b - (u - t))
  BY <1>1, HierachyWaitPasses
<1>4. /\ RegionWaitTime(region, m, t) = Larger(a, b)
      /\ RegionWaitTime(region, m, u) = Larger(Larger(0, a - (u - t)), Larger(0, b - (u - t)))
  BY <1>3 DEF RegionWaitTime
<1> HIDE DEF a, b
<1> QED BY <1>2, <1>4 DEF Closed, Gate!At, Larger

\* Reading a region does not show.
LEMMA ClosedRead ==
    ASSUME NEW t \in Nat, NEW u \in Nat, t <= u,
           NEW region \in BoundedRegion(t), NEW m \in Methods, NEW ms \in SUBSET Methods
    PROVE  Closed(RegionUpdateCount(region, ms, t), m, u) = Closed(region, m, u)
<1> DEFINE after == RegionUpdateCount(region, ms, t)
<1>1. region.app \in Seq(BoundedScope(t)) /\ region.methods[m] \in Seq(BoundedScope(t))
  BY DEF BoundedRegion
<1>2. HierachyWaitTime(after.app, u) = HierachyWaitTime(region.app, u)
  <2>1. after.app = HierachyUpdateCount(region.app, t)
    BY DEF RegionUpdateCount, BoundedRegion
  <2> QED BY <1>1, <2>1, HierachyReadKeepsWait
<1>3. HierachyWaitTime(after.methods[m], u) = HierachyWaitTime(region.methods[m], u)
  <2>1. after.methods[m] = IF m \in ms THEN HierachyUpdateCount(region.methods[m], t)
                                        ELSE region.methods[m]
    BY DEF RegionUpdateCount, BoundedRegion
  <2> HIDE DEF after
  <2> QED BY <1>1, <2>1, HierachyReadKeepsWait
<1>4. RegionWaitTime(after, m, u) = RegionWaitTime(region, m, u)
  BY <1>2, <1>3 DEF RegionWaitTime
<1> QED BY <1>4 DEF Closed

\* A region before its first response is open, with the limits it has from its
\* construction and with those initialise_counts gives it.
LEMMA FreshRegionOpen ==
    ASSUME NEW t \in Nat, NEW m \in Methods,
           NEW limits \in Seq(LimitPart), AnnouncesAtMost(limits, MaxWindow)
    PROVE  /\ Closed(NewRegion, m, t) = 0
           /\ Closed(RegionInitLimits(NewRegion, limits), m, t) = 0
<1> DEFINE app == HierachyOf(limits)
<1>1. HierachyWaitTime(app, t) = 0
  <2>1. app \in Seq(BoundedScope(t))
    BY HierachyOfBounded
  <2>2. \A i \in DOMAIN app : app[i].next_reset = 0
    BY DEF HierachyOf, NewScope
  <2> HIDE DEF app
  <2> QED BY <2>1, <2>2, FreshHierachyOpen
<1>2. HierachyWaitTime(<<NewScope(0, 0, 0)>>, t) = 0
  <2>1. NewScope(0, 0, 0) \in BoundedScope(t)
    BY ResponsesAssumption DEF NewScope, BoundedScope, Scope
  <2>2. <<NewScope(0, 0, 0)>> \in Seq(BoundedScope(t))
    BY <2>1
  <2>3. \A i \in DOMAIN <<NewScope(0, 0, 0)>> : <<NewScope(0, 0, 0)>>[i].next_reset = 0
    BY DEF NewScope
  <2> QED BY <2>2, <2>3, FreshHierachyOpen
<1>3. HierachyWaitTime(<<>>, t) = 0
  <2>1. <<>> \in Seq(BoundedScope(t)) /\ DOMAIN <<>> = {}
    OBVIOUS
  <2> QED BY <2>1, FreshHierachyOpen
<1>4. NewRegion.app = <<NewScope(0, 0, 0)>> /\ NewRegion.methods[m] = <<>>
  BY DEF NewRegion
<1>5. /\ RegionInitLimits(NewRegion, limits).app = app
      /\ RegionInitLimits(NewRegion, limits).methods[m] = <<>>
  BY DEF RegionInitLimits, NewRegion
<1> HIDE DEF app
<1> QED BY <1>1, <1>2, <1>3, <1>4, <1>5 DEF Closed, RegionWaitTime, Larger

LEMMA ClosedUntilByRegion ==
    /\ ClosedUntil = [r \in Routes |-> [m \in Methods |-> Closed(counts[r], m, now)]]
    /\ ClosedUntil' = [r \in Routes |-> [m \in Methods |-> Closed(counts'[r], m, now')]]
BY DEF ClosedUntil, Closed, WaitTime

\* A route whose requests wait for nothing but time.
LEMMA OnlyTimePassesByRegion ==
    ASSUME NEW r \in Routes,
           \A m \in Methods : Closed(counts'[r], m, now') = Gate!At(Closed(counts[r], m, now), now')
    PROVE  Gate!OnlyTimePasses(r)
BY ClosedUntilByRegion DEF Gate!OnlyTimePasses

\* A response on one route moves no gate of another, the initialisation included.
LEMMA OtherRoutes ==
    ASSUME GInv, NEW r \in Routes, NEW m \in Methods, NEW resp \in Responses,
           InsertRequest(r, m, resp), NEW q \in Routes \ {r}
    PROVE  Gate!OnlyTimePasses(q)
<1> DEFINE limits == IF resp.response_header.app_limit = <<>>
                     THEN FallbackLimits ELSE resp.response_header.app_limit
<1>1. now \in Nat /\ now' \in Nat /\ now <= now' /\ counts[q] \in BoundedRegion(now)
  BY DEF GInv, IInv, InsertRequest
<1>2. counts'[q] = IF initialised THEN counts[q]
                   ELSE InitialiseCounts(resp.response_header)[q]
  BY DEF GInv, IInv, InsertRequest, InitialiseCounts
<1> SUFFICES ASSUME NEW n \in Methods
             PROVE  Closed(counts'[q], n, now') = Gate!At(Closed(counts[q], n, now), now')
  BY OnlyTimePassesByRegion
<1>3. CASE initialised
  BY <1>1, <1>2, <1>3, ClosedPasses
<1>4. CASE ~initialised
  <2>1. counts[q] = NewRegion
    BY <1>4 DEF GInv, Pristine
  <2>2. counts'[q] = RegionInitLimits(NewRegion, limits)
    BY <1>2, <1>4, <2>1 DEF InitialiseCounts
  <2>3. limits \in Seq(LimitPart) /\ AnnouncesAtMost(limits, MaxWindow)
    BY ResponsesAssumption DEF Response, RiotHeader
  <2> HIDE DEF limits
  <2>4. Closed(counts[q], n, now) = 0 /\ Closed(counts'[q], n, now') = 0
    BY <1>1, <2>1, <2>2, <2>3, FreshRegionOpen
  <2> QED BY <1>1, <2>4 DEF Gate!At
<1> QED BY <1>3, <1>4

LEMMA GatedRespondIsRespond ==
    ASSUME GInv, GInv', NEW r \in Routes, GatedRespond(r)
    PROVE  Gate!Respond(r)
<1>1. PICK m \in Methods, resp \in Responses : InsertRequest(r, m, resp)
  BY DEF GatedRespond
<1>2. Gate!ClockMoves
  BY <1>1 DEF InsertRequest, Gate!ClockMoves
<1>3. responses' = [responses EXCEPT ![r] = @ + 1]
  BY DEF GatedRespond
<1>4. ASSUME NEW n \in Methods
      PROVE  ClosedUntil'[r][n] \in {0} \cup ((now' + 1) .. (now' + MaxWindow))
  <2>1. now' \in Nat /\ counts'[r] \in BoundedRegion(now')
    BY DEF GInv, IInv
  <2>2. Closed(counts'[r], n, now') \in {0} \cup ((now' + 1) .. (now' + MaxWindow))
    BY <2>1, ClosedBounded
  <2>3. ClosedUntil'[r][n] = Closed(counts'[r], n, now')
    BY ClosedUntilByRegion
  <2> QED BY <2>2, <2>3
<1>5. \A q \in Routes \ {r} : Gate!OnlyTimePasses(q)
  BY <1>1, OtherRoutes
<1> QED BY <1>2, <1>3, <1>4, <1>5 DEF Gate!Respond

\* A reader, with or without the second turning meanwhile, and a tick.
LEMMA ReadAndTickOnlyPassTime ==
    ASSUME GInv, Read \/ Tick, NEW r \in Routes
    PROVE  now \in Nat /\ now' \in {now, now + 1} /\ Gate!OnlyTimePasses(r)
<1>1. now \in Nat /\ counts[r] \in BoundedRegion(now)
  BY DEF GInv, IInv
<1>2. /\ now' \in {now, now + 1}
      /\ \/ counts'[r] = counts[r]
         \/ \E ms \in SUBSET Methods : counts'[r] = RegionUpdateCount(counts[r], ms, now)
  <2>1. CASE Read
    BY <2>1, ReadSteps
  <2>2. CASE Tick
    BY <2>2 DEF Tick
  <2> QED BY <2>1, <2>2
<1>3. now' \in Nat /\ now <= now'
  BY <1>1, <1>2
<1>4. ASSUME NEW m \in Methods
      PROVE  Closed(counts'[r], m, now') = Gate!At(Closed(counts[r], m, now), now')
  BY <1>1, <1>2, <1>3, ClosedRead, ClosedPasses
<1> QED BY <1>1, <1>2, <1>4, OnlyTimePassesByRegion

\* When the second does not turn, such a step changes nothing a caller could see.
LEMMA NothingPasses ==
    ASSUME GInv, now' = now, \A r \in Routes : Gate!OnlyTimePasses(r)
    PROVE  ClosedUntil' = ClosedUntil
<1>1. ASSUME NEW r \in Routes, NEW m \in Methods
      PROVE  Gate!At(Closed(counts[r], m, now), now) = Closed(counts[r], m, now)
  <2>1. now \in Nat /\ counts[r] \in BoundedRegion(now)
    BY DEF GInv, IInv
  <2>2. Closed(counts[r], m, now) \in {0} \cup ((now + 1) .. (now + MaxWindow))
    BY <2>1, ClosedBounded
  <2> QED BY <2>1, <2>2 DEF Gate!At
<1>2. ASSUME NEW r \in Routes
      PROVE  ClosedUntil'[r] = [m \in Methods |-> Closed(counts[r], m, now)]
  <2>1. ClosedUntil'[r] = [m \in Methods |-> Gate!At(ClosedUntil[r][m], now')]
    BY DEF Gate!OnlyTimePasses
  <2>2. \A m \in Methods : ClosedUntil[r][m] = Closed(counts[r], m, now)
    BY ClosedUntilByRegion
  <2> QED BY <1>1, <2>1, <2>2
<1> QED BY <1>2, ClosedUntilByRegion

\* The limiter implements the gate: what it answers is explained by the responses
\* on a route and the passing of time.
THEOREM LimiterImplementsGate == GatedSpec => ImplementsGate
<1>1. GatedInit => Gate!Init
  <2> SUFFICES ASSUME GatedInit PROVE Gate!Init
    OBVIOUS
  <2>1. now = 0 /\ counts = [r \in Routes |-> NewRegion] /\ responses = [r \in Routes |-> 0]
    BY DEF GatedInit, Init
  <2>2. \A m \in Methods : Closed(NewRegion, m, 0) = 0
    BY FreshRegionOpen, ResponsesAssumption
  <2>3. ClosedUntil = [r \in Routes |-> [m \in Methods |-> 0]]
    BY <2>1, <2>2, ClosedUntilByRegion
  <2> QED BY <2>1, <2>3 DEF Gate!Init
<1>2. ASSUME GInv, GInv', [GatedNext]_<<vars, responses>>
      PROVE  [Gate!Next]_(Gate!vars)
  <2>1. CASE \E r \in Routes : GatedRespond(r)
    BY <1>2, <2>1, GatedRespondIsRespond DEF Gate!Next
  <2>2. CASE (Read \/ Tick) /\ UNCHANGED responses
    <3>1. now' \in {now, now + 1} /\ now \in Nat
      BY <1>2, <2>2, ReadSteps DEF Tick, GInv, IInv
    <3>2. \A r \in Routes : Gate!OnlyTimePasses(r)
      BY <1>2, <2>2, ReadAndTickOnlyPassTime
    <3>3. CASE now' = now
      BY <1>2, <2>2, <3>2, <3>3, NothingPasses DEF Gate!vars
    <3>4. CASE now' = now + 1
      BY <2>2, <3>2, <3>4 DEF Gate!Next, Gate!Tick
    <3> QED BY <3>1, <3>3, <3>4
  <2>3. CASE UNCHANGED <<vars, responses>>
    BY <2>3 DEF vars, Gate!vars, ClosedUntil, WaitTime
  <2> QED BY <1>2, <2>1, <2>2, <2>3 DEF GatedNext
<1> QED BY <1>1, <1>2, GatedSpecGInv, PTL DEF GatedSpec, ImplementsGate, Gate!Spec
=============================================================================
