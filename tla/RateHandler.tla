---------------------------- MODULE RateHandler -----------------------------
(***************************************************************************)
(* class RateHandler of handling/rate_handler.cpp: the rate limiter shared *)
(* by every thread that uses one client.  Each public operation holds      *)
(* mutex_ from its first to its last statement, so each is one action; the *)
(* order in which threads reach the mutex is arbitrary.                    *)
(*                                                                         *)
(* Routes is the disjoint union of the three arrays platform_counts,       *)
(* region_counts and val_plaform_counts: the indicator of a route selects  *)
(* the array, the enumerator the element.                                  *)
(***************************************************************************)
EXTENDS RegionCount

CONSTANTS
    Routes,       \* the routing values
    Responses,    \* what insert_request may be given: last_response and response_header
    FallbackLimits, \* assumed when an application header has no well-formed part
    MaxWindow,    \* the longest window or pause, in seconds
    MaxTime       \* bound on the clock

NoHeader == -1          \* an empty retry_after

RiotHeader == [app_limit: Seq(LimitPart), app_limit_count: Seq(Int),
               method_limit: Seq(LimitPart), method_limit_count: Seq(Int),
               retry_after: Nat \cup {NoHeader}]

Response == [last_response: Int, response_header: RiotHeader]

AnnouncesAtMost(limits, w) == \A i \in DOMAIN limits : limits[i].duration <= w

\* No window or pause is longer than MaxWindow; 2 seconds is the pause assumed
\* for a 429 that announces none.  The code's FallbackLimits are 20:1,100:120.
ASSUME ResponsesAssumption ==
    /\ MaxWindow \in Nat /\ MaxWindow >= 2
    /\ MaxTime \in Nat
    /\ FallbackLimits \in Seq(LimitPart) \ {<<>>}
    /\ AnnouncesAtMost(FallbackLimits, MaxWindow)
    /\ Responses \subseteq Response
    /\ \A r \in Responses :
          /\ AnnouncesAtMost(r.response_header.app_limit, MaxWindow)
          /\ AnnouncesAtMost(r.response_header.method_limit, MaxWindow)
          /\ r.response_header.retry_after # NoHeader
                => r.response_header.retry_after <= MaxWindow

VARIABLES
    now,            \* system_clock, in whole seconds
    counts,         \* platform_counts, region_counts, val_plaform_counts
    initialised
vars == <<now, counts, initialised>>
-----------------------------------------------------------------------------
\* Faulty: Retry-After counts on a 429 only.
RetryAfterSecOfRefusal(resp) ==
    IF resp.last_response # 429 THEN 0
    ELSE IF resp.response_header.retry_after # NoHeader
    THEN Larger(1, resp.response_header.retry_after) ELSE 2

\* retry_after_sec; a header that is not a number counts as 1, as 0 does.
RetryAfterSec(resp) ==
    IF resp.response_header.retry_after # NoHeader
    THEN Larger(1, resp.response_header.retry_after)
    ELSE IF resp.last_response = 429 THEN 2 ELSE 0

\* initialise_counts: every route gets the application limits just announced.
InitialiseCounts(header) ==
    LET limits == IF header.app_limit = <<>> THEN FallbackLimits ELSE header.app_limit
    IN  [r \in Routes |-> RegionInitLimits(counts[r], limits)]

\* The seconds a request of route r and method m has to wait at time t.
WaitTime(r, m, t) == RegionWaitTime(counts[r], m, t)

TypeOK ==
    /\ now \in Nat
    /\ counts \in [Routes -> Region]
    /\ initialised \in BOOLEAN

Init ==
    /\ now = 0
    /\ counts = [r \in Routes |-> NewRegion]
    /\ initialised = FALSE
-----------------------------------------------------------------------------
(* The operations. *)

\* Faulty: the check itself counts the request.
CheckRateLimitsReserving(r, m) ==
    /\ now' \in {now, now + 1} /\ now' <= MaxTime
    /\ counts' = IF initialised
                 THEN [counts EXCEPT ![r].app = HierachyInsertRequest(@, now, now')]
                 ELSE counts
    /\ UNCHANGED initialised

\* check_rate_limits finds the wait and then reads the clock again, perhaps in the
\* next second, to set the request's send_time to SendTime.
CheckRateLimits(r, m) ==
    /\ now' \in {now, now + 1} /\ now' <= MaxTime
    /\ counts' = IF initialised
                 THEN [counts EXCEPT ![r] = RegionUpdateCount(@, {m}, now)]
                 ELSE counts
    /\ UNCHANGED initialised

\* Faulty: a second too early.
SendTimeEarly(r, m, old) ==
    IF ~initialised THEN old
    ELSE IF WaitTime(r, m, now) = 0 THEN 0
    ELSE now' + WaitTime(r, m, now) - 1

\* The send_time of a request whose send_time was old, after CheckRateLimits.
SendTime(r, m, old) ==
    IF ~initialised THEN old
    ELSE IF WaitTime(r, m, now) = 0 THEN 0
    ELSE now' + WaitTime(r, m, now)

\* Faulty: every response initialises the limiter again.
InsertRequestReinitialising(r, m, resp) ==
    /\ now' \in {now, now + 1} /\ now' <= MaxTime
    /\ initialised' = TRUE
    /\ counts' = [InitialiseCounts(resp.response_header) EXCEPT ![r] =
           RegionInsertWithHeaders(@, m, resp.response_header, now, now',
                                   RetryAfterSec(resp))]

\* insert_request: a response to method m of route r has arrived.  server_time
\* is read first, the clock of update_count later, perhaps in the next second.
InsertRequest(r, m, resp) ==
    /\ now' \in {now, now + 1} /\ now' <= MaxTime
    /\ initialised' = TRUE
    /\ LET base == IF initialised THEN counts ELSE InitialiseCounts(resp.response_header)
       IN  counts' = [base EXCEPT ![r] =
               RegionInsertWithHeaders(@, m, resp.response_header, now, now',
                                       RetryAfterSec(resp))]

\* get_wait_time_breakdown, called by the user of the client at any time.
GetWaitTimeBreakdown(r, m) ==
    /\ initialised
    /\ counts' = [counts EXCEPT ![r] = RegionUpdateCount(@, {m}, now)]
    /\ UNCHANGED <<now, initialised>>

\* get_snapshot: reads every bucket of the active regions.
GetSnapshot ==
    /\ counts' = [r \in Routes |-> IF counts[r].active
                                   THEN RegionUpdateCount(counts[r], Methods, now)
                                   ELSE counts[r]]
    /\ UNCHANGED <<now, initialised>>

Tick ==
    /\ now < MaxTime
    /\ now' = now + 1
    /\ UNCHANGED <<counts, initialised>>

Respond == \E r \in Routes, m \in Methods, resp \in Responses : InsertRequest(r, m, resp)

Read ==
    \/ \E r \in Routes, m \in Methods : CheckRateLimits(r, m) \/ GetWaitTimeBreakdown(r, m)
    \/ GetSnapshot

Next == Respond \/ Read \/ Tick

Spec == Init /\ [][Next]_vars
-----------------------------------------------------------------------------
(* What the limiter promises its callers. *)

\* No request is ever told to wait longer than the longest window or pause the
\* service announced: a pause stacked on a running window, or a window restarted
\* from its own end, would hold requests back past anything Riot asked for
\* (scope_count.h, sync_from_server and apply_retry_after).
WaitBounded == \A r \in Routes, m \in Methods : WaitTime(r, m, now) <= MaxWindow

LiveScopesKept(h, h2) ==
    \A i \in DOMAIN h : ~Expired(h[i], now) /\ ~Expired(h[i], now')
                           => i \in DOMAIN h2 /\ h2[i] = h[i]

\* A running bucket loses no request it has counted, and keeps its end, unless a
\* response of its own route arrives: neither the readers, which drop expired
\* counts as a side effect, nor a response elsewhere, nor a second
\* initialisation by a thread that found the limiter uninitialised, touch it.
LiveBucketsStable ==
    [][\A r \in Routes :
          \/ /\ LiveScopesKept(counts[r].app, counts'[r].app)
             /\ \A m \in Methods :
                   LiveScopesKept(counts[r].methods[m], counts'[r].methods[m])
          \/ \E m \in Methods, resp \in Responses : InsertRequest(r, m, resp)]_vars

\* An announced count leaves room in every announced bucket.
BelowLimits(limits, counted) ==
    \A i \in DOMAIN limits : i \in DOMAIN counted /\ counted[i] < limits[i].limit
=============================================================================
