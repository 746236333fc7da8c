---------------------------- MODULE RiotService -----------------------------
(***************************************************************************)
(* The Riot service, which is no part of the repository: what the client's *)
(* rate limiter takes it to be.  Every application and method limit of a   *)
(* route is a bucket with a window of fixed length; a window opens with    *)
(* the first request after the previous one is over, a request that finds  *)
(* room in all its buckets is counted in each and announced in the rate    *)
(* headers, and one that does not is refused with a Retry-After.           *)
(*                                                                         *)
(* Its clock is finer than the whole seconds in which Retry-After and the  *)
(* client's clock count: a second has TicksPerSecond ticks.                *)
(***************************************************************************)
EXTENDS Integers, Sequences, FiniteSetsExt

CONSTANTS
    Routes, Methods,
    AppLimits, MethodLimits,    \* sequences of [limit, duration], in seconds
    TicksPerSecond,
    Statuses,       \* how it answers a request it has counted
    InitialUse      \* what its buckets may hold when the client starts

VARIABLE used       \* for each route its application and method buckets

\* A window that is over counts nothing; the next request opens the next one.
Fresh(b, tick) == IF tick >= b.ends THEN [count |-> 0, ends |-> 0] ELSE b
FreshAll(bs, tick) == [i \in DOMAIN bs |-> Fresh(bs[i], tick)]

Full(bs, limits) == {i \in DOMAIN bs : bs[i].count >= limits[i].limit}

\* One more request in each bucket.
Counted(bs, limits, tick) ==
    [i \in DOMAIN bs |->
        [count |-> bs[i].count + 1,
         ends  |-> IF bs[i].ends = 0 THEN tick + limits[i].duration * TicksPerSecond
                                     ELSE bs[i].ends]]

Counts(bs) == [i \in DOMAIN bs |-> bs[i].count]

RateHeaders(app, method) ==
    [app_limit |-> AppLimits, app_limit_count |-> Counts(app),
     method_limit |-> MethodLimits, method_limit_count |-> Counts(method)]

WithRetryAfter(headers, seconds) ==
    [f \in DOMAIN headers \cup {"retry_after"} |->
        IF f = "retry_after" THEN seconds ELSE headers[f]]

\* Whole seconds until the last of the full buckets has room again.
RetryAfter(app, method, tick) ==
    LET ends == {app[i].ends : i \in Full(app, AppLimits)}
                \cup {method[i].ends : i \in Full(method, MethodLimits)}
    IN  (Max(ends) - tick + TicksPerSecond - 1) \div TicksPerSecond

\* A request of route r and method m would be counted at tick.
HasRoom(r, m, tick) ==
    /\ Full(FreshAll(used[r].app, tick), AppLimits) = {}
    /\ Full(FreshAll(used[r].methods[m], tick), MethodLimits) = {}

\* What buckets with these limits may hold at the start: InitialUse, within limits.
InitialBuckets(limits) ==
    {bs \in [DOMAIN limits -> InitialUse] :
        \A i \in DOMAIN limits : /\ bs[i].count <= limits[i].limit
                                 /\ bs[i].ends <= limits[i].duration * TicksPerSecond}

Init ==
    used \in [Routes -> [app: InitialBuckets(AppLimits),
                         methods: [Methods -> InitialBuckets(MethodLimits)]]]

\* Such a request is counted ...
Accept(r, m, tick) ==
    /\ HasRoom(r, m, tick)
    /\ used' = [used EXCEPT
           ![r].app = Counted(FreshAll(@, tick), AppLimits, tick),
           ![r].methods[m] = Counted(FreshAll(@, tick), MethodLimits, tick)]

\* ... and answered with one of the Statuses and the new counts.
Answer(r, m, tick, status) ==
    [status |-> status,
     header |-> RateHeaders(Counted(FreshAll(used[r].app, tick), AppLimits, tick),
                            Counted(FreshAll(used[r].methods[m], tick), MethodLimits, tick))]

\* Any other request is refused.
Refusal(r, m, tick) ==
    LET app == FreshAll(used[r].app, tick)
        method == FreshAll(used[r].methods[m], tick)
    IN  [status |-> 429,
         header |-> WithRetryAfter(RateHeaders(app, method), RetryAfter(app, method, tick))]
=============================================================================
