----------------------------- MODULE RiotRaces ------------------------------
(***************************************************************************)
(* What the limiter of RiotSystem can miss of a route.  From the check that *)
(* approves a request until its response has been inserted, the limiter    *)
(* (handling/rate_handler.cpp) does not know of the request: requests that *)
(* are there at the same time race, for a place in a bucket and then with  *)
(* the counts in their responses; of a request whose response is lost it   *)
(* never hears.  raced records when one or the other last happened.        *)
(***************************************************************************)
EXTENDS RiotSystem, FiniteSets

VARIABLE raced      \* for each route the last tick of a race or a loss there, or Never

racesVars == <<vars, raced>>

Never == -1

Racing(r) ==
    Cardinality({t \in Threads : Client!InFlight(t) /\ request[t].route = r}) > 1

\* The service has answered a request, and the transfer fails.
LosesResponse(r) ==
    \E t \in Threads : Lose(t) /\ net[t].stage = "answered" /\ request[t].route = r

RecordRaces ==
    raced' = [r \in Routes |->
        IF Racing(r)' \/ LosesResponse(r) THEN tick' ELSE raced[r]]

RacesInit == Init /\ raced = [r \in Routes |-> Never]

RacesNext == Next /\ RecordRaces

RacesSpec == RacesInit /\ [][RacesNext]_racesVars
-----------------------------------------------------------------------------
\* The limiter has not heard yet of what t sent.
Unheard(t) == pc[t] \in {"sent_first", "received_first", "sent", "received"}

\* The tick at which the window of bucket b, with this limit, has opened; the
\* service may have opened it before the client started.
Opened(b, limit) == Client!Limiter!Larger(0, b.ends - limit.duration * TicksPerSecond)

\* Where nothing has ever been missed and clocks agree to the tick, a request is refused
\* only where the limiter cannot know better: when nothing has been heard on the route
\* yet, or nothing of the method and the method's own buckets are full.  By then the
\* service was in use before the client started, by the process that ran before a
\* restart say; from the first response on the limiter follows.
RefusedOnlyAtFirst ==
    \A t \in Threads :
        LET r == request[t].route
            m == request[t].method
        IN  Refused(t) /\ raced[r] = Never =>
                \/ ~counts[r].active
                \/ /\ counts[r].methods[m] = <<>>
                   /\ Service!Full(used[r].methods[m], MethodLimits) # {}

\* The buckets with a window that has opened since the last race or loss on r.
Unraced(r, bs, limits) == {i \in DOMAIN bs : Opened(bs[i], limits[i]) > raced[r]}

\* A request is refused only where the limiter cannot know better (see
\* RefusedOnlyAtFirst), or when a bucket is full in whose window requests have raced or
\* a response was lost.  That costs a window: whatever the threads do to each other's
\* counts, and whatever the limiter does not hear of, all is well again in the next.
RefusedOnlyInRace ==
    [][\A t \in Threads :
          Refuses(t) =>
              LET r == request[t].route
                  m == request[t].method
              IN  \/ ~counts[r].active
                  \/ /\ counts[r].methods[m] = <<>>
                     /\ Service!Full(used[r].methods[m], MethodLimits) # {}
                  \/ Service!Full(used[r].app, AppLimits)
                         \ Unraced(r, used[r].app, AppLimits) # {}
                  \/ Service!Full(used[r].methods[m], MethodLimits)
                         \ Unraced(r, used[r].methods[m], MethodLimits) # {}]_racesVars

\* The reason: with no request sent and not yet inserted, the buckets the limiter has heard of are
\* at least as full, and end at least as late, as those of the service that are
\* running and have seen neither race nor loss.
ShadowsUnraced ==
    \A r \in Routes :
        (\A t \in Threads : Unheard(t) => request[t].route # r) =>
            /\ counts[r].active =>
                   Shadows(counts[r].app, used[r].app, Unraced(r, used[r].app, AppLimits))
            /\ \A m \in Methods :
                  counts[r].methods[m] # <<>> =>
                      Shadows(counts[r].methods[m], used[r].methods[m],
                              Unraced(r, used[r].methods[m], MethodLimits))
=============================================================================
