-------------------------- MODULE GatedRateHandler --------------------------
(***************************************************************************)
(* The rate limiter as its callers see it: RateHandler with its responses  *)
(* counted, which nothing in the code does, so that a gate moved by a      *)
(* response can be told from one moved by anything else.                   *)
(***************************************************************************)
EXTENDS RateHandler

CONSTANT MaxResponses   \* bound on the responses

VARIABLE responses      \* history: how many have arrived on each route

GatedInit == Init /\ responses = [r \in Routes |-> 0]

GatedRespond(r) ==
    /\ MapThenSumSet(LAMBDA q : responses[q], Routes) < MaxResponses
    /\ \E m \in Methods, resp \in Responses : InsertRequest(r, m, resp)
    /\ responses' = [responses EXCEPT ![r] = @ + 1]

GatedNext ==
    \/ \E r \in Routes : GatedRespond(r)
    \/ (Read \/ Tick) /\ UNCHANGED responses

GatedSpec == GatedInit /\ [][GatedNext]_<<vars, responses>>
-----------------------------------------------------------------------------
\* A response that carries Retry-After, or a 429 without one, closes the gate of
\* its route and method for that long from the moment it was read, whatever else
\* its headers say: rebuilt buckets, malformed headers, counts below the limit,
\* or the clock moving to the next second inside insert_request.
RetryAfterEnforced ==
    [][\A r \in Routes, m \in Methods, resp \in Responses :
          responses'[r] # responses[r] /\ InsertRequest(r, m, resp)
              => now' + WaitTime(r, m, now)' >= now + RetryAfterSec(resp)]_<<vars, responses>>

ClosedUntil ==
    [r \in Routes |-> [m \in Methods |->
        IF WaitTime(r, m, now) = 0 THEN 0 ELSE now + WaitTime(r, m, now)]]

Gate == INSTANCE RateGate WITH closed_until <- ClosedUntil

\* The readers are invisible although each of them writes to the buckets it reads,
\* time only opens gates, and a response, the one that initialises every route
\* included, moves the gates of its own route alone: what check_rate_limits answers
\* is explained by responses and time, never by who else asked.
ImplementsGate == Gate!Spec
=============================================================================
