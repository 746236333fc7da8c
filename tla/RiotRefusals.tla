---------------------------- MODULE RiotRefusals ----------------------------
(***************************************************************************)
(* RiotSystem with a history of its refusals: which windows of the         *)
(* service have turned a request away, and of which of them the limiter    *)
(* (handling/rate_handler.cpp, insert_request) has been told by a response *)
(* that no other request of the route was on its way with.                 *)
(***************************************************************************)
EXTENDS RiotSystem

VARIABLES
    refusal,    \* for each thread the ends of the windows that refuse its request
    heeded      \* for each route the ends of the windows the limiter knows to be full

refusalsVars == <<vars, refusal, heeded>>

\* The ends of the windows in which there is no room for a request.
FullEnds(bs, limits) ==
    {bs[i].ends : i \in {j \in Service!Full(bs, limits) : bs[j].ends > tick}}
FullWindows(r, m) ==
    FullEnds(used[r].app, AppLimits) \cup FullEnds(used[r].methods[m], MethodLimits)

\* A refusal has arrived at t, and insert_request has not been called with it yet.
AtHand(t) == pc[t] \in {"received_first", "received"} /\ request[t].last_response = 429

\* It is handled, and no other request of the route is on its way.
HandledAlone(t, r) ==
    /\ AtHand(t) /\ pc'[t] # pc[t]
    /\ request[t].route = r /\ Client!Unaccompanied(t)

RecordRefusals ==
    /\ refusal' = [t \in Threads |->
           IF Refuses(t) THEN FullWindows(request[t].route, request[t].method)
           ELSE IF (Refused(t) \/ AtHand(t))' THEN refusal[t] ELSE {}]
    /\ heeded' = [r \in Routes |->
           {e \in heeded[r] \cup UNION {refusal[t] : t \in {u \in Threads : HandledAlone(u, r)}} :
               e > tick'}]

RefusalsInit ==
    /\ Init
    /\ refusal = [t \in Threads |-> {}]
    /\ heeded = [r \in Routes |-> {}]

RefusalsNext == Next /\ RecordRefusals

RefusalsSpec == RefusalsInit /\ [][RefusalsNext]_refusalsVars
-----------------------------------------------------------------------------
\* A window refuses no more once the limiter has been told: as long as a window runs of
\* which a refusal was handled while no other request of the route was on its way, no
\* request is refused on that route, by whatever thread, for whatever method, and whatever
\* responses the limiter has missed.  So one such refusal ends what a race or a loss has cost:
\* insert_request puts its pause on the route's application buckets, and no thread sends.
RefusedOncePerWindow ==
    [][\A t \in Threads : Refuses(t) => heeded[request[t].route] = {}]_refusalsVars
=============================================================================
