----------------------------- MODULE RiotSystem -----------------------------
(***************************************************************************)
(* The client and the service, connected by a network that delays requests *)
(* and responses and, where Faults says so, loses them.  The client's      *)
(* clock shows the whole seconds of the service's: both are right, and the *)
(* client cannot see the fraction.                                         *)
(***************************************************************************)
EXTENDS Integers, Sequences

CONSTANTS
    Threads, Routes, Methods,
    Responses, FallbackLimits, MaxWindow, MaxTime,
    InitialErrors, DefaultHeader, MaxCalls, NoRequest,      \* see RiotClient
    AppLimits, MethodLimits, TicksPerSecond, Statuses, InitialUse,  \* see RiotService
    Faults      \* which of "lost_request" and "lost_response" happen

VARIABLES
    now, counts, initialised, errors, seen,
    pc, request, calls, current_wait, quiet,    \* see RiotClient
    used,       \* see RiotService
    fraction,   \* ticks since the clock's last whole second
    net         \* the request or response each thread waits for

clientVars == <<now, counts, initialised, errors, seen,
                pc, request, calls, current_wait, quiet>>
vars == <<clientVars, used, fraction, net>>

CprFailure == [status |-> -1, header |-> <<>>]

Client == INSTANCE RiotClient WITH Replies <- {CprFailure}
Service == INSTANCE RiotService

\* The service has limits, of whole seconds, and refuses with 429 only.
ServiceLimit == [limit: Nat \ {0}, duration: Nat \ {0}]

ASSUME ServiceAssumption ==
    /\ AppLimits \in Seq(ServiceLimit) /\ MethodLimits \in Seq(ServiceLimit)
    /\ \A i \in DOMAIN AppLimits : AppLimits[i].duration <= MaxWindow
    /\ \A i \in DOMAIN MethodLimits : MethodLimits[i].duration <= MaxWindow
    /\ TicksPerSecond \in Nat \ {0}
    /\ Statuses \subseteq Int \ {CprFailure.status, 429}
    /\ InitialUse \subseteq [count: Nat, ends: Nat]

ASSUME ClientAssumption == Client!RepliesAssumption

tick == now * TicksPerSecond + fraction

Quiet == [stage |-> "quiet", reply |-> <<>>]
Asked == [stage |-> "asked", reply |-> <<>>]
Answered(reply) == [stage |-> "answered", reply |-> reply]

TypeOK ==
    /\ Client!TypeOK
    /\ fraction \in 0 .. TicksPerSecond - 1
    /\ \A t \in Threads :
          (net[t].stage = "quiet") = (pc[t] \notin {"sent_first", "sent"})

Init ==
    /\ Client!Init
    /\ Service!Init
    /\ fraction = 0
    /\ net = [t \in Threads |-> Quiet]
-----------------------------------------------------------------------------
\* A thread moves; a request it sends enters the network.  The second may turn
\* within the step.
ThreadStep(t) ==
    /\ Client!Step(t) \/ Client!Poll(t)
    /\ net' = IF pc'[t] \in {"sent_first", "sent"} THEN [net EXCEPT ![t] = Asked] ELSE net
    /\ fraction' = IF now' = now THEN fraction ELSE 0
    /\ UNCHANGED used

Call(t, r, m) ==
    /\ Client!Query(t, r, m)
    /\ UNCHANGED <<used, fraction, net>>

\* The request of t arrives at the service.
Serve(t) ==
    LET r == request[t].route
        m == request[t].method
    IN  /\ net[t].stage = "asked"
        /\ \/ \E status \in Statuses :
                 /\ Service!Accept(r, m, tick)
                 /\ net' = [net EXCEPT ![t] = Answered(Service!Answer(r, m, tick, status))]
           \/ /\ ~Service!HasRoom(r, m, tick)
              /\ net' = [net EXCEPT ![t] = Answered(Service!Refusal(r, m, tick))]
              /\ UNCHANGED used
        /\ UNCHANGED <<clientVars, fraction>>

\* The response arrives at t.
Deliver(t) ==
    /\ net[t].stage = "answered"
    /\ Client!Receive(t, net[t].reply)
    /\ net' = [net EXCEPT ![t] = Quiet]
    /\ UNCHANGED <<used, fraction>>

\* The transfer fails, before or after the service has counted the request.
Lose(t) ==
    /\ \/ net[t].stage = "asked" /\ "lost_request" \in Faults
       \/ net[t].stage = "answered" /\ "lost_response" \in Faults
    /\ Client!Receive(t, CprFailure)
    /\ net' = [net EXCEPT ![t] = Quiet]
    /\ UNCHANGED <<used, fraction>>

Tick ==
    /\ IF fraction = TicksPerSecond - 1
       THEN Client!Tick /\ fraction' = 0
       ELSE fraction' = fraction + 1 /\ UNCHANGED clientVars
    /\ UNCHANGED <<used, net>>

Observe == Client!Observe /\ UNCHANGED <<used, fraction, net>>

Next ==
    \/ \E t \in Threads : ThreadStep(t) \/ Serve(t) \/ Deliver(t) \/ Lose(t)
    \/ \E t \in Threads, r \in Routes, m \in Methods : Call(t, r, m)
    \/ Observe
    \/ Tick

Spec == Init /\ [][Next]_vars
-----------------------------------------------------------------------------
Refused(t) == net[t].stage = "answered" /\ net[t].reply.status = 429

\* The service refuses the request of t.
Refuses(t) == ~Refused(t) /\ Refused(t)'

\* A thread alone with its key needs one refusal to learn what it has missed: the
\* attempt that follows the announced pause is not refused, although transfers that
\* failed on the way have left the limiter with too low a count, or with a window that
\* is not the service's.
NotRefusedTwice == \A t \in Threads : Refused(t) => request[t].last_response # 429

\* The limiter's buckets h are at least as full, and end at least as late, as those of
\* the service's buckets bs in which that are running.
Shadows(h, bs, which) ==
    \A i \in which :
        bs[i].ends > tick =>
            /\ i \in DOMAIN h
            /\ h[i].next_reset * TicksPerSecond >= bs[i].ends
            /\ h[i].count >= bs[i].count

\* The header comment of class ScopeCount says that the limiter tracks the state of
\* the service's "to avoid breaching limits", so of requests it has approved, all of them
\* still to be heard of, none is refused.
ApprovedNotRefused ==
    (\A t \in Threads : pc[t] = "sent") => \A t \in Threads : ~Refused(t)

\* Every query returns when threads are scheduled, the clock runs, and every
\* request is answered or fails: each wait ends, each refusal is followed by an
\* attempt the service has room for, and the 500s run out of retries.
AllReturn == \A t \in Threads : pc[t] # "idle" ~> pc[t] = "idle"
=============================================================================
