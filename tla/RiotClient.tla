----------------------------- MODULE RiotClient -----------------------------
(***************************************************************************)
(* class RiotApiClient of client/client.cpp, used by several threads at    *)
(* once.  A call of an endpoint runs query: the first request of all goes  *)
(* out at once and initialises the limiter; every other request asks the   *)
(* limiter, waits until the second it names, is sent, and its response is  *)
(* given to the limiter and reviewed, until a response ends the query.     *)
(*                                                                         *)
(* The threads share the rate limiter (under its mutex), the error         *)
(* counters and current_wait_seconds_ (under none), so each step between   *)
(* two uses of them is an action.  The service may answer anything in      *)
(* Replies; RiotSystem replaces that by a model of the service.            *)
(***************************************************************************)
EXTENDS Integers, Sequences, FiniteSets

CONSTANTS
    Threads, Routes, Methods,
    Responses, FallbackLimits, MaxWindow, MaxTime,  \* see RateHandler
    InitialErrors,  \* see ResponseHandler
    DefaultHeader,  \* a RiotHeader before any response
    Replies,        \* the answers of the service, and the failure of a transfer
    MaxCalls,       \* bound on the queries
    NoRequest       \* what an idle thread has

CprError == -1      \* last_response after a transfer that failed
NotSent == -2       \* last_response of a new request
NoHeader == -1      \* an empty retry_after, as in RateHandler

VARIABLES
    now, counts, initialised,   \* the rate limiter, see RateHandler
    errors, seen,               \* the response handler, see ResponseHandler
    pc,             \* where each thread is in query; "idle" outside of it
    request,        \* the request of each thread
    calls,          \* the queries made so far
    current_wait,   \* current_wait_seconds_
    quiet           \* history: until when the service asked for silence, see Update

limiter == <<now, counts, initialised>>
handler == <<errors, seen>>
client == <<pc, request, calls, current_wait, quiet>>
vars == <<limiter, handler, client>>

Limiter == INSTANCE RateHandler
Handler == INSTANCE ResponseHandler

\* struct query.  History: denials, the 500s it has met since a 429 was reviewed on its
\* route; unreviewed, whether one of them answered an unapproved first attempt;
\* silence, the second until which the response at hand asks for silence.
Request == [route: Routes, method: Methods, send_time: Nat, last_response: Int,
            response_header: Limiter!RiotHeader,
            denials: Nat, unreviewed: BOOLEAN, silence: Nat]

\* The headers with no window or pause longer than MaxWindow.
AnnouncedHeader ==
    {h \in Limiter!RiotHeader :
        /\ Limiter!AnnouncesAtMost(h.app_limit, MaxWindow)
        /\ Limiter!AnnouncesAtMost(h.method_limit, MaxWindow)
        /\ h.retry_after <= MaxWindow}

\* The headers in a reply replace those the request has.
Overwrite(header, old) ==
    [f \in DOMAIN old |-> IF f \in DOMAIN header THEN header[f] ELSE old[f]]

\* An answer brings some of the headers of a request, a failed transfer none.
WellFormed(reply) ==
    /\ reply.status \in Int
    /\ Overwrite(reply.header, DefaultHeader) \in AnnouncedHeader
    /\ reply.status = CprError => DOMAIN reply.header = {}

ASSUME RepliesAssumption ==
    /\ MaxWindow \in Nat /\ MaxWindow >= 2 /\ MaxTime \in Nat /\ MaxCalls \in Nat
    /\ FallbackLimits \in Seq(Limiter!LimitPart) \ {<<>>}
    /\ Limiter!AnnouncesAtMost(FallbackLimits, MaxWindow)
    /\ InitialErrors \subseteq Int
    /\ DefaultHeader \in AnnouncedHeader
    /\ NoRequest \notin Request
    /\ \A reply \in Replies : WellFormed(reply)

NewRequest(r, m) ==
    [route |-> r, method |-> m, send_time |-> 0, last_response |-> NotSent,
     response_header |-> DefaultHeader, denials |-> 0, unreviewed |-> FALSE, silence |-> 0]

Labels == {"idle", "start", "first", "sent_first", "received_first",
           "check", "wait", "sent", "received", "review", "count", "decide"}

TypeOK ==
    /\ Limiter!TypeOK
    /\ Handler!TypeOK
    /\ pc \in [Threads -> Labels]
    /\ request \in [Threads -> Request \cup {NoRequest}]
    /\ calls \in 0 .. MaxCalls
    /\ current_wait \in Nat
    /\ quiet \in [Routes -> [Methods -> Nat]]

Init ==
    /\ Limiter!Init
    /\ Handler!Init
    /\ pc = [t \in Threads |-> "idle"]
    /\ request = [t \in Threads |-> NoRequest]
    /\ calls = 0
    /\ current_wait = 0
    /\ quiet = [r \in Routes |-> [m \in Methods |-> 0]]
-----------------------------------------------------------------------------
(* query, by the thread that runs it. *)

Goto(t, label) == pc' = [pc EXCEPT ![t] = label]

\* An endpoint is called: EndpointMethod builds the request and enters query.
Query(t, r, m) ==
    /\ pc[t] = "idle" /\ calls < MaxCalls
    /\ request' = [request EXCEPT ![t] = NewRequest(r, m)]
    /\ calls' = calls + 1
    /\ Goto(t, "start")
    /\ UNCHANGED <<limiter, handler, current_wait, quiet>>

\* is_initialized: without limits to go by, the request is sent unasked.
IsInitialized(t) ==
    /\ pc[t] = "start"
    /\ Goto(t, IF initialised THEN "check" ELSE "first")
    /\ UNCHANGED <<limiter, handler, request, calls, current_wait, quiet>>

\* The first half of get: the request goes out.
SendFirst(t) ==
    /\ pc[t] = "first"
    /\ Goto(t, "sent_first")
    /\ UNCHANGED <<limiter, handler, request, calls, current_wait, quiet>>

\* The limiter leaves the second to wait for in the request.
CheckRateLimits(t) ==
    LET r == request[t].route
        m == request[t].method
    IN  /\ pc[t] = "check"
        /\ Limiter!CheckRateLimits(r, m)
        /\ request' = [request EXCEPT ![t].send_time = Limiter!SendTime(r, m, @)]
        /\ Goto(t, "wait")
        /\ UNCHANGED <<handler, calls, current_wait, quiet>>

\* Faulty: the clock is not compared with the second waited for.
PollUnguarded(t) ==
    /\ pc[t] = "wait"
    /\ current_wait' = request[t].send_time - now
    /\ UNCHANGED <<limiter, handler, pc, request, calls, quiet>>

\* wait_until polls the clock; what it has left to wait, any thread may read.
Poll(t) ==
    /\ pc[t] = "wait" /\ now < request[t].send_time
    /\ current_wait' = request[t].send_time - now
    /\ UNCHANGED <<limiter, handler, pc, request, calls, quiet>>

\* Faulty: the wait shown is not taken back.
SendShowingWait(t) ==
    /\ pc[t] = "wait" /\ now >= request[t].send_time
    /\ Goto(t, "sent")
    /\ UNCHANGED <<limiter, handler, request, calls, current_wait, quiet>>

\* wait_until returns and get sends.
Send(t) ==
    /\ pc[t] = "wait" /\ now >= request[t].send_time
    /\ current_wait' = 0
    /\ Goto(t, "sent")
    /\ UNCHANGED <<limiter, handler, request, calls, quiet>>

\* The second half of get.  Only the headers present in the response replace the
\* ones the request already has, from an earlier attempt or from RiotHeader's
\* defaults.
Receive(t, reply) ==
    /\ pc[t] \in {"sent_first", "sent"}
    /\ request' = [request EXCEPT
           ![t].last_response = reply.status,
           ![t].response_header = IF reply.status = CprError THEN @
                                 ELSE Overwrite(reply.header, @),
           ![t].silence = IF "retry_after" \in DOMAIN reply.header
                          THEN now + Limiter!Larger(0, reply.header.retry_after) ELSE 0]
    /\ Goto(t, IF pc[t] = "sent" THEN "received" ELSE "received_first")
    /\ UNCHANGED <<limiter, handler, calls, current_wait, quiet>>

\* Between a check that may let t's request go and the limiter's hearing of it.
InFlight(t) ==
    pc[t] \in {"first", "sent_first", "received_first", "wait", "sent", "received"}

\* No other thread has a request on its way on the route of t.
Unaccompanied(t) ==
    ~\E u \in Threads \ {t} : InFlight(u) /\ request[u].route = request[t].route

\* query returns the content to its caller; the request is destroyed.
Return(t) ==
    /\ Goto(t, "idle")
    /\ request' = [request EXCEPT ![t] = NoRequest]

\* The loop is entered past the review of the first attempt's response: a 500 is
\* met there that review_request never counts.
Unreviewed(t) == pc[t] = "received_first" /\ request[t].last_response = 500

\* Query q once its response has been heard.
Heard(q, unreviewed) ==
    [q EXCEPT !.silence = 0,
              !.denials = IF unreviewed THEN @ + 1 ELSE @,
              !.unreviewed = unreviewed \/ @]

\* validate_request, unless the transfer failed, and the return on 200.
Update(t) ==
    LET q == request[t]
    IN  /\ pc[t] \in {"received_first", "received"}
        /\ IF q.last_response = CprError
           THEN UNCHANGED limiter
           ELSE Limiter!InsertRequest(q.route, q.method,
                    [last_response |-> q.last_response, response_header |-> q.response_header])
        /\ quiet' = IF Unaccompanied(t)
                    THEN [quiet EXCEPT ![q.route][q.method] = Limiter!Larger(@, q.silence)]
                    ELSE quiet
        /\ IF q.last_response = 200
           THEN Return(t)
           ELSE /\ Goto(t, IF pc[t] = "received" THEN "review" ELSE "check")
                /\ request' = [request EXCEPT ![t] = Heard(@, Unreviewed(t))]
        /\ UNCHANGED <<handler, calls, current_wait>>

\* No 500 counts against query q any more.
Forgiven(q) == [q EXCEPT !.denials = 0, !.unreviewed = FALSE]

\* review_request of a 429 (a 200 has returned): send again.
ReviewRefusal(t) ==
    /\ pc[t] = "review" /\ request[t].last_response = 429
    /\ Handler!ResetServerErrorCount(request[t].route)
    /\ request' = [u \in Threads |->
           IF request[u] # NoRequest /\ request[u].route = request[t].route
           THEN Forgiven(request[u]) ELSE request[u]]
    /\ Goto(t, "check")
    /\ UNCHANGED <<limiter, calls, current_wait, quiet>>

\* review_request of a 500: handle_server_error in its three steps.
ReviewServerError(t) ==
    /\ pc[t] = "review" /\ request[t].last_response = 500
    /\ Handler!ReadErrorCount(t, request[t].route)
    /\ request' = [request EXCEPT ![t].denials = @ + 1]
    /\ Goto(t, "count")
    /\ UNCHANGED <<limiter, calls, current_wait, quiet>>

CountServerError(t) ==
    /\ pc[t] = "count"
    /\ Handler!WriteErrorCount(t, request[t].route)
    /\ Goto(t, "decide")
    /\ UNCHANGED <<limiter, request, calls, current_wait, quiet>>

DecideServerError(t) ==
    /\ pc[t] = "decide"
    /\ IF Handler!Resend(request[t].route)
       THEN Goto(t, "check") /\ UNCHANGED request
       ELSE Return(t)
    /\ UNCHANGED <<limiter, handler, calls, current_wait, quiet>>

\* Faulty: whatever is not a server error is tried again.
ReviewFailureRetrying(t) ==
    /\ pc[t] = "review" /\ request[t].last_response \notin {429, 500}
    /\ Goto(t, "check")
    /\ UNCHANGED <<limiter, handler, request, calls, current_wait, quiet>>

\* review_request of anything else: the query fails.
ReviewFailure(t) ==
    /\ pc[t] = "review" /\ request[t].last_response \notin {429, 500}
    /\ Return(t)
    /\ UNCHANGED <<limiter, handler, calls, current_wait, quiet>>

\* What a thread does by itself, its response apart.
Step(t) ==
    \/ IsInitialized(t) \/ SendFirst(t) \/ CheckRateLimits(t) \/ Send(t) \/ Update(t)
    \/ ReviewRefusal(t) \/ ReviewServerError(t) \/ CountServerError(t)
    \/ DecideServerError(t) \/ ReviewFailure(t)
-----------------------------------------------------------------------------
\* get_wait_time_breakdown and get_rate_limit_snapshot, from any thread.
Observe ==
    /\ \/ \E r \in Routes, m \in Methods : Limiter!GetWaitTimeBreakdown(r, m)
       \/ Limiter!GetSnapshot
    /\ UNCHANGED <<handler, client>>

Tick == Limiter!Tick /\ UNCHANGED <<handler, client>>

\* Everything but the responses.
Internal ==
    \/ \E t \in Threads : Step(t) \/ Poll(t)
    \/ \E t \in Threads, r \in Routes, m \in Methods : Query(t, r, m)
    \/ Observe
    \/ Tick

Next == Internal \/ \E t \in Threads, reply \in Replies : Receive(t, reply)

Spec == Init /\ [][Next]_vars
-----------------------------------------------------------------------------
(* Properties of the client, whatever the service answers. *)

Sends(t) == pc[t] \in {"first", "wait"} /\ pc'[t] \in {"sent_first", "sent"}

Returns(t) == pc[t] # "idle" /\ pc'[t] = "idle"

\* No request is sent before the Retry-After of every response on its route and
\* method has passed: through the repetition of the attempt that was refused and
\* through the queries of any thread, with whatever mixture of bare, partial and
\* malformed headers came in between.  The exception is a response that is handled
\* while another thread's request is on its way on the route: that one may have
\* been approved already, and its answer may put an older count in place.
RetryAfterHonoured ==
    [][\A t \in Threads :
          Sends(t) => now >= quiet[request[t].route][request[t].method]]_vars

\* A query that meets nothing but 500s gives up: by its MAX_INTERNAL_DENIALS-th in a
\* row when it is alone, one later for every other thread, since each may still write
\* back a counter it has read before (handlers.cpp, handle_server_error), and one later
\* when its first attempt went out unapproved and met a 500, which nobody reviews
\* (client.cpp, query).  Of a counter that happens to begin below 0, as an uninitialised
\* int may, this is not true: InitialErrors must not have one.
RetriesBounded ==
    \A t \in Threads :
        pc[t] # "idle" =>
            request[t].denials < Handler!MaxInternalDenials + Cardinality(Threads)
                                     + (IF request[t].unreviewed THEN 1 ELSE 0)

\* What current_wait_seconds shows is some thread's wait: while no thread waits
\* it is 0, although every thread writes it as it pleases.
WaitShownIsReal ==
    current_wait > 0 => \E t \in Threads : pc[t] = "wait"

-----------------------------------------------------------------------------
(* What the documentation and the comments say, and the code does not do. *)

\* The README says that the client "will retry when a successful request is
\* possible (429, 500, 503 errors)": no query fails on its first 500.
ServerErrorRetried ==
    [][\A t \in Threads :
          Returns(t) /\ request[t].last_response = 500 => request[t].denials > 1]_vars

\* "Successful requests will overwrite" the headers of a request: after a 200 that
\* announces room in every bucket, the next request need not wait.
SuccessOpensGate ==
    [][\A t \in Threads, r \in Routes, m \in Methods :
          LET header == request[t].response_header
          IN  /\ Returns(t) /\ request[t].last_response = 200
              /\ request[t].route = r /\ request[t].method = m
              /\ Limiter!BelowLimits(header.app_limit, header.app_limit_count)
              /\ Limiter!BelowLimits(header.method_limit, header.method_limit_count)
              => Limiter!WaitTime(r, m, now)' = 0]_vars
=============================================================================
