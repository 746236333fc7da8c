----------------------------- MODULE ScopeCount -----------------------------
(***************************************************************************)
(* One bucket of a rate limit, class ScopeCount of handling/scope_count.h: *)
(* "at most limit requests in duration seconds".  The class keeps a        *)
(* shadow of the bucket the Riot service keeps, so every operation reads a *)
(* clock; here the clock readings are parameters.  Seconds are Nat: the    *)
(* 32-bit unsigned seconds of the code wrap in 2106.                       *)
(***************************************************************************)
EXTENDS Integers

Scope == [duration: Int, limit: Int, count: Int, next_reset: Nat]

\* A freshly constructed bucket: its window is not running.
NewScope(duration, limit, count) ==
    [duration |-> duration, limit |-> limit, count |-> count, next_reset |-> 0]

\* std::max
Larger(a, b) == IF a >= b THEN a ELSE b

\* The window of s is over at time t, or never ran.
Expired(s, t) == t >= s.next_reset

\* update_count: an expired bucket forgets its count, and opens a new window
\* when the caller has just made a request.
ScopeUpdateCount(s, clock, update_reset) ==
    IF Expired(s, clock)
    THEN [s EXCEPT !.count = 0,
                   !.next_reset = IF update_reset /\ s.duration > 0
                                  THEN clock + s.duration ELSE @]
    ELSE s

\* insert_request: server_time was read earlier than the clock of update_count.
ScopeInsertRequest(s, server_time, clock) ==
    [ScopeUpdateCount(s, clock, Expired(s, server_time)) EXCEPT !.count = @ + 1]

\* Faulty: a window that is over keeps its end unless its count starts anew.
ScopeSyncKeepsWindow(s, count, limit, duration, server_time) ==
    [duration   |-> duration,
     limit      |-> limit,
     count      |-> count,
     next_reset |-> IF Expired(s, server_time)
                    THEN server_time + Larger(1, duration) ELSE s.next_reset]

\* Faulty: the window runs backwards from the response.
ScopeSyncBackwards(s, count, limit, duration, server_time) ==
    [duration   |-> duration,
     limit      |-> limit,
     count      |-> count,
     next_reset |-> server_time - Larger(1, duration)]

\* sync_from_server: take over what the service announced; a new window starts
\* when ours is over or the service has counted only this request.
ScopeSyncFromServer(s, count, limit, duration, server_time) ==
    [duration   |-> duration,
     limit      |-> limit,
     count      |-> count,
     next_reset |-> IF Expired(s, server_time) \/ count <= 1
                    THEN server_time + Larger(1, duration)
                    ELSE s.next_reset]

\* Faulty: the pause is put on top of the running window.
ScopeApplyRetryStacked(s, retry_seconds, server_time) ==
    IF retry_seconds > 0
    THEN [s EXCEPT !.count = Larger(@, s.limit),
                   !.next_reset = Larger(@, server_time) + retry_seconds]
    ELSE s

\* apply_retry_after: full for at least retry_seconds; a window that ends later
\* keeps its end.
ScopeApplyRetryAfter(s, retry_seconds, server_time) ==
    IF retry_seconds > 0
    THEN [s EXCEPT !.count = Larger(@, s.limit),
                   !.next_reset = Larger(@, server_time + retry_seconds)]
    ELSE s

\* get_wait_time, its value; its side effect is ScopeUpdateCount(s, clock, FALSE).
ScopeWaitTime(s, clock) ==
    IF s.count >= s.limit /\ ~Expired(s, clock) THEN s.next_reset - clock ELSE 0
=============================================================================
