---------------------------- MODULE RateHierachy ----------------------------
(***************************************************************************)
(* class RateHierachy of handling/rate_hierachy.cpp: the buckets of one    *)
(* limit, application or method, shortest window first as the service      *)
(* lists them.  A limit header "20:1,100:120" is here the sequence of its  *)
(* parsed parts, a count header the sequence of its counts (the code reads *)
(* them by position and drops their durations); <<>> is a header with no   *)
(* well-formed part.                                                       *)
(***************************************************************************)
EXTENDS ScopeCount, Sequences, FiniteSetsExt

LimitPart == [limit: Int, duration: Int]

\* RateHierachy(description): every bucket of the header, none used yet.
HierachyOf(limits) ==
    [i \in DOMAIN limits |-> NewScope(limits[i].duration, limits[i].limit, 0)]

\* The side effect of every reader: expired buckets forget their counts.
HierachyUpdateCount(h, clock) ==
    [i \in DOMAIN h |-> ScopeUpdateCount(h[i], clock, FALSE)]

\* get_wait_time, its value.
HierachyWaitTime(h, clock) ==
    Max({0} \cup {ScopeWaitTime(h[i], clock) : i \in DOMAIN h})

HierachyInsertRequest(h, server_time, clock) ==
    [i \in DOMAIN h |-> ScopeInsertRequest(h[i], server_time, clock)]

\* hierachy_.back().apply_retry_after(...), the bucket with the longest window.
RetryOnBack(h, retry, server_time) ==
    IF h = <<>> THEN h
    ELSE [h EXCEPT ![Len(h)] = ScopeApplyRetryAfter(@, retry, server_time)]

\* Faulty: the announced counts are not used.
CountAtIgnored(counts, i) == 1

\* The announced count of bucket i; a missing one counts this request alone.
CountAt(counts, i) == IF i \in DOMAIN counts THEN counts[i] ELSE 1

\* The header lists other buckets than we track, or we track none yet.
Rebuilt(h, limits) ==
    \/ Len(h) # Len(limits)
    \/ Len(h) = 1 /\ h[1].duration = 0

\* The loop of sync_from_headers over the announced buckets.
SyncBuckets(h, limits, counts, server_time, retry) ==
    LET base == IF Rebuilt(h, limits) THEN HierachyOf(limits) ELSE h
        synced(i) == ScopeSyncFromServer(base[i], CountAt(counts, i),
                                         limits[i].limit, limits[i].duration, server_time)
    IN  [i \in DOMAIN limits |->
            IF CountAt(counts, i) >= limits[i].limit
            THEN ScopeApplyRetryAfter(synced(i), retry, server_time)
            ELSE synced(i)]

\* Faulty: only full buckets are paused.
EnforceRetryOnFull(h, retry, server_time, clock) == h

\* The tail of sync_from_headers: a pause no bucket accounts for is put on the
\* last one.  get_wait_time reads the clock again and drops expired counts.
EnforceRetry(h, retry, server_time, clock) ==
    LET settled == HierachyUpdateCount(h, clock)
    IN  IF retry = 0 THEN h
        ELSE IF HierachyWaitTime(settled, clock) < retry
             THEN RetryOnBack(settled, retry, server_time)
             ELSE settled

\* sync_from_headers
HierachySyncFromHeaders(h, limits, counts, server_time, clock, retry) ==
    IF limits = <<>>
    THEN RetryOnBack(HierachyInsertRequest(h, server_time, clock), retry, server_time)
    ELSE EnforceRetry(SyncBuckets(h, limits, counts, server_time, retry),
                      retry, server_time, clock)
=============================================================================
