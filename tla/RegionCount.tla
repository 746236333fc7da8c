---------------------------- MODULE RegionCount -----------------------------
(***************************************************************************)
(* class RegionCount of handling/region_count.cpp: everything the limiter  *)
(* knows about one routing value: the application buckets and, for every   *)
(* method seen there, that method's buckets.  A method without an entry in *)
(* the code's map has <<>> here: both have no bucket and no wait, and the  *)
(* first response builds the buckets its header announces in either case.  *)
(***************************************************************************)
EXTENDS RateHierachy

CONSTANT Methods      \* the method keys of query/endpoints.h

Region == [app: Seq(Scope), methods: [Methods -> Seq(Scope)], active: BOOLEAN]

\* A region before the limiter is initialised: app_limits_ = {{0}, {0}, {0}}.
NewRegion ==
    [app |-> <<NewScope(0, 0, 0)>>, methods |-> [m \in Methods |-> <<>>], active |-> FALSE]

\* init_limits: only the application buckets are replaced.
RegionInitLimits(region, limits) == [region EXCEPT !.app = HierachyOf(limits)]

\* get_wait_time
RegionWaitTime(region, m, clock) ==
    Larger(HierachyWaitTime(region.app, clock), HierachyWaitTime(region.methods[m], clock))

\* The side effect of reading the waits of the application and of the methods in ms.
RegionUpdateCount(region, ms, clock) ==
    [region EXCEPT
        !.app = HierachyUpdateCount(@, clock),
        !.methods = [m \in Methods |-> IF m \in ms THEN HierachyUpdateCount(@[m], clock)
                                                   ELSE @[m]]]

\* insert_request_with_headers: a response to method m, its headers in header.
RegionInsertWithHeaders(region, m, header, server_time, clock, retry) ==
    [region EXCEPT
        !.app = HierachySyncFromHeaders(@, header.app_limit, header.app_limit_count,
                                        server_time, clock, retry),
        !.methods[m] = HierachySyncFromHeaders(@, header.method_limit,
                                               header.method_limit_count,
                                               server_time, clock, retry),
        !.active = TRUE]
=============================================================================
