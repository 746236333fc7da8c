# riot-cpp in TLA+

A model of [riot-cpp](../src/README.md), a C++ client of the Riot Games API, in TLA+:
the rate limiter and the request loop that uses it, composed with a model of the
service they talk to, the parser of the headers the limiter lives on, and the way from an
endpoint's arguments to a URL and a bucket; checked with TLC on small instances and, all but
liveness, proved with TLAPS for every value of the constants.
Paths below are relative to `src/src/riot-cpp/`.

## 1. The system

### Components

| Component | Code | State | Operations | What makes it correct |
|---|---|---|---|---|
| Bucket | `handling/scope_count.h`, `ScopeCount` | `duration`, `limit`, `count`, `next_reset` | `update_count`, `insert_request`, `sync_from_server`, `apply_retry_after`, `get_wait_time` | it is never emptier, nor over earlier, than the service's bucket it shadows |
| Buckets of a limit | `handling/rate_hierachy.cpp`, `RateHierachy` | a vector of buckets | construction from a limit header, `insert_request`, `sync_from_headers`, `get_wait_time` | after a response its wait covers every pause announced |
| Limits of a route | `handling/region_count.cpp`, `RegionCount` | application buckets, a map of method buckets, `active` | `init_limits`, `insert_request_with_headers`, `get_wait_time`, `is_active` | methods do not disturb one another |
| Header parser | `extract_duration_limits`, the same in `handling/rate_hierachy.cpp` and `handling/rate_handler.cpp` | two vectors | a loop over the parts of a header | it ends, and reads what is well formed |
| Rate limiter | `handling/rate_handler.cpp`, `RateHandler` | three arrays of `RegionCount`, `initialised`, `mutex_` | `check_rate_limits`, `insert_request`, `get_wait_time_breakdown`, `get_snapshot` | waits are enforced, bounded, and changed by nothing but responses and time |
| Response review | `handling/handlers.cpp`, `ResponseHandler`, `RequestHandler` | counters of 500s and 503s per route, unlocked | `review_request`, `handle_server_error`, `reset_server_error_count` | retries are bounded, what can be retried is |
| Client | `client/client.cpp`, `RiotApiClient` | the limiter, the review, `current_wait_seconds_`, the API key header | `query`, `get`, `wait_until`, `get_wait_time_breakdown`, `get_rate_limit_snapshot`, `update_api_key` | every query returns; no request is sent too early |
| Requests, endpoints | `query/endpoints.h` | a `query` per call: route, `send_time`, `last_response`, `response_header` | `EndpointMethod::operator()`, `send_` | a request goes to a route its endpoint serves, and is counted where the service counts it |
| Routing values | `types/region_enums.cpp`, `types/args.h` | none | conversions between names, enumerators and hosts | host and limiter slot belong together |
| URLs | `query/url.h` | none | `construct_url_path` | no argument makes the URL of another method |
| Logging | `logging/logger.cpp` | spdlog's | `initialize`, `get` | output only |
| Riot service, network | not in the repository | its buckets | answers, refusals, lost transfers | - |

### How they interact

The user calls an endpoint from any thread. `EndpointMethod` parses the routing value,
puts the URL together, builds a `query` object and calls `RiotApiClient::query`, which runs in the caller's
thread until it has a final response:

1. If the limiter has not been initialised, the request is sent at once, and its
   response initialises the limiter.
2. Otherwise, or when that first attempt failed, it loops: `check_rate_limits` puts the
   second to wait for into the request; `wait_until` polls the clock; `get` sends the
   request and parses its response into the request; `insert_request` gives the response
   to the limiter; a 200 ends the query, and for anything else `review_request` decides
   whether to go round again.

Threads share the limiter (each operation under its mutex), the error counters and
`current_wait_seconds_` (each under nothing). The limiter learns of a request only from
its response. The user may ask for waits and snapshots at any time; both *write* to the
buckets they read, because every reader resets expired counts.

### What is hard about it

- *Interleavings.* Between a thread's check and its response any number of threads
  can be checked, send and be answered, in any order; several threads can be the first.
- *Shadowing.* The limiter infers the service's windows from counts in headers, with
  a clock cut to whole seconds, while responses are delayed or lost.
- *Retries.* A request object is reused by its retries, and with it the headers of
  earlier attempts; the counter that ends the retries belongs to all threads.
- *Malformed input.* Every header of every response is parsed with the mutex held, into two
  vectors that are indexed as one.
- *Waiting.* Every wait is recomputed after every refusal; nothing but the headers
  bounds it.

`PROJECT.json` lists these hazards one by one, at their lines, with the properties aimed
at each.

## 2. The modules

| Module | Models | Uses |
|---|---|---|
| `ScopeCount` | a bucket: one operator per method of the class | - |
| `RateHierachy` | the buckets of a limit, `sync_from_headers` | extends `ScopeCount` |
| `RegionCount` | the limits of a route | extends `RateHierachy` |
| `RateHandler` | the limiter: a state machine with an action per public operation | extends `RegionCount` |
| `RateGate` | abstract: what the limiter promises a thread about to send | - |
| `GatedRateHandler` | the limiter with its responses counted, and the mapping to `RateGate` | extends `RateHandler` |
| `HeaderParser` | the loop of `extract_duration_limits`, a turn per action | - |
| `ResponseHandler` | the error counters, with the unlocked increment in its steps | - |
| `RiotClient` | the request loop, one program counter per thread | `RateHandler`, `ResponseHandler` (INSTANCE) |
| `RiotService` | external: fixed-window limits as the client takes them to be | - |
| `RiotSystem` | client, service and network | `RiotClient`, `RiotService` (INSTANCE) |
| `RiotRaces` | the system with a history of its races and lost responses | extends `RiotSystem` |
| `RiotRefusals` | the system with a history of the windows that have refused | extends `RiotSystem` |
| `Routing` | routing values, endpoint kinds, hosts: operators only | - |
| `EndpointTable` | the methods of all endpoints: a table | - |
| `Endpoints` | `EndpointMethod::operator()` and `get_wait_time_breakdown`, up to the limiter | extends `Routing`, `EndpointTable` |
| `MC*` | values for constants, symmetry, fairness | the module they are named after |
| `RateHandlerProofs`, `GatedRateHandlerProofs` | proofs about the limiter and its abstraction | the modules they are named after |
| `RiotClientProofs`, `RiotClientRetryProofs` | proofs about the client; the second about its retries | `RiotClient`, `RateHandlerProofs` (INSTANCE) |
| `RiotSystemProofs` | proofs that hold of the client in the system, and about refusals | `RiotSystem`, `RiotRefusals`, `RiotClientProofs` (INSTANCE) |
| `RiotRacesProofs` | proofs about races and what the limiter knows of the service | `RiotRaces`, extends `RiotSystemProofs` |
| `HeaderParserProofs`, `EndpointsProofs` | proofs about the parser; about routes, hosts and URLs | the modules they are named after |

A definition named `...` with a comment `\* Faulty:` is a plausible mistake in the
definition that follows it (a dropped guard, a swapped order, a missing reset). Nothing
uses it; `PROJECT.json` (`mutants`) says which property must notice if it took the place
of its original.

### State and code

- `now` is `system_clock` in whole seconds, as `time_point_cast<seconds>` cuts it.
  Operations that read the clock twice (`insert_request`: `server_time`, then
  `update_count`; `check_rate_limits`: the wait, then `send_time`) may see the second
  turn in between: `now' \in {now, now + 1}`.
- `counts[r]` is the `RegionCount` of route `r`. The three arrays and their indices are
  one set `Routes`. A method without an entry in the map `method_limits_` is `<<>>`.
- A request's `response_header` is a record of parsed headers: a limit header is a sequence
  of `[limit, duration]`, a count header a sequence of counts, for the code reads counts by
  position. `retry_after = NoHeader` is the empty string. A header that does not
  parse at all is `<<>>`.
- `pc[t]` follows `query`: `start` (is_initialized), `first` / `sent_first` /
  `received_first` (the unapproved first request), `check`, `wait`, `sent`, `received`
  (validate), `review`, `count`, `decide` (review_request and the increment in
  handle_server_error).
- `get` is two steps, since other threads run while the request travels: the request
  leaves (`SendFirst`, `Send`), the response arrives (`Receive`).
- `Receive` keeps what `get` keeps: only headers present in the response replace those
  the request has, so `header` is a record with some of the fields of `RiotHeader`, laid over
  the request's by `Overwrite`. A failed transfer (`CprError`) replaces nothing.
- `errors[r]` is entry 0 of the error counter of `r`; `errors[r] += 1` and the comparison
  are a read, a write and a read (`ReadErrorCount`, `WriteErrorCount`, `Resend`). The
  counters start anywhere in `InitialErrors`, for nothing initialises them.
- `calls` counts the queries of all threads; `MaxCalls` bounds it.
- History variables, which no guard but a bound reads: `responses` (in `GatedRateHandler`)
  counts the responses; `quiet` (in `RiotClient`) holds, by route and method, until when a response
  asked for silence, unless another request of the route was in flight when it was handled;
  a request's `silence` carries that second from `Receive` to `Update`, its `denials` counts the
  500s it has met since a 429 on its route was reviewed, and `unreviewed` says that one of them
  answered an unapproved first attempt, past which the loop is entered
  (`client/client.cpp:202-212`); `raced` (in `RiotRaces`) is the last tick at
  which two requests of a route were between check and insertion, or a response of the route was
  lost; `refusal` and `heeded` (in
  `RiotRefusals`) are the ends of the windows that refuse a request, on the way to the limiter and
  known to it, as long as they run.
- `HeaderParser` takes a header as a sequence of tokens: the separators, numerals, and
  anything else. `find`, `substr` and `stoi` are what they are in the standard library:
  `substr` with an end before its beginning runs to the end of the header, for
  the length is unsigned; `stoi` reads a leading numeral and throws without one. Positions
  count from 1. The map names the copy in `rate_handler.cpp` for some lines and the one in
  `rate_hierachy.cpp` for others; they do not differ.
- In `Endpoints` a text is a sequence of words, some of them reserved characters; a part of a
  URL is a sequence of tokens, of which an encoded text is one. A path is compared
  from its base on, since everything before it is made from the host alone.
- `RiotService.used` are the service's buckets; a second is `TicksPerSecond` of its ticks.

## 3. What the runs check

All runs: two workers, below five minutes.

| Run | Module | Shows |
|---|---|---|
| `MCRateHandler` | `MCRateHandler` | the limiter alone: `TypeOK`, `WaitBounded`, `RetryAfterEnforced`, `LiveBucketsStable`, and `ImplementsGate` (refinement) |
| `MCThreads` | `MCRiotClient` | two threads, every interleaving of two queries with any answers: `TypeOK`, `WaitShownIsReal`, `RetriesBounded`, `RetryAfterHonoured` |
| `MCAlone` | `MCRiotRaces` | one thread against the service, with 500s, lost requests and responses, uninitialised error counters and buckets in use: `TypeOK`, `RefusedOnlyAtFirst`, `ShadowsUnraced`, `NotRefusedTwice`, `AllReturn` |
| `MCRaces` | `MCRiotRaces` | two threads against the service: `RefusedOnlyInRace`, `ShadowsUnraced` |
| `MCReturns` | `MCRiotRefusals` | two threads, races, refusals, lost responses: `AllReturn`, `RefusedOncePerWindow` |
| `MCEndpoints` | `MCEndpoints` | all methods of all endpoints, all names: `OwnKindOnly`, `HostNamesRoute`, `BreakdownOfCalledRoute`, `UrlNamesBucket`, `QueryReadBack` |
| `MCHeaderParser` | `MCHeaderParser` | all headers of three parts: `NoReadPastEnd`, `LeadingPartsKept`, `ReadPartByPart`, `Terminates` |

- `WaitBounded`: no wait exceeds the longest window or pause announced.
- `RetryAfterEnforced`: when `insert_request` has handled a response with a pause, the
  wait of its route and method covers that pause, however the headers look.
- `LiveBucketsStable`: a running bucket is changed only by a response of its own route;
  readers, other routes and a second initialisation leave it alone.
- `ImplementsGate`: mapped to "closed until second c", the limiter is `RateGate`.
- `RetryAfterHonoured`: no thread sends before the Retry-After of any earlier response on
  the same route and method has passed, unless that response was handled while another request
  of the route was in flight: a late answer may put an older count in place of a
  refusal's, and so cancel its pause (`scope_count.h:95-103`).
- `RetriesBounded`: a query that meets only 500s gives up at its second one, or one later for
  every other thread, for `errors += 1` without a lock may write an old count back, and one later
  again when its unapproved first attempt met a 500, which `review_request` never sees. Both
  bounds are met: with one less of either, TLC finds the schedule.
- `WaitShownIsReal`: the wait shown to the user belongs to a thread that is waiting.
- `RefusedOnlyAtFirst`: where no requests have raced and no response was lost, as with a thread
  alone with its key before the first loss, a request is refused only where nothing has
  been heard yet.
- `RefusedOnlyInRace`, about the step in which the service refuses: with several threads, also
  in a window in which requests have raced or a response was lost.
  How far a race overruns a window is up to the number of threads; that it costs only
  the window it happens in is the property.
- `ShadowsUnraced`, the reason for both: between requests, the limiter's buckets are at least as
  full, and end at least as late, as those of the service whose window has seen neither race nor
  loss. With one thread there are no races, and this is said of every bucket that has opened
  since the last loss.
- `NotRefusedTwice`: with lost responses the limiter's counts are too low, and its
  windows may be the wrong ones; one refusal puts that right.
- `RefusedOncePerWindow`: of several threads, with whatever races and losses, a window of the
  service refuses no more once a refusal of it has been handled while no other request of the route
  was on its way. The exception is real: an older answer in flight can cancel the pause.
- `AllReturn`: every query returns.
- `OwnKindOnly`, `HostNamesRoute`, `BreakdownOfCalledRoute`: a request goes to a shard of the
  kind its endpoint serves, the host asked and the limiter's slot are one route's, and the
  wait shown for a name is that of requests made with it, but for `KR` on Valorant.
- `UrlNamesBucket`: a URL belongs to one method and one method key to one method, whatever
  the arguments contain, so that a request is counted under the key of what it asks for.
- `QueryReadBack`: the service reads the parameters that were given, without those that have no key.
- `NoReadPastEnd`: the vectors of limits and durations can be indexed by the durations.
- `LeadingPartsKept`, `ReadPartByPart`: the parts before the first malformed one are
  read as they stand; and so are all well-formed parts, unless there is one of two kinds of malformed
  part: without a colon, which is read together with its successor, or with a
  duration that does not parse, whose limit stays and shifts those of all later parts.
- `Terminates`: the parser's loop ends.

### What the code does otherwise

Five runs end in a counterexample, each to a sentence of the repository:

| Run | Sentence | Counterexample |
|---|---|---|
| `MCServerErrorRetried` | `README.md:10`, 500s are retried | a 500 and a retried 200, then a 500 in the next query: it fails at once, because `query` returns on 200 before `review_request` could reset the counter |
| `MCSuccessOpensGate` | `query/endpoints.h:25`, successful requests overwrite the headers | the Retry-After of the refused attempt stays in the request and is applied again with the 200 of the retry: the next request waits although there is room |
| `MCApprovedNotRefused` | `handling/scope_count.h:17`, "avoid breaching limits" | both threads' requests are approved before the limiter has heard of either, and are on their way together: the second is refused |
| `MCFractions` | `handling/scope_count.h:17` | one thread: the window is thought over up to a second early, since both its start and the clock are cut to seconds |
| `MCTestedNames` | `test/type_tests.cpp:17-27,34-44`, `REQUIRE(valid_platform("NA"))` and the like | a call of a platform's endpoint with "NA" throws: `str_to_platform` knows names with their shard's number and three aliases |

Met on the way, and not the subject of a run:

- `README.md:10` says that 503s are retried; `review_request` returns false for them and
  `MAX_SERVICE_UNAVAILABLE` is never consulted, so the query fails (`ReviewFailure` takes them
  with all other failures).
- When the first transfer of a query fails (`client/client.cpp:123-130`) the buffer the
  caller gets lacks the terminating zero that `get` appends otherwise.
- The mutex is free between `is_initialized` and the first response (`client/client.cpp:202`): several threads can each
  send an unapproved first request.
- `rate_hierachy.cpp:110-112` puts an unaccounted pause on the last bucket, whose
  running window may end long after the pause: the wait is then the rest of the window.
- With several threads, a 429 of one resets the counter of 500s that would end the retries
  of another: a service that mixes them can keep a query from returning. `RetriesBounded`
  therefore counts from the last 429 that was reviewed.
- `client/client.cpp:212` says that a first request that fails "will fall through to the main
  loop's error handling"; the loop begins with another attempt, so the failure is handled by none: a
  404 is sent again, and a 500 is not counted.
- The error counters are not initialised (`handlers.h:15-17`): one that happens to be far below zero
  allows as many retries. *MCAlone* starts it at -1, 0 and 7. `RetriesBounded` is not true from
  below zero, and *MCThreads* starts it at 0 and at its limit, 2.
- `rcp_assert` checks nothing unless `DEBUG_MODE` is defined.

### Bounds

- *MCRateHandler*: two routes and two methods, so "another route" and "another method"
  exist; windows of 1, 2 and 3 seconds and a clock up to 3, so every window opens, runs out
  and opens again; three responses (`MaxResponses`), enough to initialise, to rebuild
  buckets and to pause them. Responses: one in a fresh window, a refusal without
  Retry-After that lowers a limit below its count, one whose pause no bucket accounts for, one with
  the default headers, one with malformed headers. The same formulas are proved without bounds.
- *MCThreads*: eight answers, with full, partial, bare and malformed headers and a failed
  transfer; two queries, of two threads or one after the other of the same, with any number of
  attempts until the clock stops at `MaxTime` 3; one method. Two threads are what stale
  write-backs and late answers take. The error counter starts at 0 or 2, not below, as
  the bound on retries needs.
- *MCAlone*: three calls on two methods against limits 1 in 1 s and 3 in 3 s for the
  application and 2 in 2 s for a method, with any number of attempts: every bucket can
  fill, run out and fill again, alone and together, and a response be lost, its loss cost a
  refusal and the thread go on. At the start the service's buckets may
  hold earlier requests (`MaybeUsed`), what a restarted process meets. The service answers 200, 429
  or 500; 404s end a query as the second 500 does. `FreeTime` is 1 (see *MCReturns*).
- *MCRaces*: three calls of two threads on two methods against 2 in 2 s for the
  application and 1 in 1 s for a method, with a clock up to 5: two requests can race for the last
  place of either, be the first of all or of a method together, and a third meets the
  window of the race or the one after. The service answers 200 or 429.
- *MCReturns*, and *MCAlone* likewise: `MaxTime` 40 is never reached. Time passes freely
  until `FreeTime`, then only while a thread waits for it, so that the instants at which
  requests fall into windows vary and yet the state space is finite. In *MCReturns*, where
  `FreeTime` is 0, they vary with what the other thread waits for; its two methods have
  the limits of *MCRaces*, so that a method is refused while the application has room. Queries are limited by
  `MaxCalls` (2 of two threads, 3 of one), so these systems stop; only these runs turn the
  deadlock check off.
  Windows are of at most 3 seconds (`MaxWindow`), the fallback limits' included.
- *MCEndpoints*: all 56 methods with all names and aliases, and some that are none; all choices of arguments
  from five texts (empty, plain, the name of a path segment, and two with slashes that spell
  the rest of another path); one or two parameters with and without keys, valid and not. `UrlNamesBucket` compares
  every request with those of all calls.
- *MCHeaderParser*: headers of up to three parts of up to three tokens out of two numerals, ":"
  and a text: a part that spoils its successor, and one after that to be spoiled or not.

In the other runs the clock stops at `MaxTime` and the observers remain enabled, so there
is no deadlock to excuse: a thread may then wait for good, which only liveness runs would
mind.

### Fairness

`MCFairness`: every thread that can move by itself does (the threads are the operating
system's; `mutex_` is held for a bounded time); every request is answered or its
transfer fails (`cpr::Get` is called without a timeout, so this is what a TCP connection gives,
not the code); and time passes while somebody waits for it. No single outcome is fair: the
service may answer with errors for ever, the network may lose for ever.
`HeaderParser` assumes weak fairness of its loop, which is what running a thread means.
With two threads the service of `MCReturns` does not answer with 500s, for the reason
given above. A service that refuses for ever is outside the model: `RiotService` refuses
only what exceeds its limits.

## 4. What is proved

`Routes`, `Methods`, `Threads`, `Responses`, `Replies`, limits, windows, headers, calls and all
bounds are arbitrary, but for these assumptions, which TLC evaluates in the runs:

- `RateHandler!ResponsesAssumption`: responses are well-typed records, the fallback limits are not
  empty, and no window or pause is longer than `MaxWindow`, which is at least the 2 seconds
  the code assumes for a refusal without Retry-After.
- `RiotClient!RepliesAssumption`: the same of what a reply and the request's defaults add up to
  (`WellFormed`); a failed transfer brings no headers.
- `RiotSystem!ServiceAssumption`: the service's limits are positive, of whole seconds and within
  `MaxWindow`, and it answers what it has counted with anything but 429. `ClientAssumption` is
  `RepliesAssumption` of the client there.
- `Endpoints!CallsAssumption`: a call is of one of the 56 methods, with a text for each of its
  fragments, as the signature of `operator()` has it, and parameters of a key and a text.
- `HeaderParser!DescriptionsAssumption`, `NumeralsAssumption`: a header is a finite sequence of
  tokens, a numeral stands for an integer.

| Theorem | Says |
|---|---|
| `RateHandlerProofs!TypeCorrect` | `Spec => []TypeOK` |
| `RateHandlerProofs!WaitsAreBounded` | `Spec => []WaitBounded` |
| `RateHandlerProofs!LiveBucketsAreStable` | `Spec => LiveBucketsStable` |
| `GatedRateHandlerProofs!PausesAreEnforced` | `GatedSpec => RetryAfterEnforced` |
| `GatedRateHandlerProofs!LimiterImplementsGate` | `GatedSpec => ImplementsGate` (refinement) |
| `HeaderParserProofs!NoHeaderReadsPastEnd` | `Spec => []NoReadPastEnd` |
| `HeaderParserProofs!WellFormedPartsAreRead` | `Spec => []LeadingPartsKept` |
| `HeaderParserProofs!PartsAreReadOneByOne` | `Spec => []ReadPartByPart` |
| `RiotClientProofs!TypeCorrect` | `Spec => []TypeOK` |
| `RiotClientProofs!LimiterInClient` | the client's steps are the limiter's: `Spec => Rate!Spec` |
| `RiotClientProofs!WaitsAreBounded` | `Spec => []Limiter!WaitBounded` |
| `RiotClientProofs!WaitsShownAreReal` | `Spec => []WaitShownIsReal` |
| `RiotClientProofs!PausesAreHonoured` | `Spec => RetryAfterHonoured` |
| `RiotClientRetryProofs!ErrorsRunOut` | `Spec => []RetriesBounded`, for finitely many threads and error counters that do not start below zero |
| `RiotSystemProofs!ClientInSystem` | the system's steps are the client's: `Spec => Proven!Spec` |
| `RiotSystemProofs!SystemTypeCorrect` | `Spec => []TypeOK` |
| `RiotSystemProofs!RefusedOnce` | `Spec => []NotRefusedTwice`, for one thread and a service that counts in whole seconds (`TicksPerSecond = 1`) |
| `RiotSystemProofs!WindowsRefuseOnce` | `RefusalsSpec => RefusedOncePerWindow`, for `TicksPerSecond = 1` |
| `RiotRacesProofs!RacesLeaveNoTrace` | `RacesSpec => []ShadowsUnraced`, for `TicksPerSecond = 1` and finitely many threads |
| `RiotRacesProofs!RacesCostAWindow` | `RacesSpec => RefusedOnlyInRace`, likewise |
| `RiotRacesProofs!UnracedRefusedAtFirst` | `RacesSpec => []RefusedOnlyAtFirst`, likewise |
| `EndpointsProofs!RequestsKeepToTheirKind` | `Spec => []OwnKindOnly` |
| `EndpointsProofs!HostsNameRoutes` | `Spec => []HostNamesRoute` |
| `EndpointsProofs!BreakdownsAreOfTheCall` | `Spec => []BreakdownOfCalledRoute` |
| `EndpointsProofs!UrlsNameBuckets` | `Spec => []UrlNamesBucket` |
| `EndpointsProofs!QueriesReadBack` | `Spec => []QueryReadBack` |

### The limiter

`WaitBounded` is not inductive: a wait is bounded only while no bucket, full or
not, ends later than `now + MaxWindow`, and a synchronised bucket takes the announced
duration over. `IInv` says both of every bucket of every route. Lemmas take one
operation of a bucket each (`SyncBounded`, `ApplyRetryBounded`, ...), lift it to the buckets
of a limit, to a route, and at last to the actions. `LiveBucketsStable` is read off the actions
under `IInv`, since a running bucket is left alone by `ScopeUpdateCount`.

`RetryAfterEnforced` needs more: the pause is put on the last bucket, so there must be one.
`GInv` adds that no route is ever without application buckets (`AppTracked`), which is
what the fallback limits and `app_limits_ = {{0}, {0}, {0}}` are for, and that nothing is
counted before the first response (`Pristine`). The central lemmas are `PausedBack` (a
paused bucket makes its hierarchy wait) and `SyncEnforcesPause` (so does
`sync_from_headers`, even when the second turns before its last check).

For the refinement, `ScopeReadKeepsWait` and its lifts show that a reader changes no
wait, `ScopeWaitPasses` that time alone moves a closing second nowhere, `FreshHierachyOpen`
that initialisation closes no gate; `GatedRespondIsRespond` and
`ReadAndTickOnlyPassTime` map each action to `RateGate`'s.

### The parser

`NoReadPastEnd` is inductive once both vectors are known to be sequences (`IInv`): a turn of the
loop pushes a duration only after a limit. That is all `LimitPart` in `RateHierachy` relies on.

What is read needs `PInv`, which follows the loop through the header: where it is (`Reached`), it
stands at the start of a part; every well-formed part behind it that nothing has spoiled is in
both vectors at its number; and while all parts behind it are `Smooth` (a colon in each, no limit
without its duration) the vectors are as long as there were well-formed parts. The properties
speak of positions and counts, not of a recursion over the header, so that no induction over
data is needed: `NextStart` says where the next part begins, `SidesRead` that `find` and
`substr` cut a part at its own colon, `PastCounted` that one turn counts one part.

### The client

The limiter in `RiotClient` is an instance of `RateHandler`; `RiotClientProofs` takes
`RateHandlerProofs` as another instance, `Rate`, whose responses are all that headers kept from
earlier attempts, or from the defaults, can add up to (`AnyResponse`). `SameOperations` identifies the
two; `CInv` is the limiter's `GInv` with the types of the rest, and by `LimiterInClient` what
`RateHandlerProofs` says of `Spec` holds in the client.

`RetryAfterHonoured` is a property of a step, and the reason for it lies in two places:
`PauseHolds` says that while a pause lasts, the route's application buckets hold back whoever
asks (`AppHolds`), and whoever has a request on its way already waits for its end (`HeldBack`);
`SilenceCovered`, that the silence a response at hand asks for is no longer than what
`insert_request` is about to enforce. Both survive every step of every other thread,
for a pause begins only when no other request of the route is on its way.

`ErrorsRunOut` weighs the 500s a query has met, but for the one its first attempt may have met
unreviewed (`Reviewed`), against the threads that can still write a count
back that they read before it (`Weighed`): a thread that has read 0 can do so once. Its
hypotheses are what the bound is about: with infinitely many threads there is none, and
a counter that nothing has initialised may start far below zero (`handlers.h:15-17`), from where two
threads can go on for longer than its distance from zero adds. The run
`MCAlone` starts it at -1 too, and shows that queries still return.

### The system

In `RiotSystemProofs` the replies are all a service of these limits may send (`AnyReply`). `SInv`
bounds the ends of its buckets by the window's length, whence a Retry-After by `MaxWindow`
(`RetryAfterBounded`), which is what the client's assumption asks; `ClientInSystem` brings the client's
theorems into the system, for any clocks, losses and threads.

`NotRefusedTwice` follows a refusal (`Heeds`): all full buckets end by the second that the
Retry-After in the network names, then by the silence in the request, then by the pause
recorded at the insertion, `PausesAreHonoured` makes the thread wait for that, and with a single
thread nothing is counted in between. This holds with any losses and errors, since it does not depend on
what the limiter has counted. It needs a service that counts in whole seconds (`TicksPerSecond = 1`): whole seconds of Retry-After from an
instant within a second, counted on a clock that does not show it, end too early.

`RefusedOncePerWindow` asks less of the next attempt and is proved of any threads. `RefusalInv`
says of every window that has refused a request that it is over by the second the Retry-After
names (`RefusalCovered`), and of those the limiter has been told alone that `quiet` lasts as long
(`HeededSilenced`). `PauseHolds`, proved in the client, keeps every thread of the
route from having sent anything in the meantime, for the pause is put on the route's application
buckets even when only a method's were full (`NoneRefusedMeanwhile`).

`ShadowsUnraced` rests on `RInv`, which follows the count of a bucket on its way from the service to
the limiter, for every window opened since the last race or loss of its route (`Claims`): an answer has the counts
that are still the service's (`AnswerTrue`), a limiter without an answer outstanding knows every
request (`HeardShadows`), a request that is let go finds room (`RoomAhead`), and the limiter's
limits are the service's (`LimitsHeld`). The buckets of application and methods are
treated alike, under keys. Nothing is claimed in the step that loses a response (`NoClaims`), so
losses need no hypothesis. `TicksPerSecond = 1` does: by a finer clock the limiter ends windows early, and
`MCFractions` shows the refusal this costs. `RefusedOnlyInRace` follows from `RoomAhead` at the step that
refuses, and `RefusedOnlyAtFirst` from that, since all windows open later than `Never`.
The parser's `PInv`, `PauseHolds`, `Heeds` and `RInv` were checked with TLC on the constants of
the runs before they were proved.

### Endpoints

The properties of `Endpoints` are about the last call, and `EInv` no more than that it is one of
`Calls` and that its requests are the ones its code builds; what there is to prove is about
values. The lemmas state what each look-up in the tables of `region_enums.cpp` finds, for any
text (`NamesFound`, and one per conversion), and the first three theorems what host, route and
breakdown make of one text.

Paths and queries are put together by `FlattenSeq`. Nothing is computed of it by induction
over data with the library's rules: `JoinsExist` and `JoinsUnique` say that there is
exactly one function that satisfies its recursive definition, for any sequence of sequences,
each by the least position at which it could fail (`LeastPosition`, `CountingUp`: a set of
numbers that holds the first and with each its successor holds all); `FlattenSteps` then gives
`FlattenSeq` of a sequence with one more element.

`QueriesReadBack` follows the query one parameter at a time (`OneMoreParameter`): encoded texts and
keys are never separators (`EncodedIsPlain`), so a new parameter adds one separator, behind
which it stands alone, and moves no earlier one.

`UrlsNameBuckets` goes backwards from the path. The path names its fields (`PathNamesFields`):
it comes apart at its slashes in one way, since neither a segment of the table
nor an encoded text is a slash. The fields show the base, their number, the first segment behind the
base and, where a method has additional ones, the last word (`FieldsAre`, `PathTells`); and each
of the 56 methods is told from all others by these (`BaseTold`, `KeyTold`), which the lemmas `..._Looks`
and `..._Told` establish endpoint by endpoint from what its methods look like. Where two methods of an
endpoint agree in all but a last word, the other ends in an argument, which is encoded as one token and
yet might spell that word; their counts of fields or first segments differ then.

### Model-checked only

`AllReturn` and `Terminates`: liveness under fairness, which the prover does not reach. Every
safety property of every passing run is the subject of a theorem.

## 5. What is not modelled

- Logging, `to_string` functions: output.
- `extract_key`, constructors, `update_api_key`: strings; the assignment to the header
  map while other threads read it is a data race outside the model's data.
- Characters: headers are tokens in `HeaderParser` and parsed parts everywhere else, texts are words.
- What `get_snapshot` and `get_wait_time_breakdown` return; their side effects are modelled.
- Divisions, tiers and queues: nothing in the library calls their conversions.
- 32-bit seconds, which wrap in 2106, and a system clock that is set back.
- `RegionCount::insert_request`, `ScopeCount::correct_count`, `n_available`: never called.

## 6. Plan

Done: the limiter, its abstraction; the client with several threads; the system, with one
thread and with races; the header parser; endpoints, routing values and URLs; and the proofs of
section 4, which cover every safety property the runs check.

Next, in this order:

1. What bounded waits and `RefusedOnce` give together: an upper bound on the wait of a query that is
   refused, as a safety property.
2. A clock that is set back (`scope_count.h`: an expired window is one that ends before `now`).
3. The 503s: their own counters, should the code come to consult them.
