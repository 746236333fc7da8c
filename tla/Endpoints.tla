----------------------------- MODULE Endpoints ------------------------------
(***************************************************************************)
(* EndpointMethod::operator() of query/endpoints.h: from the user's        *)
(* arguments to the request that RiotApiClient::query is given, its route  *)
(* (Routing), its method key (EndpointTable), and its URL, which is put    *)
(* together in query/url.h.                                                *)
(*                                                                         *)
(* A text is a sequence of words, of which some are reserved in a URL; a   *)
(* part of a URL is a sequence of tokens, of which "/", "?", "&" and "="   *)
(* separate what is between them.                                          *)
(***************************************************************************)
EXTENDS Routing, EndpointTable, SequencesExt

CONSTANTS
    Strings,        \* what users pass as routing value
    Calls,          \* the calls users make: [method, string, args, opts]
    NoCall

\* What the signatures of EndpointMethod::operator() admit.
ASSUME CallsAssumption ==
    \A c \in Calls :
        /\ c.method \in EndpointMethods
        /\ c.args \in [DOMAIN c.method.url_fragments -> Seq(STRING)]
        /\ c.opts \in Seq([key: STRING, value: Seq(STRING)])

VARIABLES
    last,           \* the call of an endpoint, and what became of it
    shown           \* a call of get_wait_time_breakdown after it, and its route
vars == <<last, shown>>

Token(word) == <<word>>
Slash == Token("/")

\* What cpr::util::urlEncode makes of the reserved characters.
Percent ==
    [w \in {"/", "?", "&", "=", "%"} |->
        CASE w = "/" -> "%2F" [] w = "?" -> "%3F" [] w = "&" -> "%26"
          [] w = "=" -> "%3D" [] w = "%" -> "%25"]

\* Faulty: texts enter the URL as they are.
UrlEncodeNothing(text) == [i \in DOMAIN text |-> Token(text[i])]

\* A text is one token of the URL, whatever it contains; an empty one is none.
UrlEncode(text) ==
    IF text = <<>> THEN <<>>
    ELSE <<[i \in DOMAIN text |-> IF text[i] \in DOMAIN Percent THEN Percent[text[i]]
                                                               ELSE text[i]]>>

\* The fields of a path, one after each slash: those of the base, then for each argument
\* those of its fragment and its own, then the additional ones.  Numbers have no reserved
\* characters, so encoding changes nothing about them.
Named(segments) == [i \in DOMAIN segments |-> <<Token(segments[i])>>]
Fields(method, args) ==
    Named(method.url_base)
        \o FlattenSeq([i \in DOMAIN args |->
               Named(method.url_fragments[i]) \o <<UrlEncode(args[i])>>])
        \o Named(method.additional_frag)

\* construct_url_path, behind the host.
Path(fields) == FlattenSeq([i \in DOMAIN fields |-> <<Slash>> \o fields[i]])
ConstructUrlPath(method, args) == Path(Fields(method, args))

\* Parameters with an empty key are passed over.
Kept(opts) ==
    FlattenSeq([i \in DOMAIN opts |-> IF opts[i].key = "" THEN <<>> ELSE <<opts[i]>>])

KeyAndValue(o) == <<Token(o.key), Token("=")>> \o UrlEncode(o.value)

\* Faulty: the first parameter of all starts the query, though it may be passed over.
QueryByPosition(opts) ==
    FlattenSeq([i \in DOMAIN opts |->
        IF opts[i].key = "" THEN <<>>
        ELSE <<Token(IF i = 1 THEN "?" ELSE "&")>> \o KeyAndValue(opts[i])])

\* The query behind the path.
Query(opts) ==
    FlattenSeq([i \in DOMAIN Kept(opts) |->
        <<Token(IF i = 1 THEN "?" ELSE "&")>> \o KeyAndValue(Kept(opts)[i])])

\* Otherwise operator() throws.
ValidOpts(method, opts) == \A o \in Range(Kept(opts)) : o.key \in method.valid_opt_keys

\* What operator() gives send_ on one of the routes the string spells.
RequestTo(route, c) ==
    [route |-> route, method_key |-> c.method.method_key,
     host |-> RoutingToHostStr(route),
     path |-> ConstructUrlPath(c.method, c.args), query |-> Query(c.opts)]

\* The request of a call; {} when str_to_routing_for_indicator or the check throws.
Requests(c) ==
    IF ValidOpts(c.method, c.opts)
    THEN {RequestTo(r, c) :
             r \in StrToRoutingForIndicator(c.string, InferRoutingIndicator(c.method.url_base))}
    ELSE {}
-----------------------------------------------------------------------------
Init == last = NoCall /\ shown = NoCall

\* operator()
Call(c) ==
    /\ last = NoCall
    /\ last' = [call |-> c, requests |-> Requests(c)]
    /\ UNCHANGED shown

\* get_wait_time_breakdown of the client: nothing to show when str_to_routing throws.
WaitTimeBreakdown(s) ==
    /\ last # NoCall /\ shown = NoCall
    /\ shown' = [string |-> s, routes |-> StrToRouting(s)]
    /\ UNCHANGED last

\* The call returns.
Return == last # NoCall /\ last' = NoCall /\ shown' = NoCall

Next ==
    \/ \E c \in Calls : Call(c)
    \/ \E s \in Strings : WaitTimeBreakdown(s)
    \/ Return

Spec == Init /\ [][Next]_vars
-----------------------------------------------------------------------------
Called == last # NoCall

Indicator == InferRoutingIndicator(last.call.method.url_base)

\* A request leaves for a shard of the kind its endpoint serves, or not at all, and
\* every shard of that kind can be reached by its names, KR too, which is a shard of two
\* kinds: the comment of str_to_routing says that a request to an invalid routing value
\* "could compromise their api key".  See TestedNamesAccepted for other names.
OwnKindOnly ==
    Called =>
        /\ \A q \in last.requests : q.route.indicator = Indicator
        /\ last.call.string.text \in TextsOf(Indicator) =>
              (ValidOpts(last.call.method, last.call.opts) => last.requests # {})

\* What test/type_tests.cpp requires of valid_platform, which is whether str_to_platform
\* knows the name: that a name without its shard's number is a platform's.  Then a call
\* with it leads to a request.
TestedNames == {"BR1", "EUN1", "EUW1", "JP1", "KR", "LA", "NA", "OC", "TR", "RU", "PH", "SG",
                "TH", "TW", "VN"}
TestedNamesAccepted ==
    Called /\ Indicator = PLATFORM /\ last.call.string.text \in TestedNames =>
        (ValidOpts(last.call.method, last.call.opts) => last.requests # {})

\* The host that is asked is the one whose buckets the limiter consults: its name,
\* passed to the same endpoint, selects the same route.
HostNamesRoute ==
    Called =>
        \A q \in last.requests : StrToRoutingForIndicator(q.host, Indicator) = {q.route}

\* Who asks for the wait of a routing value is shown that of the requests made with
\* it, except on Valorant's KR, for which the wait of the platform KR is shown.
BreakdownOfCalledRoute ==
    Called /\ shown # NoCall /\ shown.string.text = last.call.string.text =>
        \A q \in last.requests :
            \/ shown.routes = {q.route}
            \/ q.route = [indicator |-> VAL_PLATFORM, value |-> "KR"]

AllRequests == UNION {Requests(c) : c \in Calls}

\* What a URL asks for is counted in one place: no two calls, of whatever methods and
\* with whatever texts as arguments, have the same host and path and yet another route
\* or method key, and no two methods share a key, so that the buckets the limiter
\* keeps by route and method key are those the service keeps.
UrlNamesBucket ==
    Called =>
        /\ \A q \in last.requests, other \in AllRequests :
              q.host = other.host /\ q.path = other.path =>
                  q.route = other.route /\ q.method_key = other.method_key
        /\ \A m \in EndpointMethods :
              m.method_key = last.call.method.method_key => m = last.call.method

\* The parameters of a query are what is between its separators.
Separators(q) == {i \in DOMAIN q : q[i] \in {Token("?"), Token("&")}}
ParameterBehind(i, q) ==
    SubSeq(q, i + 1, Min({j \in Separators(q) : j > i} \cup {Len(q) + 1}) - 1)
Nth(i, q) == Cardinality({j \in Separators(q) : j <= i})

\* The service reads in a URL the parameters the user has given, in their order and
\* with their values, but for those without a key; and its method takes them all.
QueryReadBack ==
    Called =>
        \A q \in last.requests :
            LET given == Kept(last.call.opts)
            IN  /\ \A o \in Range(given) : o.key \in last.call.method.valid_opt_keys
                /\ {i \in DOMAIN q.query : q.query[i] = Token("?")} =
                       IF given = <<>> THEN {} ELSE {1}
                /\ Cardinality(Separators(q.query)) = Len(given)
                /\ \A i \in Separators(q.query) :
                      ParameterBehind(i, q.query) = KeyAndValue(given[Nth(i, q.query)])
=============================================================================
