---------------------------- MODULE MCEndpoints -----------------------------
(***************************************************************************)
(* Endpoints for TLC.  The calls vary one thing at a time: every method    *)
(* with every name, with every choice of arguments, and with parameters.   *)
(***************************************************************************)
EXTENDS Endpoints

Texts ==
    Range(PlatformEnum) \cup Range(RegionalEnum) \cup Range(ValPlatformEnum)
        \cup DOMAIN PlatformAliases \cup TestedNames \cup {"", "AMERICA"}

\* Every name and alias there is, and strings that are none.
MCStrings ==
    [text: Texts, style: {"canonical"}] \cup [text: {"", "KR", "OCE"}, style: {"padded"}]

Spelled(text) == [text |-> text, style |-> "canonical"]

HomeOf(method) ==
    Spelled(CASE InferRoutingIndicator(method.url_base) = REGIONAL -> "EUROPE"
              [] InferRoutingIndicator(method.url_base) = PLATFORM -> "EUW1"
              [] InferRoutingIndicator(method.url_base) = VAL_PLATFORM -> "EU")

\* Empty, plain, the name of a segment, and with reserved characters.
Words == {<<>>, <<"x">>, <<"by-puuid">>, <<"x", "/", "top">>, <<"by-puuid", "/", "x", "/", "ids">>}

ArgsOf(method) == [DOMAIN method.url_fragments -> Words]

CallsAnywhere ==
    {[method |-> m, string |-> s, args |-> [i \in DOMAIN m.url_fragments |-> <<"x">>],
      opts |-> <<>>] : m \in EndpointMethods, s \in MCStrings}

CallsWithArguments ==
    UNION {{[method |-> m, string |-> HomeOf(m), args |-> a, opts |-> <<>>] : a \in ArgsOf(m)} :
               m \in EndpointMethods}

Options == [key: {"", "queue", "page"}, value: {<<"1">>, <<"1", "&", "page">>}]

CallsWithOptions ==
    {[method |-> m, string |-> HomeOf(m), args |-> [i \in DOMAIN m.url_fragments |-> <<"x">>],
      opts |-> o] :
        m \in Tft_League_v1 \cup League_v4,
        o \in UNION {[1 .. n -> Options] : n \in 1 .. 2}}

MCCalls == CallsAnywhere \cup CallsWithArguments \cup CallsWithOptions
=============================================================================
