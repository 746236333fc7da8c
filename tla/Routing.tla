------------------------------ MODULE Routing ------------------------------
(***************************************************************************)
(* From the string a user passes as routing value to the route of the      *)
(* request, which selects the host that is asked and the buckets of the    *)
(* limiter: types/region_enums.cpp and the indicator of query/endpoints.h. *)
(*                                                                         *)
(* A user's string is its text without the blanks around it and in upper   *)
(* case, and whether it was written that way: the same 27 shards and       *)
(* clusters may be spelled in any case and with blanks.  An enumerator is  *)
(* named by its identifier; a route is an indicator and an enumerator, as  *)
(* in struct routing.  Endpoints has the calls that use these operators.   *)
(***************************************************************************)
EXTENDS Integers, Sequences, FiniteSetsExt

REGIONAL == 0
PLATFORM == 1
VAL_PLATFORM == 2

String == [text: STRING, style: {"canonical", "lower", "padded"}]
-----------------------------------------------------------------------------
(* The enumerations of types/args.h, and the tables of names beside them. *)

PlatformEnum == <<"BR1", "EUN1", "EUW1", "JP1", "KR", "LA1", "LA2", "NA1", "OC1",
                  "TR1", "RU", "PH2", "SG2", "TH2", "TW2", "VN2">>
RegionalEnum == <<"AMERICAS", "ASIA", "EUROPE", "SEA">>
ValPlatformEnum == <<"AP", "BR", "EU", "KR", "LATAM", "NA", "ESPORTS">>

\* Faulty: the names in another order than the enumerators.
PlatformNamesReordered ==
    <<"BR1", "EUN1", "EUW1", "JP1", "KR", "LA1", "LA2", "NA1", "OC1",
      "RU", "TR1", "PH2", "SG2", "TH2", "TW2", "VN2">>

\* The names str_to_platform compares with, by position.
PlatformNames == <<"BR1", "EUN1", "EUW1", "JP1", "KR", "LA1", "LA2", "NA1", "OC1",
                   "TR1", "RU", "PH2", "SG2", "TH2", "TW2", "VN2">>

RegionalNames == <<"AMERICAS", "ASIA", "EUROPE", "SEA">>
ValPlatformNames == <<"AP", "BR", "EU", "KR", "LATAM", "NA", "ESPORTS">>

PlatformAliases == [KR1 |-> "KR", RU1 |-> "RU", OCE |-> "OC1"]

\* str_equals_upper: case and surrounding blanks do not matter.
StrEqualsUpper(s, name) == s.text # "" /\ s.text = name

\* The positions of the names that s spells.
Positions(s, names) == {i \in DOMAIN names : StrEqualsUpper(s, names[i])}

\* The enumerators that s spells by position, at most one.
Enumerators(s, names, enum) ==
    IF Positions(s, names) = {} THEN {} ELSE {enum[Min(Positions(s, names))]}

StrToRegional(s) == Enumerators(s, RegionalNames, RegionalEnum)
StrToValPlatform(s) == Enumerators(s, ValPlatformNames, ValPlatformEnum)
StrToPlatform(s) ==
    LET aliases == {a \in DOMAIN PlatformAliases : StrEqualsUpper(s, a)}
    IN  IF Positions(s, PlatformNames) # {}
        THEN Enumerators(s, PlatformNames, PlatformEnum)
        ELSE {PlatformAliases[a] : a \in aliases}

\* What s spells, by indicator.
Parsed(s, indicator) ==
    LET values == CASE indicator = REGIONAL -> StrToRegional(s)
                    [] indicator = PLATFORM -> StrToPlatform(s)
                    [] indicator = VAL_PLATFORM -> StrToValPlatform(s)
    IN  {[indicator |-> indicator, value |-> v] : v \in values}

\* Faulty: Valorant's shards come first.
StrToRoutingValFirst(s) ==
    IF Parsed(s, VAL_PLATFORM) # {} THEN Parsed(s, VAL_PLATFORM)
    ELSE IF Parsed(s, PLATFORM) # {} THEN Parsed(s, PLATFORM)
    ELSE Parsed(s, REGIONAL)

\* str_to_routing: the first kind that knows the string; {} is the exception.
StrToRouting(s) ==
    IF Parsed(s, PLATFORM) # {} THEN Parsed(s, PLATFORM)
    ELSE IF Parsed(s, REGIONAL) # {} THEN Parsed(s, REGIONAL)
    ELSE Parsed(s, VAL_PLATFORM)

\* Faulty: any kind will do.
StrToRoutingOfAnyKind(s, expected) == StrToRouting(s)

\* str_to_routing_for_indicator: nothing but the expected kind will do.
StrToRoutingForIndicator(s, expected) ==
    IF expected \in {REGIONAL, PLATFORM, VAL_PLATFORM}
    THEN Parsed(s, expected) ELSE StrToRouting(s)

\* routing_to_host_str: *_to_str gives the enumerator's name, then in lower case.
RoutingToHostStr(route) == [text |-> route.value, style |-> "lower"]

\* infer_routing_indicator
InferRoutingIndicator(base) ==
    IF \/ Head(base) \in {"riot", "lor"}
       \/ base \in {<<"lol", "match", "v5">>, <<"tft", "match", "v1">>}
    THEN REGIONAL
    ELSE IF Head(base) = "val" THEN VAL_PLATFORM ELSE PLATFORM

\* The names by which the shards of a kind are known.
TextsOf(indicator) ==
    CASE indicator = REGIONAL -> Range(RegionalEnum)
      [] indicator = PLATFORM -> Range(PlatformEnum) \cup DOMAIN PlatformAliases
      [] indicator = VAL_PLATFORM -> Range(ValPlatformEnum)
=============================================================================
