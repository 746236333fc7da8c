--------------------------- MODULE EndpointTable ----------------------------
(***************************************************************************)
(* The endpoint methods of query/endpoints.h: how each builds the path of  *)
(* its URL, under which key the limiter counts its requests, and which     *)
(* optional parameters it takes.                                           *)
(*                                                                         *)
(* A path is cut at its slashes: url_base_ "/lol/match/v5" is the sequence *)
(* of its three segments.  Every url_fragment begins and ends with a       *)
(* slash, "/matches/by-puuid/" is <<"matches", "by-puuid">> and "/" is     *)
(* <<>>; one argument follows each.  additional_frag, when there is one,   *)
(* begins with a slash.                                                    *)
(***************************************************************************)

Method(method_key, url_fragments, additional_frag, valid_opt_keys) ==
    [method_key |-> method_key, url_fragments |-> url_fragments,
     additional_frag |-> additional_frag, valid_opt_keys |-> valid_opt_keys]

\* The methods of an Endpoint with this base.
On(url_base, methods) ==
    {[url_base |-> url_base, method_key |-> m.method_key, url_fragments |-> m.url_fragments,
      additional_frag |-> m.additional_frag, valid_opt_keys |-> m.valid_opt_keys] : m \in methods}

Account_v1 == On(<<"riot", "account", "v1">>, {
    Method("Account-v1-by-puuid", <<<<"accounts", "by-puuid">>>>, <<>>, {}),
    Method("Acccount-v1-by-riot-id", <<<<"accounts", "by-riot-id">>, <<>>>>, <<>>, {}),
    Method("Account-v1-by-game-by-puuid", <<<<"active-shards", "by-game">>, <<"by-puuid">>>>, <<>>, {})})

Champion_Mastery_v4 == On(<<"lol", "champion-mastery", "v4">>, {
    Method("Champion-Mastery-v4-by-puuid", <<<<"champion-masteries", "by-puuid">>>>, <<>>, {}),
    Method("Champion-Mastery-v4-by-puuid-by-champion", <<<<"champion-masteries", "by-puuid">>, <<"by-champion">>>>, <<>>, {}),
    Method("Champion-Mastery-v4-by-puuid-top", <<<<"champion-masteries", "by-puuid">>>>, <<"top">>, {"count"}),
    Method("Champion-Mastery-v4-scores-by-puuid", <<<<"scores", "by-puuid">>>>, <<>>, {})})

Champion_v3 == On(<<"lol", "platform", "v3">>, {
    Method("Champion-v3=champion-rotations", <<>>, <<"champion-rotations">>, {})})

Clash_v1 == On(<<"lol", "clash", "v1">>, {
    Method("Clash-v1-by-summoner-id", <<<<"players", "by-summoner">>>>, <<>>, {}),
    Method("Clash-v1-teams", <<<<"teams">>>>, <<>>, {}),
    Method("Clash-v1-tournaments", <<>>, <<"tournaments">>, {}),
    Method("Clash-v1-by-team", <<<<"tournaments", "by-team">>>>, <<>>, {}),
    Method("Clash-v1-tournament-by-id", <<<<"tournaments">>>>, <<>>, {})})

League_exp_v4 == On(<<"lol", "league-exp", "v4">>, {
    Method("League-exp-v4-entries", <<<<"entries">>, <<>>, <<>>>>, <<>>, {"page"})})

League_v4 == On(<<"lol", "league", "v4">>, {
    Method("League-v4-challenger", <<<<"challengerleagues", "by-queue">>>>, <<>>, {}),
    Method("League-v4-by-puuid", <<<<"entries", "by-puuid">>>>, <<>>, {}),
    Method("League-v4-entries", <<<<"entries">>, <<>>, <<>>>>, <<>>, {"page"}),
    Method("League-v4-grandmaster", <<<<"grandmasterleagues", "by-queue">>>>, <<>>, {}),
    Method("League-v4-by-league-id", <<<<"leagues">>>>, <<>>, {}),
    Method("League-v4-master", <<<<"masterleagues", "by-queue">>>>, <<>>, {})})

Lol_Challenges_v1 == On(<<"lol", "challenges", "v1">>, {
    Method("Lol-Challenges-config", <<>>, <<"challenges", "config">>, {}),
    Method("Lol-Challenges-percentilejs", <<>>, <<"challenges", "percentiles">>, {}),
    Method("Lol-Challenges-config-by-id", <<<<"challenges">>>>, <<"config">>, {}),
    Method("Lol-Challenges-leaderboards-by-id-by-level",
           <<<<"challenges">>, <<"leaderboards", "by-level">>>>, <<>>, {"limit"}),
    Method("Lol-Challenges-percentiles-by-id", <<<<"challenges">>>>, <<"percentiles">>, {}),
    Method("Lol-Challenges-player-data-by-puuid", <<<<"player-data">>>>, <<>>, {})})

Lol_Status_v4 == On(<<"lol", "status", "v4">>, {
    Method("Lol-Status-v4-status", <<>>, <<"platform-data">>, {})})

Lor_Match_v1 == On(<<"lor", "match", "v1">>, {
    Method("Lor-Match-v1-by-puuid", <<<<"matches", "by-puuid">>>>, <<"ids">>, {}),
    Method("Lor-Match-v1-by-match-id", <<<<"matches">>>>, <<>>, {})})

Lor_Ranked_v1 == On(<<"lor", "ranked", "v1">>, {
    Method("Lor-Ranked-v1-leaderboards", <<>>, <<"leaderboards">>, {})})

Lor_Status_v1 == On(<<"lor", "status", "v1">>, {
    Method("Lor-Status-v1", <<>>, <<"platform-data">>, {})})

Match_v5 == On(<<"lol", "match", "v5">>, {
    Method("Match-v5-by-puuid", <<<<"matches", "by-puuid">>>>, <<"ids">>,
           {"startTime", "endTime", "queue", "type", "start", "count"}),
    Method("Match-v5-by-match-id", <<<<"matches">>>>, <<>>, {}),
    Method("Match-v5-timeline-by-match-id", <<<<"matches">>>>, <<"timeline">>, {})})

Spectator_Tft_v5 == On(<<"lol", "spectator", "tft", "v5">>, {
    Method("Spectator-Tft-v5-by-puuid", <<<<"active-games", "by-puuid">>>>, <<>>, {}),
    Method("Spectator-Tft-v5=featured", <<>>, <<"featured-games">>, {})})

Spectator_v5 == On(<<"lol", "spectator", "v5">>, {
    Method("Spectator-v5-by-summoner-id", <<<<"active-games", "by-summoner">>>>, <<>>, {}),
    Method("Spectator-v5-featured", <<>>, <<"featured-games">>, {})})

Summoner_v4 == On(<<"lol", "summoner", "v4">>, {
    Method("Summoner-v4-by-puuid", <<<<"summoners", "by-puuid">>>>, <<>>, {})})

Tft_League_v1 == On(<<"tft", "league", "v1">>, {
    Method("Tft-League-v1-challenger", <<>>, <<"challenger">>, {"queue"}),
    Method("Tft-League-v1-by-puuid", <<<<"by-puuid">>>>, <<>>, {}),
    Method("Tft-League-v1-entries", <<<<"entries">>, <<>>>>, <<>>, {"queue", "page"}),
    Method("Tft-League-v1-grandmaster", <<>>, <<"grandmaster">>, {"queue"}),
    Method("Tft-League-v1-by-league-id", <<<<"leagues">>>>, <<>>, {}),
    Method("Tft-League-v1-master", <<>>, <<"master">>, {"queue"}),
    Method("Tft-League-v1-top-by-queue", <<<<"rated-ladders">>>>, <<"top">>, {})})

Tft_Match_v1 == On(<<"tft", "match", "v1">>, {
    Method("Tft-Match-v1-by-puuid", <<<<"matches", "by-puuid">>>>, <<"ids">>,
           {"startTime", "endTime", "start", "count"}),
    Method("Tft-Match-v1-by-match-id", <<<<"matches">>>>, <<>>, {})})

Tft_Status_v1 == On(<<"tft", "status", "v1">>, {
    Method("Tft-Status-v1-status", <<>>, <<"platform-data">>, {})})

Tft_Summoner_v1 == On(<<"tft", "summoner", "v1">>, {
    Method("Tft-Summoner-v1-by-puuid", <<<<"summoners", "by-puuid">>>>, <<>>, {})})

Val_Content_v1 == On(<<"val", "content", "v1">>, {
    Method("Val-Content-v1-contents", <<>>, <<"contents">>, {"locale"})})

Val_Match_v1 == On(<<"val", "match", "v1">>, {
    Method("Val-Match-v1-by-match-id", <<<<"matches">>>>, <<>>, {}),
    Method("Val-Match-v1-by-puuid", <<<<"matches", "by-puuid">>>>, <<>>, {}),
    Method("Val-Match-v1-recent-by-queue", <<<<"recent-matches", "by-queue">>>>, <<>>, {})})

Val_Ranked_v1 == On(<<"val", "ranked", "v1">>, {
    Method("Val-Ranked-v1-leaderbords-by-act", <<<<"leaderboards", "by-act">>>>, <<>>,
           {"size", "startIndex"})})

Val_Status_v1 == On(<<"val", "status", "v1">>, {
    Method("Val-Status-v1-status", <<>>, <<"platform-data">>, {})})

EndpointMethods ==
    Account_v1 \cup Champion_Mastery_v4 \cup Champion_v3 \cup Clash_v1
        \cup League_exp_v4 \cup League_v4 \cup Lol_Challenges_v1 \cup Lol_Status_v4
        \cup Lor_Match_v1 \cup Lor_Ranked_v1 \cup Lor_Status_v1 \cup Match_v5
        \cup Spectator_Tft_v5 \cup Spectator_v5 \cup Summoner_v4 \cup Tft_League_v1
        \cup Tft_Match_v1 \cup Tft_Status_v1 \cup Tft_Summoner_v1 \cup Val_Content_v1
        \cup Val_Match_v1 \cup Val_Ranked_v1 \cup Val_Status_v1
=============================================================================
