---------------------------- MODULE MCRiotClient ----------------------------
(* RiotClient for TLC: headers, replies and the responses they add up to. *)
EXTENDS RiotClient, TLC

Part(l, d) == [limit |-> l, duration |-> d]

\* RiotHeader's defaults, one request in 120 seconds, scaled to MaxWindow.
MCDefaultHeader ==
    [app_limit |-> <<Part(1, MaxWindow)>>, app_limit_count |-> <<1>>,
     method_limit |-> <<Part(1, MaxWindow)>>, method_limit_count |-> <<1>>,
     retry_after |-> NoHeader]

MCFallback == <<Part(1, 1), Part(2, 3)>>

\* The headers of an answered request, with the announced counts.
Counted(app, method) ==
    [app_limit |-> <<Part(2, 1), Part(3, 3)>>, app_limit_count |-> app,
     method_limit |-> <<Part(2, 2)>>, method_limit_count |-> method]

Bare == <<>>
RetryAfter(k) == [retry_after |-> k]

Reply(status, header) == [status |-> status, header |-> header]

Answer == Reply(200, Counted(<<1, 1>>, <<1>>))
LateAnswer == Reply(200, Counted(<<1, 2>>, <<2>>))
Refusal == Reply(429, RetryAfter(2) @@ Counted(<<0, 1>>, <<1>>))
Busy == Reply(429, Bare)
Broken == Reply(500, Counted(<<1, 1>>, <<1>>))
Unavailable == Reply(503, RetryAfter(1))
Malformed == Reply(404, [app_limit |-> <<>>, method_limit |-> <<>>])
Failure == Reply(CprError, Bare)

MCReplies == {Answer, LateAnswer, Refusal, Busy, Broken, Unavailable, Malformed, Failure}

MCSymmetry == Permutations(Threads) \cup Permutations(Methods)
=============================================================================
