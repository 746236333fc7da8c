--------------------------- MODULE MCRateHandler ----------------------------
(* GatedRateHandler for TLC: values for its constants. *)
EXTENDS GatedRateHandler, TLC

Part(l, d) == [limit |-> l, duration |-> d]
Header(al, ac, ml, mc, ra) ==
    [app_limit |-> al, app_limit_count |-> ac,
     method_limit |-> ml, method_limit_count |-> mc, retry_after |-> ra]
Resp(code, h) == [last_response |-> code, response_header |-> h]

MCFallback == <<Part(1, 1), Part(2, 3)>>

App == <<Part(1, 1), Part(3, 3)>>
Lowered == <<Part(1, 1), Part(2, 3)>>
Method == <<Part(2, 2)>>

\* A first request of a window, a refusal without Retry-After that lowers a limit below its
\* count, and one whose pause no bucket accounts for, a response without rate headers
\* (RiotHeader's defaults), and one whose headers have no well-formed part.
MCResponses ==
    { Resp(200, Header(App, <<1, 1>>, Method, <<1>>, NoHeader)),
      Resp(429, Header(Lowered, <<1, 3>>, Method, <<2>>, NoHeader)),
      Resp(429, Header(App, <<0, 2>>, Method, <<1>>, 1)),
      Resp(403, Header(<<Part(1, 3)>>, <<1>>, <<Part(1, 3)>>, <<1>>, NoHeader)),
      Resp(503, Header(<<>>, <<>>, <<>>, <<>>, 1)) }

\* The code treats routes alike, and methods alike.
MCSymmetry == Permutations(Routes) \cup Permutations(Methods)
=============================================================================
