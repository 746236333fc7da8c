---------------------------- MODULE MCRiotSystem ----------------------------
(* RiotSystem for TLC. *)
EXTENDS RiotSystem, TLC

Part(l, d) == [limit |-> l, duration |-> d]

MCAppLimits == <<Part(1, 1), Part(3, 3)>>
MCOneAppLimit == <<Part(1, 1)>>
MCMethodLimits == <<Part(2, 2)>>
MCTightAppLimits == <<Part(2, 2)>>
MCTightMethodLimits == <<Part(1, 1)>>
MCFallback == <<Part(1, 1), Part(2, 3)>>

MCDefaultHeader ==
    [app_limit |-> <<Part(1, MaxWindow)>>, app_limit_count |-> <<1>>,
     method_limit |-> <<Part(1, MaxWindow)>>, method_limit_count |-> <<1>>,
     retry_after |-> -1]

\* A service nobody has used yet, and one this key may have used already.
Unused == {[count |-> 0, ends |-> 0]}
MaybeUsed == Unused \cup {[count |-> c, ends |-> 2 * TicksPerSecond] : c \in {2, 3}}

\* Whatever the memory of the counters held before.
MCInitialErrors == {-1, 0, 7}

CONSTANT FreeTime   \* until when time passes without anyone waiting for it

\* For liveness, time passes while some thread waits for it, and freely only before
\* FreeTime, so that MaxTime is never reached.
MCThreadStep(t) == ThreadStep(t) /\ (now' = now \/ now < FreeTime)

MCTick ==
    /\ Tick
    /\ \/ now < FreeTime
       \/ \E t \in Threads : pc[t] = "wait" /\ now < request[t].send_time

MCNext ==
    \/ \E t \in Threads : MCThreadStep(t) \/ Serve(t) \/ Deliver(t) \/ Lose(t)
    \/ \E t \in Threads, r \in Routes, m \in Methods : Call(t, r, m)
    \/ MCTick

MCFairness ==
    /\ \A t \in Threads : /\ WF_vars(MCThreadStep(t))
                          /\ WF_vars(Serve(t) \/ Deliver(t) \/ Lose(t))
    /\ WF_vars(MCTick)

MCSpec == Init /\ [][MCNext]_vars /\ MCFairness

MCSymmetry == Permutations(Methods)
=============================================================================
