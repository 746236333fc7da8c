------------------------------ MODULE RateGate ------------------------------
(***************************************************************************)
(* What the rate limiter promises a thread that is about to send: for each *)
(* route and method there is a gate, open or closed until a known second.  *)
(* A response moves the gates of its own route, never to more than         *)
(* MaxWindow seconds ahead; every other gate opens when its second comes.  *)
(* Nothing else moves a gate: not asking, not looking, not a response on   *)
(* another route.                                                          *)
(***************************************************************************)
EXTENDS Integers

CONSTANTS Routes, Methods, MaxWindow

VARIABLES
    now,
    closed_until,   \* for each route and method, 0 when its gate is open
    responses       \* how many have arrived on each route
vars == <<now, closed_until, responses>>

TypeOK ==
    /\ now \in Nat
    /\ closed_until \in [Routes -> [Methods -> Nat]]
    /\ responses \in [Routes -> Nat]

Init ==
    /\ now = 0
    /\ closed_until = [r \in Routes |-> [m \in Methods |-> 0]]
    /\ responses = [r \in Routes |-> 0]

\* A gate closed until second c, seen at second t.
At(c, t) == IF c > t THEN c ELSE 0

ClockMoves == now' \in {now, now + 1}

\* The gates of route r wait for nothing but their second.
OnlyTimePasses(r) ==
    closed_until'[r] = [m \in Methods |-> At(closed_until[r][m], now')]

\* A response on route r.
Respond(r) ==
    /\ ClockMoves
    /\ responses' = [responses EXCEPT ![r] = @ + 1]
    /\ \A m \in Methods :
          closed_until'[r][m] \in {0} \cup ((now' + 1) .. (now' + MaxWindow))
    /\ \A q \in Routes \ {r} : OnlyTimePasses(q)

Tick ==
    /\ now' = now + 1
    /\ \A r \in Routes : OnlyTimePasses(r)
    /\ UNCHANGED responses

Next == Tick \/ \E r \in Routes : Respond(r)

Spec == Init /\ [][Next]_vars
=============================================================================
