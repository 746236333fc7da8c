----------------------- MODULE RiotClientRetryProofs ------------------------
(***************************************************************************)
(* Proof that a query which meets nothing but 500s gives up, for any       *)
(* number of threads that write back the error counter of their route      *)
(* without a lock.  A thread that has read the counter at 0 and not yet    *)
(* written it can take the counter back to 1 once; the induction weighs    *)
(* the 500s a query has met against the threads that still can.            *)
(***************************************************************************)
EXTENDS RiotClientProofs, FiniteSetTheorems

\* The 500s a query has met and review_request has been asked about.
Reviewed(q) == q.denials - (IF q.unreviewed THEN 1 ELSE 0)

\* The threads that will write 1 into the counter of route r.
Stale(r) == {t \in Threads : pc[t] = "count" /\ seen[t] = 0 /\ request[t].route = r}

\* t has met a 500 that it has not been allowed to repeat, nor will be as it stands.
Spent(t) == pc[t] = "count" \/ (pc[t] = "decide" /\ ~Handler!Resend(request[t].route))

Weighed(t) ==
    LET r == request[t].route
        reviewed == Reviewed(request[t])
    IN  /\ errors[r] = 0 => reviewed <= 0 \/ (t \in Stale(r) /\ reviewed <= 1)
        /\ t \in Stale(r) => reviewed <= 1
        /\ t \notin Stale(r)
              => reviewed + Cardinality(Stale(r))
                    <= Cardinality(Threads) + (IF Spent(t) THEN 1 ELSE 0)

\* Where a thread is until the response of an unapproved first attempt is heard.
Unasked == {"start", "first", "sent_first", "received_first"}

RInv ==
    /\ CInv
    /\ errors \in [Routes -> Nat] /\ seen \in [Threads -> Nat]
    /\ \A t \in Threads : pc[t] # "idle" => Weighed(t)
    /\ \A t \in Threads : pc[t] \in Unasked => ~request[t].unreviewed
-----------------------------------------------------------------------------
LEMMA StaleCounted ==
    ASSUME IsFiniteSet(Threads), NEW S \in SUBSET Threads
    PROVE  /\ IsFiniteSet(S)
           /\ Cardinality(S) \in Nat /\ Cardinality(Threads) \in Nat
           /\ Cardinality(S) <= Cardinality(Threads)
BY FS_Subset, FS_CardinalityType

LEMMA RequestFields ==
    ASSUME CInv, NEW t \in Threads, pc[t] # "idle"
    PROVE  request[t].route \in Routes /\ Reviewed(request[t]) \in Int
BY DEF CInv, InQuery, Request, Reviewed

\* A step in which t neither meets nor counts a 500.
LEMMA QuietStep ==
    ASSUME IsFiniteSet(Threads), RInv, CInv', UNCHANGED <<errors, seen>>, NEW t \in Threads,
           \A u \in Threads \ {t} : pc'[u] = pc[u] /\ request'[u] = request[u],
           pc[t] # "count", pc'[t] \notin {"count", "decide"},
           pc'[t] \in Unasked => ~request'[t].unreviewed,
           \/ pc'[t] = "idle"
           \/ Reviewed(request'[t]) = 0
           \/ /\ pc[t] # "idle" /\ ~Spent(t)
              /\ Reviewed(request'[t]) = Reviewed(request[t])
              /\ request'[t].route = request[t].route
    PROVE  RInv'
<1>1. ASSUME NEW r PROVE Stale(r)' = Stale(r)
  BY DEF Stale
<1>2. ASSUME NEW u \in Threads, pc'[u] # "idle" PROVE Weighed(u)'
  <2>1. PICK r : r = request'[u].route
    OBVIOUS
  <2> DEFINE S == Stale(r)
  <2>2. Cardinality(S) \in Nat /\ Cardinality(Threads) \in Nat
        /\ Cardinality(S) <= Cardinality(Threads)
    BY StaleCounted DEF Stale
  <2>3. CASE u # t
    <3>1. pc[u] # "idle" /\ Weighed(u)
      BY <1>2, <2>3 DEF RInv
    <3> QED BY <1>1, <2>1, <2>3, <3>1 DEF Weighed, Spent, Handler!Resend
  <2>4. CASE u = t /\ Reviewed(request'[t]) = 0
    <3>1. u \notin Stale(r)'
      BY <2>4 DEF Stale
    <3> QED BY <1>1, <2>1, <2>2, <2>4, <3>1 DEF Weighed
  <2>5. CASE u = t /\ Reviewed(request'[t]) # 0
    <3>1. /\ pc[t] # "idle" /\ ~Spent(t)
          /\ Reviewed(request'[t]) = Reviewed(request[t])
          /\ request'[t].route = request[t].route
      BY <1>2, <2>5
    <3>2. Weighed(t) /\ t \notin Stale(r)
      BY <2>1, <2>5, <3>1 DEF RInv, Stale
    <3>3. ~Spent(t)'
      BY DEF Spent
    <3> QED BY <1>1, <2>1, <2>5, <3>1, <3>2, <3>3 DEF Weighed
  <2> QED BY <2>3, <2>4, <2>5
<1>3. \A u \in Threads : pc'[u] \in Unasked => ~request'[u].unreviewed
  BY DEF RInv
<1> QED BY <1>2, <1>3 DEF RInv

\* A 429 takes the counter of its route and all its queries back to 0.
LEMMA RefusalStep ==
    ASSUME IsFiniteSet(Threads), RInv, CInv', NEW t \in Threads, ReviewRefusal(t)
    PROVE  RInv'
<1> DEFINE q == request[t].route
<1>1. q \in Routes /\ pc[t] = "review"
  BY RequestFields DEF RInv, ReviewRefusal
<1>2. errors' = [errors EXCEPT ![q] = 0] /\ seen' = seen /\ pc' = [pc EXCEPT ![t] = "check"]
  BY DEF ReviewRefusal, Handler!ResetServerErrorCount, Goto
<1>3. ASSUME NEW u \in Threads, pc[u] # "idle"
      PROVE  /\ request'[u].route = request[u].route
             /\ Reviewed(request'[u]) = IF request[u].route = q THEN 0 ELSE Reviewed(request[u])
  <2>1. request[u] \in InQuery /\ request[u] # NoRequest
    BY <1>3, RepliesAssumption DEF RInv, CInv, InQuery
  <2>2. request'[u] = IF request[u].route = q THEN Forgiven(request[u]) ELSE request[u]
    BY <2>1 DEF ReviewRefusal
  <2>3. /\ Forgiven(request[u]).route = request[u].route
        /\ Forgiven(request[u]).denials = 0 /\ ~Forgiven(request[u]).unreviewed
    BY <2>1 DEF Forgiven, InQuery, Request
  <2> QED BY <2>2, <2>3 DEF Reviewed
<1>4. \A u \in Threads : pc'[u] = IF u = t THEN "check" ELSE pc[u]
  BY <1>2 DEF RInv, CInv
<1>5. \A r \in Routes : errors'[r] = IF r = q THEN 0 ELSE errors[r]
  BY <1>2 DEF RInv
<1> HIDE DEF q
<1>6. ASSUME NEW r PROVE Stale(r)' = Stale(r)
  BY <1>1, <1>2, <1>3, <1>4 DEF Stale
<1>7. ASSUME NEW u \in Threads, pc'[u] # "idle" PROVE Weighed(u)'
  <2>1. pc[u] # "idle"
    BY <1>1, <1>4, <1>7
  <2>2. request[u].route \in Routes /\ Weighed(u)
    BY <2>1, RequestFields DEF RInv
  <2>3. CASE request[u].route = q
    <3>1. Reviewed(request'[u]) = 0 /\ request'[u].route = q
      BY <1>3, <2>1, <2>3
    <3>2. Cardinality(Stale(q)) \in Nat /\ Cardinality(Threads) \in Nat
          /\ Cardinality(Stale(q)) <= Cardinality(Threads)
      BY StaleCounted DEF Stale
    <3> QED BY <1>6, <3>1, <3>2 DEF Weighed
  <2>4. CASE request[u].route # q
    <3>1. /\ request'[u].route = request[u].route
          /\ Reviewed(request'[u]) = Reviewed(request[u])
          /\ errors'[request[u].route] = errors[request[u].route]
      BY <1>3, <1>5, <2>1, <2>2, <2>4
    <3>2. u # t /\ pc'[u] = pc[u]
      BY <1>4, <2>4 DEF q
    <3> QED BY <1>6, <2>2, <3>1, <3>2 DEF Weighed, Spent, Handler!Resend
  <2> QED BY <2>3, <2>4
<1>8. errors' \in [Routes -> Nat] /\ seen' \in [Threads -> Nat]
  BY <1>2 DEF RInv
<1>9. ASSUME NEW u \in Threads, pc'[u] \in Unasked PROVE ~request'[u].unreviewed
  <2>1. u # t /\ pc[u] \in Unasked /\ request[u] \in InQuery
    BY <1>1, <1>4, <1>9 DEF Unasked, RInv, CInv
  <2>2. request'[u] \in {request[u], Forgiven(request[u])} /\ ~request[u].unreviewed
    BY <2>1 DEF ReviewRefusal, RInv
  <2> QED BY <2>1, <2>2 DEF Forgiven, InQuery, Request
<1> QED BY <1>7, <1>8, <1>9 DEF RInv

\* A 500 is met and the counter read; read at 0, the thread is stale from then on.
LEMMA ReadStep ==
    ASSUME IsFiniteSet(Threads), RInv, CInv', NEW t \in Threads, ReviewServerError(t)
    PROVE  RInv'
<1>0. PICK q \in Routes : q = request[t].route
  BY RequestFields DEF RInv, ReviewServerError
<1>1. pc[t] = "review" /\ request[t] \in InQuery
  BY DEF RInv, CInv, ReviewServerError
<1>2. /\ errors' = errors /\ seen' = [seen EXCEPT ![t] = errors[q]]
      /\ pc' = [pc EXCEPT ![t] = "count"]
  BY <1>0 DEF ReviewServerError, Handler!ReadErrorCount, Goto
<1>3. /\ request'[t].route = q /\ Reviewed(request'[t]) = Reviewed(request[t]) + 1
      /\ \A u \in Threads \ {t} : request'[u] = request[u]
  <2>1. request' = [request EXCEPT ![t].denials = @ + 1]
    BY DEF ReviewServerError
  <2>2. /\ request'[t].route = q /\ request'[t].denials = request[t].denials + 1
        /\ request'[t].unreviewed = request[t].unreviewed
        /\ \A u \in Threads \ {t} : request'[u] = request[u]
    BY <1>0, <1>1, <2>1 DEF RInv, CInv, InQuery, Request
  <2>3. request[t].denials \in Nat
    BY <1>1 DEF InQuery, Request
  <2> QED BY <2>2, <2>3 DEF Reviewed
<1>4. \A u \in Threads : /\ pc'[u] = IF u = t THEN "count" ELSE pc[u]
                         /\ seen'[u] = IF u = t THEN errors[q] ELSE seen[u]
  BY <1>2 DEF RInv, CInv
<1>5. errors' \in [Routes -> Nat] /\ seen' \in [Threads -> Nat]
  BY <1>1, <1>2 DEF RInv
<1>6. ASSUME NEW r
      PROVE  Stale(r)' = IF r = q /\ errors[q] = 0 THEN Stale(r) \cup {t} ELSE Stale(r)
  BY <1>0, <1>1, <1>3, <1>4 DEF Stale
<1>7. ASSUME NEW r
      PROVE  /\ t \notin Stale(r)
             /\ IsFiniteSet(Stale(r))
             /\ Cardinality(Stale(r)) \in Nat /\ Cardinality(Threads) \in Nat
             /\ Cardinality(Stale(r)') \in Nat
             /\ Cardinality(Stale(r)') <= Cardinality(Threads)
             /\ Cardinality(Stale(r)') = IF r = q /\ errors[q] = 0
                                         THEN Cardinality(Stale(r)) + 1
                                         ELSE Cardinality(Stale(r))
  <2>1. t \notin Stale(r)
    BY <1>1 DEF Stale
  <2>2. IsFiniteSet(Stale(r)) /\ Cardinality(Stale(r)) \in Nat /\ Cardinality(Threads) \in Nat
    BY StaleCounted DEF Stale
  <2>3. Cardinality(Stale(r)') \in Nat /\ Cardinality(Stale(r)') <= Cardinality(Threads)
    <3>1. Stale(r)' \in SUBSET Threads
      BY DEF Stale
    <3> QED BY <3>1, StaleCounted
  <2> QED BY <1>6, <2>1, <2>2, <2>3, FS_AddElement
<1>8. Weighed(t) /\ Reviewed(request[t]) \in Int
  BY <1>1, RequestFields DEF RInv
<1>9. Weighed(t)'
  <2>1. Spent(t)'
    BY <1>4 DEF Spent
  <2>2. CASE errors[q] = 0
    <3>1. Reviewed(request'[t]) <= 1 /\ t \in Stale(q)'
      BY <1>0, <1>3, <1>6, <1>7, <1>8, <2>2 DEF Weighed
    <3> QED BY <1>3, <3>1 DEF Weighed
  <2>3. CASE errors[q] # 0
    <3>1. t \notin Stale(q)' /\ ~Spent(t) /\ errors'[q] # 0
      BY <1>1, <1>2, <1>6, <1>7, <2>3 DEF Spent
    <3>2. Reviewed(request[t]) + Cardinality(Stale(q)) <= Cardinality(Threads)
      BY <1>0, <1>7, <1>8, <3>1 DEF Weighed
    <3>3. Reviewed(request'[t]) + Cardinality(Stale(q)') <= Cardinality(Threads) + 1
      BY <1>3, <1>7, <1>8, <2>3, <3>2
    <3> QED BY <1>3, <2>1, <3>1, <3>3 DEF Weighed
  <2> QED BY <2>2, <2>3
<1>10. ASSUME NEW u \in Threads \ {t}, pc'[u] # "idle" PROVE Weighed(u)'
  <2>1. /\ pc[u] # "idle" /\ pc'[u] = pc[u] /\ request'[u] = request[u]
        /\ Weighed(u) /\ Reviewed(request[u]) \in Int
    BY <1>3, <1>4, <1>10, RequestFields DEF RInv
  <2>0. PICK r \in Routes : r = request[u].route
    BY <2>1, RequestFields DEF RInv
  <2>2. Spent(u)' = Spent(u) /\ errors'[r] = errors[r] /\ (u \in Stale(r)' <=> u \in Stale(r))
    BY <1>2, <1>6, <2>0, <2>1 DEF Spent, Handler!Resend
  <2>3. u \notin Stale(r) =>
           Reviewed(request[u]) + Cardinality(Stale(r)')
              <= Cardinality(Threads) + (IF Spent(u) THEN 1 ELSE 0)
    BY <1>7, <2>0, <2>1 DEF Weighed
  <2> QED BY <2>0, <2>1, <2>2, <2>3 DEF Weighed
<1>11. \A u \in Threads : pc'[u] \in Unasked => ~request'[u].unreviewed
  BY <1>3, <1>4 DEF RInv, Unasked
<1> QED BY <1>5, <1>9, <1>10, <1>11 DEF RInv

\* The counter is written back; a stale thread is stale no more.
LEMMA WriteStep ==
    ASSUME IsFiniteSet(Threads), RInv, CInv', NEW t \in Threads, CountServerError(t)
    PROVE  RInv'
<1>0. PICK q \in Routes : q = request[t].route
  BY RequestFields DEF RInv, CountServerError
<1>1. pc[t] = "count" /\ request' = request
  BY DEF CountServerError
<1>2. /\ errors' = [errors EXCEPT ![q] = seen[t] + 1] /\ seen' = [seen EXCEPT ![t] = 0]
      /\ pc' = [pc EXCEPT ![t] = "decide"]
  BY <1>0 DEF CountServerError, Handler!WriteErrorCount, Goto
<1>3. \A u \in Threads : /\ pc'[u] = IF u = t THEN "decide" ELSE pc[u]
                         /\ seen'[u] = IF u = t THEN 0 ELSE seen[u]
  BY <1>2 DEF RInv, CInv
<1>4. \A r \in Routes : errors'[r] = IF r = q THEN seen[t] + 1 ELSE errors[r]
  BY <1>2 DEF RInv
<1>5. seen[t] \in Nat /\ errors' \in [Routes -> Nat] /\ seen' \in [Threads -> Nat]
  BY <1>1, <1>2 DEF RInv
<1>6. ASSUME NEW r
      PROVE  Stale(r)' = Stale(r) \ {t}
  BY <1>1, <1>3 DEF Stale
<1>7. ASSUME NEW r
      PROVE  /\ t \in Stale(r) <=> r = q /\ seen[t] = 0
             /\ Cardinality(Stale(r)) \in Nat /\ Cardinality(Threads) \in Nat
             /\ Cardinality(Stale(r)) <= Cardinality(Threads)
             /\ Cardinality(Stale(r)') = IF r = q /\ seen[t] = 0
                                         THEN Cardinality(Stale(r)) - 1
                                         ELSE Cardinality(Stale(r))
  <2>1. t \in Stale(r) <=> r = q /\ seen[t] = 0
    BY <1>0, <1>1 DEF Stale
  <2>2. /\ IsFiniteSet(Stale(r)) /\ Cardinality(Stale(r)) \in Nat
        /\ Cardinality(Threads) \in Nat /\ Cardinality(Stale(r)) <= Cardinality(Threads)
    BY StaleCounted DEF Stale
  <2> QED BY <1>6, <2>1, <2>2, FS_RemoveElement
<1>8. ASSUME NEW u \in Threads, pc'[u] # "idle" PROVE Weighed(u)'
  <2>a. pc[u] # "idle"
    BY <1>1, <1>3, <1>8
  <2>0. PICK r \in Routes, d \in Int : r = request[u].route /\ d = Reviewed(request[u])
    BY <2>a, RequestFields DEF RInv
  <2>1. request'[u] = request[u] /\ Weighed(u) /\ errors[r] \in Nat
    BY <1>1, <2>a DEF RInv
  <2>2. Spent(u)' <=> IF u = t THEN seen[t] # 0
                      ELSE \/ pc[u] = "count"
                           \/ pc[u] = "decide" /\ r = q /\ seen[t] # 0
                           \/ Spent(u) /\ r # q
    BY <1>0, <1>3, <1>4, <1>5, <2>0, <2>1
       DEF Spent, Handler!Resend, Handler!MaxInternalDenials
  <2>3. errors'[r] = 0 => r # q /\ errors[r] = 0
    BY <1>4, <1>5, <2>1
  <2>4. u \in Stale(r)' <=> u \in Stale(r) /\ u # t
    BY <1>6
  <2>5. /\ errors[r] = 0 => d <= 0 \/ (u \in Stale(r) /\ d <= 1)
        /\ u \in Stale(r) => d <= 1
        /\ u \notin Stale(r)
              => d + Cardinality(Stale(r))
                    <= Cardinality(Threads) + (IF Spent(u) THEN 1 ELSE 0)
    BY <2>0, <2>1 DEF Weighed
  <2>6. u = t => r = q
    BY <1>0, <2>0
  <2>7. errors'[r] = 0 => d <= 0 \/ (u \in Stale(r)' /\ d <= 1)
    BY <2>3, <2>4, <2>5, <2>6
  <2>8. u \in Stale(r)' => d <= 1
    BY <2>4, <2>5
  <2>9. ASSUME u \notin Stale(r)'
        PROVE  d + Cardinality(Stale(r)') <= Cardinality(Threads) + (IF Spent(u)' THEN 1 ELSE 0)
    <3>1. CASE u = t
      <4>1. Spent(u)
        BY <1>1, <3>1 DEF Spent
      <4> QED BY <1>7, <2>1, <2>2, <2>5, <2>6, <3>1, <4>1
    <3>2. CASE u # t
      <4>1. u \notin Stale(r)
        BY <2>4, <2>9, <3>2
      <4>2. Spent(u) <=> pc[u] = "count" \/ (pc[u] = "decide" /\ errors[r] >= 2)
        BY <2>0, <2>1 DEF Spent, Handler!Resend, Handler!MaxInternalDenials
      <4> QED BY <1>7, <2>1, <2>2, <2>5, <3>2, <4>1, <4>2
    <3> QED BY <3>1, <3>2
  <2> QED BY <2>0, <2>1, <2>7, <2>8, <2>9 DEF Weighed
<1>9. \A u \in Threads : pc'[u] \in Unasked => ~request'[u].unreviewed
  BY <1>1, <1>3 DEF RInv, Unasked
<1> QED BY <1>5, <1>8, <1>9 DEF RInv

\* Every other step of a thread is quiet.
LEMMA OtherSteps ==
    ASSUME IsFiniteSet(Threads), RInv, CInv', NEW t \in Threads, Acts(t),
           ~ReviewRefusal(t), ~ReviewServerError(t), ~CountServerError(t)
    PROVE  RInv'
<1>1. CASE \E r \in Routes, m \in Methods : Query(t, r, m)
  <2>1. PICK r \in Routes, m \in Methods : Query(t, r, m)
    BY <1>1
  <2>2. /\ UNCHANGED <<errors, seen>> /\ pc[t] # "count" /\ pc'[t] = "start"
        /\ Reviewed(request'[t]) = 0 /\ ~request'[t].unreviewed
        /\ \A u \in Threads \ {t} : pc'[u] = pc[u] /\ request'[u] = request[u]
    BY <2>1 DEF Query, Goto, NewRequest, handler, RInv, CInv, Reviewed
  <2> QED BY <2>2, QuietStep
<1>2. CASE DecideServerError(t)
  <2>1. /\ UNCHANGED <<errors, seen>> /\ pc[t] = "decide"
        /\ pc'[t] = IF Handler!Resend(request[t].route) THEN "check" ELSE "idle"
        /\ Handler!Resend(request[t].route) => request' = request
        /\ \A u \in Threads \ {t} : pc'[u] = pc[u] /\ request'[u] = request[u]
    BY <1>2 DEF DecideServerError, Return, Goto, handler, RInv, CInv
  <2>2. CASE Handler!Resend(request[t].route)
    <3>1. ~Spent(t)
      BY <2>1, <2>2 DEF Spent
    <3> QED BY <2>1, <2>2, <3>1, QuietStep DEF Unasked
  <2>3. CASE ~Handler!Resend(request[t].route)
    BY <2>1, <2>3, QuietStep DEF Unasked
  <2> QED BY <2>2, <2>3
<1>3. CASE ~DecideServerError(t) /\ ~(\E r \in Routes, m \in Methods : Query(t, r, m))
  <2>0. \/ IsInitialized(t) \/ SendFirst(t) \/ Send(t) \/ Poll(t) \/ ReviewFailure(t)
        \/ CheckRateLimits(t) \/ Update(t) \/ \E reply \in Replies : Receive(t, reply)
    BY <1>3 DEF Acts, Step
  <2>1. /\ UNCHANGED <<errors, seen>> /\ pc[t] \notin {"idle", "count", "decide"}
        /\ pc'[t] \notin {"count", "decide"}
    <3>1. UNCHANGED <<errors, seen>> /\ pc[t] \notin {"idle", "count", "decide"}
      BY <2>0 DEF IsInitialized, SendFirst, CheckRateLimits, Send, Update, ReviewFailure,
                  Poll, Receive, handler
    <3>2. \/ pc' = pc
          \/ \E label \in Labels \ {"count", "decide"} : Goto(t, label)
      BY <2>0 DEF IsInitialized, SendFirst, CheckRateLimits, Send, Update, ReviewFailure,
                  Return, Poll, Receive, Labels
    <3> QED BY <3>1, <3>2 DEF Goto, RInv, CInv
  <2>2. \A u \in Threads \ {t} : pc'[u] = pc[u] /\ request'[u] = request[u]
    <3>1. /\ pc' = pc \/ \E label : Goto(t, label)
          /\ request' = request \/ \E q : request' = [request EXCEPT ![t] = q]
      BY <2>0 DEF IsInitialized, SendFirst, CheckRateLimits, Send, Update, ReviewFailure,
                  Return, Poll, Receive
    <3>2. /\ \A u \in Threads \ {t} : pc'[u] = pc[u]
          /\ \A u \in Threads \ {t} : request'[u] = request[u]
      BY <3>1 DEF Goto, RInv, CInv
    <3> QED BY <3>2
  <2>3. \/ pc'[t] = "idle"
        \/ /\ Reviewed(request'[t]) = Reviewed(request[t])
           /\ request'[t].route = request[t].route
           /\ Update(t) \/ request'[t].unreviewed = request[t].unreviewed
    <3>1. request[t] \in InQuery
      BY <2>1 DEF RInv, CInv
    <3>2. CASE CheckRateLimits(t) \/ \E reply \in Replies : Receive(t, reply)
      <4>1. CASE CheckRateLimits(t)
        <5>1. \E s : request' = [request EXCEPT ![t].send_time = s]
          BY <4>1 DEF CheckRateLimits
        <5> QED BY <3>1, <5>1 DEF RInv, CInv, InQuery, Request, Reviewed
      <4>2. CASE \E reply \in Replies : Receive(t, reply)
        <5>1. PICK reply \in Replies : Receive(t, reply)
          BY <4>2
        <5> DEFINE header == IF reply.status = CprError THEN request[t].response_header
                             ELSE Overwrite(reply.header, request[t].response_header)
                   s == IF "retry_after" \in DOMAIN reply.header
                        THEN now + Limiter!Larger(0, reply.header.retry_after) ELSE 0
        <5>2. request' = [request EXCEPT ![t].last_response = reply.status,
                                         ![t].response_header = header, ![t].silence = s]
          BY <5>1 DEF Receive
        <5> HIDE DEF header, s
        <5> QED BY <3>1, <5>2 DEF RInv, CInv, InQuery, Request, Reviewed
      <4> QED BY <3>2, <4>1, <4>2
    <3>3. CASE Update(t) \/ ReviewFailure(t)
      <4>1. CASE Return(t)
        BY <4>1 DEF Return, Goto, RInv, CInv
      <4>2. CASE ~Return(t)
        <5>1. Update(t) /\ request' = [request EXCEPT ![t] = Heard(request[t], Unreviewed(t))]
          BY <3>3, <4>2 DEF Update, ReviewFailure
        <5>2. request'[t] = Heard(request[t], Unreviewed(t))
          BY <5>1 DEF RInv, CInv
        <5>3. CASE Unreviewed(t)
          <6>1. ~request[t].unreviewed
            BY <5>3 DEF Unreviewed, Unasked, RInv
          <6>2. /\ request'[t].denials = request[t].denials + 1 /\ request'[t].unreviewed
                /\ request'[t].route = request[t].route /\ request[t].denials \in Nat
            BY <3>1, <5>2, <5>3 DEF InQuery, Request, Heard
          <6> QED BY <5>1, <6>1, <6>2 DEF Reviewed
        <5>4. CASE ~Unreviewed(t)
          BY <3>1, <5>1, <5>2, <5>4 DEF InQuery, Request, Heard, Reviewed
        <5> QED BY <5>3, <5>4
      <4> QED BY <4>1, <4>2
    <3>4. CASE IsInitialized(t) \/ SendFirst(t) \/ Send(t) \/ Poll(t)
      BY <3>4 DEF IsInitialized, SendFirst, Send, Poll
    <3> QED BY <2>0, <3>2, <3>3, <3>4
  <2>4. pc'[t] \in Unasked => pc[t] \in Unasked /\ ~Update(t)
    <3>1. ASSUME NEW label, Goto(t, label) PROVE pc'[t] = label
      BY <3>1 DEF Goto, RInv, CInv
    <3> QED BY <2>0, <3>1 DEF IsInitialized, SendFirst, CheckRateLimits, Send, Update,
                              ReviewFailure, Return, Poll, Receive, Unasked
  <2>5. pc'[t] \in Unasked => ~request'[t].unreviewed
    BY <2>3, <2>4 DEF Unasked, RInv
  <2> QED BY <2>1, <2>2, <2>3, <2>5, QuietStep DEF Spent
<1> QED BY <1>1, <1>2, <1>3

LEMMA NextRInv == IsFiniteSet(Threads) /\ RInv /\ CInv' /\ [Next]_vars => RInv'
<1> SUFFICES ASSUME IsFiniteSet(Threads), RInv, CInv', [Next]_vars PROVE RInv'
  OBVIOUS
<1>1. ASSUME NEW t \in Threads, Acts(t) PROVE RInv'
  BY <1>1, RefusalStep, ReadStep, WriteStep, OtherSteps
<1>2. CASE UNCHANGED <<handler, client>>
  BY <1>2 DEF RInv, Weighed, Stale, Spent, Handler!Resend, handler, client
<1> QED BY <1>1, <1>2 DEF Next, Internal, Observe, Tick, vars, Acts

\* The bound on the 500s of a query (handlers.cpp, handle_server_error), for any finite
\* number of threads: one for each, one more, and one more again for the unapproved first
\* attempt.  It needs counters that do not begin below 0, which nothing in handlers.h
\* sees to: from there the first queries go on for longer.
THEOREM ErrorsRunOut ==
    ASSUME IsFiniteSet(Threads), InitialErrors \subseteq Nat
    PROVE  Spec => []RetriesBounded
<1>1. Init /\ CInv => RInv
  <2> SUFFICES ASSUME Init, CInv PROVE RInv
    OBVIOUS
  <2>1. \A t \in Threads : pc[t] = "idle"
    BY DEF Init
  <2>2. errors \in [Routes -> InitialErrors] /\ seen = [t \in Threads |-> 0]
    BY DEF Init, Handler!Init
  <2>3. errors \in [Routes -> Nat]
    BY <2>2
  <2>4. seen \in [Threads -> Nat]
    BY <2>2
  <2> QED BY <2>1, <2>3, <2>4 DEF RInv, Unasked
<1>2. ASSUME RInv, NEW t \in Threads, pc[t] # "idle"
      PROVE  request[t].denials < Handler!MaxInternalDenials + Cardinality(Threads)
                                      + (IF request[t].unreviewed THEN 1 ELSE 0)
  <2>1. Weighed(t) /\ request[t].denials \in Nat
    BY <1>2 DEF RInv, CInv, InQuery, Request
  <2>2. /\ Cardinality(Stale(request[t].route)) \in Nat
        /\ Cardinality(Threads) \in Nat
    BY StaleCounted DEF Stale
  <2> QED BY <2>1, <2>2 DEF Weighed, Reviewed, Handler!MaxInternalDenials
<1>3. RInv => RetriesBounded
  BY <1>2 DEF RetriesBounded
<1>4. RInv /\ CInv' /\ [Next]_vars => RInv'
  BY NextRInv
<1> QED BY <1>1, <1>3, <1>4, SpecCInv, PTL DEF Spec
=============================================================================
