-------------------------- MODULE EndpointsProofs ---------------------------
(***************************************************************************)
(* Proofs about the requests that calls of endpoints lead to, for any      *)
(* calls, of whatever methods and with whatever strings and arguments.  A  *)
(* request's host and its route come from one look-up in the tables of     *)
(* names; the lemmas of the first part say what each look-up finds.  Its   *)
(* URL is put together from fields and parameters; the lemmas of the       *)
(* second part say that it comes apart at its separators, whatever the     *)
(* user's texts contain, and those of the third that what it comes apart   *)
(* into tells the method.                                                  *)
(***************************************************************************)
EXTENDS Endpoints, FiniteSetTheorems, SequenceTheorems, WellFoundedInduction, TLAPS

Kinds == {REGIONAL, PLATFORM, VAL_PLATFORM}
-----------------------------------------------------------------------------
(* Numbers, sequences, and what FlattenSeq makes of them. *)

\* A set of natural numbers that is not empty has a least element, which Min chooses.
LEMMA LeastPosition ==
    ASSUME NEW P \in SUBSET Nat, P # {}
    PROVE  Min(P) \in P /\ \A y \in P : Min(P) <= y
<1> DEFINE R == {ss \in Nat \X Nat : ss[1] < ss[2]}
<1>1. OpToRel(<, Nat) = R
  BY DEF OpToRel
<1>2. IsWellFoundedOn(R, Nat)
  BY <1>1, NatLessThanWellFounded, Zenon
<1>3. PICK x \in P : \A y \in P : <<y, x>> \notin R
  <2> HIDE DEF R
  <2> QED BY <1>2, WFMin
<1>4. ASSUME NEW y \in P PROVE x <= y
  <2>1. <<y, x>> \in Nat \X Nat
    OBVIOUS
  <2>2. <<y, x>> \notin R
    BY <1>3, Zenon
  <2>3. <<y, x>>[1] = y /\ <<y, x>>[2] = x
    OBVIOUS
  <2> QED BY <2>1, <2>2, <2>3
<1> QED BY <1>4 DEF Min

\* Induction over the set of the numbers of which something holds.
LEMMA CountingUp ==
    ASSUME NEW G, 0 \in G, \A n \in Nat : n \in G => n + 1 \in G
    PROVE  \A n \in Nat : n \in G
<1> DEFINE P == Nat \ G
<1>1. SUFFICES ASSUME P # {} PROVE FALSE
  OBVIOUS
<1>2. P \in SUBSET Nat
  OBVIOUS
<1>3. Min(P) \in P /\ \A y \in P : Min(P) <= y
  <2> HIDE DEF P
  <2> QED BY <1>1, <1>2, LeastPosition
<1>4. Min(P) - 1 \in Nat /\ Min(P) - 1 \notin P
  BY <1>3
<1>5. (Min(P) - 1) + 1 = Min(P)
  BY <1>3
<1> QED BY <1>3, <1>4, <1>5

\* What FlattenSeq computes from the first n sequences of ss.
Joins(g, ss, n) == g = [i \in 1 .. n |-> IF i = 1 THEN ss[i] ELSE g[i - 1] \o ss[i]]

\* There is one such function.
LEMMA JoinsExist ==
    ASSUME NEW S, NEW ss \in Seq(Seq(S))
    PROVE  \A n \in 0 .. Len(ss) : \E g \in [1 .. n -> Seq(S)] : Joins(g, ss, n)
<1> DEFINE G == {n \in Nat : n <= Len(ss) => \E g \in [1 .. n -> Seq(S)] : Joins(g, ss, n)}
<1>1. 0 \in G
  <2>1. [i \in 1 .. 0 |-> <<>>] \in [1 .. 0 -> Seq(S)]
    OBVIOUS
  <2>2. Joins([i \in 1 .. 0 |-> <<>>], ss, 0)
    BY DEF Joins
  <2> QED BY <2>1, <2>2
<1>2. ASSUME NEW n \in Nat, n \in G PROVE n + 1 \in G
  <2>1. SUFFICES ASSUME n + 1 <= Len(ss)
                 PROVE  \E h \in [1 .. n + 1 -> Seq(S)] : Joins(h, ss, n + 1)
    OBVIOUS
  <2>2. PICK g \in [1 .. n -> Seq(S)] : Joins(g, ss, n)
    BY <1>2, <2>1
  <2> DEFINE h == [i \in 1 .. n + 1 |->
                     IF i = n + 1 THEN IF n = 0 THEN ss[1] ELSE g[n] \o ss[n + 1] ELSE g[i]]
  <2>3. \A i \in 1 .. Len(ss) : ss[i] \in Seq(S)
    OBVIOUS
  <2>4. ASSUME NEW i \in 1 .. n + 1 PROVE h[i] \in Seq(S)
    BY <2>1, <2>3
  <2>5. ASSUME NEW i \in 1 .. n + 1
        PROVE  h[i] = IF i = 1 THEN ss[i] ELSE h[i - 1] \o ss[i]
    <3>1. CASE i = n + 1
      BY <3>1
    <3>2. CASE i # n + 1
      <4>1. i \in 1 .. n /\ i - 1 \in 0 .. n
        BY <3>2
      <4>2. g[i] = IF i = 1 THEN ss[i] ELSE g[i - 1] \o ss[i]
        BY <2>2, <4>1 DEF Joins
      <4>3. h[i] = g[i]
        BY <3>2
      <4>4. i # 1 => h[i - 1] = g[i - 1]
        BY <4>1
      <4> QED BY <4>2, <4>3, <4>4
    <3> QED BY <3>1, <3>2
  <2>6. h \in [1 .. n + 1 -> Seq(S)]
    BY <2>4
  <2>7. Joins(h, ss, n + 1)
    <3>1. h = [i \in 1 .. n + 1 |-> h[i]]
      OBVIOUS
    <3> HIDE DEF h
    <3> QED BY <2>5, <3>1 DEF Joins
  <2> QED BY <2>6, <2>7
<1>3. \A n \in Nat : n \in G
  <2> HIDE DEF G
  <2> QED BY <1>1, <1>2, CountingUp
<1> QED BY <1>3

LEMMA JoinsUnique ==
    ASSUME NEW ss, NEW n \in Nat, NEW g, NEW h, Joins(g, ss, n), Joins(h, ss, n)
    PROVE  g = h
<1> DEFINE G == {i \in Nat : i \in 1 .. n => g[i] = h[i]}
<1>1. 0 \in G
  OBVIOUS
<1>2. ASSUME NEW i \in Nat, i \in G PROVE i + 1 \in G
  <2>1. SUFFICES ASSUME i + 1 \in 1 .. n PROVE g[i + 1] = h[i + 1]
    OBVIOUS
  <2>2. /\ g[i + 1] = IF i + 1 = 1 THEN ss[i + 1] ELSE g[(i + 1) - 1] \o ss[i + 1]
        /\ h[i + 1] = IF i + 1 = 1 THEN ss[i + 1] ELSE h[(i + 1) - 1] \o ss[i + 1]
    BY <2>1 DEF Joins
  <2>3. (i + 1) - 1 = i
    OBVIOUS
  <2>4. CASE i = 0
    BY <2>2, <2>4
  <2>5. CASE i # 0
    <3>1. g[i] = h[i]
      BY <1>2, <2>1, <2>5
    <3> QED BY <2>2, <2>3, <2>5, <3>1
  <2> QED BY <2>4, <2>5
<1>3. \A i \in Nat : i \in G
  <2> HIDE DEF G
  <2> QED BY <1>1, <1>2, CountingUp
<1>4. \A i \in 1 .. n : g[i] = h[i]
  BY <1>3
<1>5. g = [i \in 1 .. n |-> g[i]] /\ h = [i \in 1 .. n |-> h[i]]
  BY DEF Joins
<1> QED BY <1>4, <1>5

\* FlattenSeq puts its sequences one behind the other.
LEMMA FlattenSteps ==
    ASSUME NEW S, NEW ss \in Seq(Seq(S))
    PROVE  \E f \in [0 .. Len(ss) -> Seq(S)] :
              /\ f[0] = <<>>
              /\ \A i \in 1 .. Len(ss) : f[i] = f[i - 1] \o ss[i]
              /\ FlattenSeq(ss) = f[Len(ss)]
<1> DEFINE n == Len(ss)
<1>1. CASE n = 0
  <2> DEFINE f == [i \in 0 .. 0 |-> <<>>]
  <2>1. FlattenSeq(ss) = <<>> /\ <<>> \in Seq(S)
    BY <1>1 DEF FlattenSeq
  <2>2. f \in [0 .. Len(ss) -> Seq(S)] /\ f[0] = <<>>
    BY <1>1, <2>1
  <2>3. f[Len(ss)] = <<>>
    BY <1>1
  <2>4. \A i \in 1 .. Len(ss) : f[i] = f[i - 1] \o ss[i]
    BY <1>1
  <2> HIDE DEF f
  <2> QED BY <2>1, <2>2, <2>3, <2>4
<1>2. CASE n # 0
  <2>1. PICK g \in [1 .. n -> Seq(S)] : Joins(g, ss, n)
    BY JoinsExist
  <2>2. FlattenSeq(ss) = (CHOOSE h : Joins(h, ss, n))[n]
    BY <1>2 DEF FlattenSeq, Joins
  <2>3. Joins(CHOOSE h : Joins(h, ss, n), ss, n)
    BY <2>1
  <2>4. FlattenSeq(ss) = g[n]
    BY <2>1, <2>2, <2>3, JoinsUnique
  <2> DEFINE f == [i \in 0 .. n |-> IF i = 0 THEN <<>> ELSE g[i]]
  <2>5. f \in [0 .. n -> Seq(S)] /\ f[0] = <<>> /\ f[n] = g[n]
    BY <1>2
  <2>6. ASSUME NEW i \in 1 .. n PROVE f[i] = f[i - 1] \o ss[i]
    <3>1. g[i] = IF i = 1 THEN ss[i] ELSE g[i - 1] \o ss[i]
      BY <2>1 DEF Joins
    <3>2. ss[i] \in Seq(S)
      OBVIOUS
    <3>3. f[i] = g[i] /\ f[i - 1] = IF i = 1 THEN <<>> ELSE g[i - 1]
      OBVIOUS
    <3>4. <<>> \o ss[i] = ss[i]
      BY <3>2
    <3> HIDE DEF f
    <3> QED BY <3>1, <3>3, <3>4
  <2> QED
    <3> HIDE DEF f
    <3> QED BY <2>4, <2>5, <2>6
<1> QED BY <1>1, <1>2

\* Where the elements of two sequences are when one is put behind the other.
LEMMA Joined ==
    ASSUME NEW S, NEW s \in Seq(S), NEW t \in Seq(S)
    PROVE  /\ s \o t \in Seq(S)
           /\ Len(s \o t) = Len(s) + Len(t)
           /\ \A i \in 1 .. Len(s) : (s \o t)[i] = s[i]
           /\ \A i \in 1 .. Len(t) : (s \o t)[Len(s) + i] = t[i]
<1>1. /\ s \o t \in Seq(S) /\ Len(s \o t) = Len(s) + Len(t)
      /\ \A i \in 1 .. Len(s) + Len(t) :
            (s \o t)[i] = IF i <= Len(s) THEN s[i] ELSE t[i - Len(s)]
  BY ConcatProperties
<1>2. ASSUME NEW i \in 1 .. Len(t) PROVE (s \o t)[Len(s) + i] = t[i]
  <2>1. /\ Len(s) + i \in 1 .. Len(s) + Len(t)
        /\ ~(Len(s) + i <= Len(s)) /\ (Len(s) + i) - Len(s) = i
    OBVIOUS
  <2> QED BY <1>1, <2>1
<1>3. ASSUME NEW i \in 1 .. Len(s) PROVE (s \o t)[i] = s[i]
  BY <1>1
<1> QED BY <1>1, <1>2, <1>3

LEMMA Led ==
    ASSUME NEW S, NEW x \in S, NEW t \in Seq(S)
    PROVE  /\ <<x>> \o t \in Seq(S)
           /\ Len(<<x>> \o t) = Len(t) + 1
           /\ (<<x>> \o t)[1] = x
           /\ \A i \in 1 .. Len(t) : (<<x>> \o t)[i + 1] = t[i]
OBVIOUS

LEMMA Cut ==
    ASSUME NEW S, NEW s \in Seq(S), NEW m \in 1 .. Len(s) + 1, NEW n \in m - 1 .. Len(s)
    PROVE  /\ SubSeq(s, m, n) \in Seq(S)
           /\ Len(SubSeq(s, m, n)) = n - m + 1
           /\ \A i \in 1 .. n - m + 1 : SubSeq(s, m, n)[i] = s[m + i - 1]
<1>1. \A i \in m .. n : s[i] \in S
  OBVIOUS
<1>2. /\ SubSeq(s, m, n) \in Seq(S)
      /\ Len(SubSeq(s, m, n)) = IF m <= n THEN n - m + 1 ELSE 0
      /\ \A i \in 1 .. n - m + 1 : SubSeq(s, m, n)[i] = s[m + i - 1]
  BY <1>1, SubSeqProperties
<1> QED BY <1>2

\* Least elements.
LEMMA MinIs ==
    ASSUME NEW P, NEW x \in P, P \subseteq Int, \A y \in P : x <= y
    PROVE  Min(P) = x
<1>1. Min(P) \in P /\ \A y \in P : Min(P) <= y
  BY Zenon DEF Min
<1> DEFINE m == Min(P)
<1>2. m \in Int /\ x \in Int /\ m <= x /\ x <= m
  <2> HIDE DEF m
  <2> QED BY <1>1 DEF m
<1> HIDE DEF m
<1>3. m = x
  BY <1>2
<1> QED BY <1>3 DEF m

-----------------------------------------------------------------------------
(* The tables of names. *)

\* A table of names beside the enumerators they spell gives back the text it is asked.
LEMMA NamesFound ==
    ASSUME NEW s, NEW names, DOMAIN names \subseteq Nat, "" \notin Range(names)
    PROVE  /\ Positions(s, names) # {} <=> s.text \in Range(names)
           /\ Enumerators(s, names, names) = IF s.text \in Range(names) THEN {s.text} ELSE {}
<1> DEFINE P == Positions(s, names)
<1>1. s.text \in Range(names) <=> P # {}
  BY DEF Positions, StrEqualsUpper, Range
<1>2. P \in SUBSET Nat
  BY DEF Positions
<1>3. ASSUME P # {} PROVE names[Min(P)] = s.text
  <2>1. Min(P) \in P
    <3> HIDE DEF P
    <3> QED BY <1>2, <1>3, LeastPosition
  <2> QED BY <2>1 DEF Positions, StrEqualsUpper
<1> QED BY <1>1, <1>3 DEF Enumerators

\* The enumerators, by kind.
LEMMA Tables ==
    /\ RegionalNames = RegionalEnum
    /\ PlatformNames = PlatformEnum
    /\ ValPlatformNames = ValPlatformEnum
    /\ DOMAIN RegionalEnum \subseteq Nat
    /\ DOMAIN PlatformEnum \subseteq Nat
    /\ DOMAIN ValPlatformEnum \subseteq Nat
    /\ Range(RegionalEnum) = {"AMERICAS", "ASIA", "EUROPE", "SEA"}
    /\ Range(PlatformEnum) = {"BR1", "EUN1", "EUW1", "JP1", "KR", "LA1", "LA2", "NA1",
                              "OC1", "TR1", "RU", "PH2", "SG2", "TH2", "TW2", "VN2"}
    /\ Range(ValPlatformEnum) = {"AP", "BR", "EU", "KR", "LATAM", "NA", "ESPORTS"}
    /\ DOMAIN PlatformAliases = {"KR1", "RU1", "OCE"}
    /\ PlatformAliases["KR1"] = "KR"
    /\ PlatformAliases["RU1"] = "RU"
    /\ PlatformAliases["OCE"] = "OC1"
<1>1. /\ RegionalNames = RegionalEnum
      /\ DOMAIN RegionalEnum \subseteq Nat
      /\ Range(RegionalEnum) = {"AMERICAS", "ASIA", "EUROPE", "SEA"}
  BY DEF RegionalNames, RegionalEnum, Range
<1>2. /\ PlatformNames = PlatformEnum
      /\ DOMAIN PlatformEnum \subseteq Nat
      /\ Range(PlatformEnum) = {"BR1", "EUN1", "EUW1", "JP1", "KR", "LA1", "LA2", "NA1",
                                "OC1", "TR1", "RU", "PH2", "SG2", "TH2", "TW2", "VN2"}
  BY DEF PlatformNames, PlatformEnum, Range
<1>3. /\ ValPlatformNames = ValPlatformEnum
      /\ DOMAIN ValPlatformEnum \subseteq Nat
      /\ Range(ValPlatformEnum) = {"AP", "BR", "EU", "KR", "LATAM", "NA", "ESPORTS"}
  BY DEF ValPlatformNames, ValPlatformEnum, Range
<1>4. /\ DOMAIN PlatformAliases = {"KR1", "RU1", "OCE"}
      /\ PlatformAliases["KR1"] = "KR"
      /\ PlatformAliases["RU1"] = "RU"
      /\ PlatformAliases["OCE"] = "OC1"
  BY DEF PlatformAliases
<1> QED BY <1>1, <1>2, <1>3, <1>4

LEMMA RegionalFound ==
    ASSUME NEW s
    PROVE  StrToRegional(s) = IF s.text \in Range(RegionalEnum) THEN {s.text} ELSE {}
<1>1. "" \notin Range(RegionalEnum)
  BY Tables
<1> QED BY <1>1, Tables, NamesFound DEF StrToRegional

LEMMA ValPlatformFound ==
    ASSUME NEW s
    PROVE  StrToValPlatform(s) = IF s.text \in Range(ValPlatformEnum) THEN {s.text} ELSE {}
<1>1. "" \notin Range(ValPlatformEnum)
  BY Tables
<1> QED BY <1>1, Tables, NamesFound DEF StrToValPlatform

LEMMA PlatformFound ==
    ASSUME NEW s
    PROVE  StrToPlatform(s) =
             IF s.text \in Range(PlatformEnum) THEN {s.text}
             ELSE IF s.text \in DOMAIN PlatformAliases THEN {PlatformAliases[s.text]} ELSE {}
<1>1. "" \notin Range(PlatformEnum) /\ "" \notin DOMAIN PlatformAliases
  BY Tables
<1>2. /\ Positions(s, PlatformNames) # {} <=> s.text \in Range(PlatformEnum)
      /\ Enumerators(s, PlatformNames, PlatformEnum) =
           IF s.text \in Range(PlatformEnum) THEN {s.text} ELSE {}
  BY <1>1, Tables, NamesFound
<1>3. {a \in DOMAIN PlatformAliases : StrEqualsUpper(s, a)} =
        IF s.text \in DOMAIN PlatformAliases THEN {s.text} ELSE {}
  BY <1>1 DEF StrEqualsUpper
<1> QED BY <1>2, <1>3 DEF StrToPlatform
-----------------------------------------------------------------------------
(* The routes. *)

Route(indicator, value) == [indicator |-> indicator, value |-> value]

LEMMA RegionalParsed ==
    ASSUME NEW s
    PROVE  Parsed(s, REGIONAL) =
             IF s.text \in Range(RegionalEnum) THEN {Route(REGIONAL, s.text)} ELSE {}
BY RegionalFound DEF Parsed, REGIONAL, PLATFORM, VAL_PLATFORM, Route

LEMMA ValPlatformParsed ==
    ASSUME NEW s
    PROVE  Parsed(s, VAL_PLATFORM) =
             IF s.text \in Range(ValPlatformEnum) THEN {Route(VAL_PLATFORM, s.text)} ELSE {}
BY ValPlatformFound DEF Parsed, REGIONAL, PLATFORM, VAL_PLATFORM, Route

LEMMA PlatformParsed ==
    ASSUME NEW s
    PROVE  Parsed(s, PLATFORM) =
             IF s.text \in Range(PlatformEnum) THEN {Route(PLATFORM, s.text)}
             ELSE IF s.text \in DOMAIN PlatformAliases
                  THEN {Route(PLATFORM, PlatformAliases[s.text])} ELSE {}
BY PlatformFound DEF Parsed, REGIONAL, PLATFORM, VAL_PLATFORM, Route

\* What is parsed is of the kind asked for, and all shards of the kind can be.
LEMMA OwnKindParsed ==
    ASSUME NEW s, NEW k \in Kinds
    PROVE  /\ \A r \in Parsed(s, k) : r.indicator = k
           /\ Parsed(s, k) # {} <=> s.text \in TextsOf(k)
<1>1. ASSUME k = REGIONAL PROVE Parsed(s, k) # {} <=> s.text \in TextsOf(k)
  BY <1>1, RegionalParsed DEF TextsOf, REGIONAL, PLATFORM, VAL_PLATFORM
<1>2. ASSUME k = PLATFORM PROVE Parsed(s, k) # {} <=> s.text \in TextsOf(k)
  BY <1>2, PlatformParsed DEF TextsOf, REGIONAL, PLATFORM, VAL_PLATFORM
<1>3. ASSUME k = VAL_PLATFORM PROVE Parsed(s, k) # {} <=> s.text \in TextsOf(k)
  BY <1>3, ValPlatformParsed DEF TextsOf, REGIONAL, PLATFORM, VAL_PLATFORM
<1>4. \A r \in Parsed(s, k) : r.indicator = k
  BY DEF Parsed
<1> QED BY <1>1, <1>2, <1>3, <1>4 DEF Kinds

\* The name of a route's host spells the route.
LEMMA HostParsed ==
    ASSUME NEW s, NEW k \in Kinds, NEW r \in Parsed(s, k)
    PROVE  Parsed(RoutingToHostStr(r), k) = {r}
<1> DEFINE host == RoutingToHostStr(r)
<1>1. host.text = r.value
  BY DEF RoutingToHostStr
<1>2. CASE k = REGIONAL
  <2>1. r = Route(REGIONAL, r.value) /\ r.value \in Range(RegionalEnum)
    BY <1>2, RegionalParsed DEF Route
  <2> QED BY <1>1, <1>2, <2>1, RegionalParsed
<1>3. CASE k = PLATFORM
  <2>1. \A a \in DOMAIN PlatformAliases : PlatformAliases[a] \in Range(PlatformEnum)
    BY Tables
  <2>2. r = Route(PLATFORM, r.value) /\ r.value \in Range(PlatformEnum)
    BY <1>3, <2>1, PlatformParsed DEF Route
  <2> QED BY <1>1, <1>3, <2>2, PlatformParsed
<1>4. CASE k = VAL_PLATFORM
  <2>1. r = Route(VAL_PLATFORM, r.value) /\ r.value \in Range(ValPlatformEnum)
    BY <1>4, ValPlatformParsed DEF Route
  <2> QED BY <1>1, <1>4, <2>1, ValPlatformParsed
<1> QED BY <1>2, <1>3, <1>4 DEF Kinds

\* No name is of two kinds but KR.
LEMMA OneKindParsed ==
    ASSUME NEW s, NEW t, s.text = t.text, NEW k \in Kinds, NEW r \in Parsed(t, k),
           r # Route(VAL_PLATFORM, "KR")
    PROVE  StrToRouting(s) = {r}
<1>1. CASE k = PLATFORM
  <2>1. Parsed(s, PLATFORM) = {r}
    BY <1>1, PlatformParsed
  <2> QED BY <2>1 DEF StrToRouting
<1>2. CASE k = REGIONAL
  <2>1. Parsed(s, REGIONAL) = {r} /\ s.text \in Range(RegionalEnum)
    BY <1>2, RegionalParsed
  <2>2. s.text \notin Range(PlatformEnum) /\ s.text \notin DOMAIN PlatformAliases
    BY <2>1, Tables
  <2> QED BY <2>1, <2>2, PlatformParsed DEF StrToRouting
<1>3. CASE k = VAL_PLATFORM
  <2>1. /\ Parsed(s, VAL_PLATFORM) = {r}
        /\ s.text \in Range(ValPlatformEnum) /\ s.text # "KR"
    BY <1>3, ValPlatformParsed
  <2>2. /\ s.text \notin Range(PlatformEnum) /\ s.text \notin DOMAIN PlatformAliases
        /\ s.text \notin Range(RegionalEnum)
    BY <2>1, Tables
  <2> QED BY <2>1, <2>2, PlatformParsed, RegionalParsed DEF StrToRouting
<1> QED BY <1>1, <1>2, <1>3 DEF Kinds
-----------------------------------------------------------------------------
(* Queries. *)

Separator == {Token("?"), Token("&")}

\* One more parameter leaves those before it as they are.
LEMMA OneMoreParameter ==
    ASSUME NEW Tokens, Separator \subseteq Tokens, NEW q \in Seq(Tokens),
           NEW sep \in Separator, NEW body \in Seq(Tokens),
           \A i \in DOMAIN body : body[i] \notin Separator,
           IsFiniteSet(Separators(q))
    PROVE  LET r == q \o (<<sep>> \o body)
           IN  /\ Separators(r) = Separators(q) \cup {Len(q) + 1}
               /\ IsFiniteSet(Separators(r))
               /\ Cardinality(Separators(r)) = Cardinality(Separators(q)) + 1
               /\ Nth(Len(q) + 1, r) = Cardinality(Separators(q)) + 1
               /\ ParameterBehind(Len(q) + 1, r) = body
               /\ \A i \in Separators(q) :
                     Nth(i, r) = Nth(i, q) /\ ParameterBehind(i, r) = ParameterBehind(i, q)
<1> DEFINE seg == <<sep>> \o body
           r == q \o seg
<1>1. /\ seg \in Seq(Tokens) /\ Len(seg) = Len(body) + 1
      /\ seg[1] = sep /\ \A i \in 1 .. Len(body) : seg[i + 1] = body[i]
  BY Led
<1>2. /\ r \in Seq(Tokens) /\ Len(r) = Len(q) + Len(body) + 1
      /\ \A i \in 1 .. Len(q) : r[i] = q[i]
      /\ r[Len(q) + 1] = sep
      /\ \A i \in 1 .. Len(body) : r[Len(q) + 1 + i] = body[i]
  <2> HIDE DEF seg, r
  <2>1. /\ r \in Seq(Tokens) /\ Len(r) = Len(q) + Len(seg)
        /\ \A i \in 1 .. Len(q) : r[i] = q[i]
        /\ \A i \in 1 .. Len(seg) : r[Len(q) + i] = seg[i]
    <3>1. r = q \o seg
      BY DEF r
    <3> HIDE DEF r
    <3>2. seg \in Seq(Tokens)
      BY <1>1
    <3>3. /\ q \o seg \in Seq(Tokens) /\ Len(q \o seg) = Len(q) + Len(seg)
          /\ \A i \in 1 .. Len(q) : (q \o seg)[i] = q[i]
          /\ \A i \in 1 .. Len(seg) : (q \o seg)[Len(q) + i] = seg[i]
      BY <3>2, Joined
    <3> QED BY <3>1, <3>3, Zenon
  <2>2. \A i \in 1 .. Len(body) : r[Len(q) + 1 + i] = seg[i + 1]
    BY <1>1, <2>1
  <2> QED BY <1>1, <2>1, <2>2
<1> HIDE DEF r, seg
<1>3. Separators(q) \subseteq 1 .. Len(q)
  BY DEF Separators
<1>4. Separators(r) = Separators(q) \cup {Len(q) + 1}
  <2>1. ASSUME NEW i \in 1 .. Len(r)
        PROVE  r[i] \in Separator <=> i \in Separators(q) \/ i = Len(q) + 1
    <3>1. CASE i <= Len(q)
      BY <1>2, <3>1 DEF Separators, Separator
    <3>2. CASE i = Len(q) + 1
      BY <1>2, <3>2
    <3>3. CASE i > Len(q) + 1
      <4>1. i - (Len(q) + 1) \in 1 .. Len(body) /\ i = Len(q) + 1 + (i - (Len(q) + 1))
        BY <1>2, <3>3
      <4>2. r[i] = body[i - (Len(q) + 1)]
        BY <1>2, <4>1
      <4> QED BY <1>3, <3>3, <4>1, <4>2
    <3> QED BY <3>1, <3>2, <3>3
  <2>2. Separators(r) = {i \in 1 .. Len(r) : r[i] \in Separator}
    BY <1>2 DEF Separators, Separator
  <2> QED BY <1>2, <1>3, <2>1, <2>2
<1>5. Len(q) + 1 \notin Separators(q)
  BY <1>3
<1>6. IsFiniteSet(Separators(r)) /\ Cardinality(Separators(r)) = Cardinality(Separators(q)) + 1
  BY <1>4, <1>5, FS_AddElement
<1>7. Nth(Len(q) + 1, r) = Cardinality(Separators(q)) + 1
  <2>1. {j \in Separators(r) : j <= Len(q) + 1} = Separators(r)
    BY <1>3, <1>4
  <2> QED BY <1>6, <2>1 DEF Nth
<1>8. ParameterBehind(Len(q) + 1, r) = body
  <2> DEFINE P == {j \in Separators(r) : j > Len(q) + 1} \cup {Len(r) + 1}
  <2>1. P = {Len(r) + 1}
    BY <1>3, <1>4
  <2>2. Min(P) = Len(r) + 1
    <3>1. Len(r) + 1 \in P /\ P \subseteq Int /\ \A y \in P : Len(r) + 1 <= y
      BY <1>2, <2>1
    <3> HIDE DEF P
    <3> QED BY <3>1, MinIs
  <2>3. ParameterBehind(Len(q) + 1, r) = SubSeq(r, Len(q) + 2, Len(r))
    <3>1. ParameterBehind(Len(q) + 1, r) = SubSeq(r, (Len(q) + 1) + 1, Min(P) - 1)
      BY DEF ParameterBehind
    <3>2. (Len(q) + 1) + 1 = Len(q) + 2 /\ Min(P) - 1 = Len(r)
      BY <1>2, <2>2
    <3> HIDE DEF P
    <3> QED BY <3>1, <3>2
  <2>4. /\ Len(SubSeq(r, Len(q) + 2, Len(r))) = Len(body)
        /\ SubSeq(r, Len(q) + 2, Len(r)) \in Seq(Tokens)
        /\ \A i \in 1 .. Len(body) : SubSeq(r, Len(q) + 2, Len(r))[i] = body[i]
    <3> DEFINE m == Len(q) + 2
               n == Len(r)
    <3>1. m \in 1 .. Len(r) + 1 /\ n \in m - 1 .. Len(r) /\ n - m + 1 = Len(body)
      BY <1>2
    <3>2. \A i \in 1 .. Len(body) : r[m + i - 1] = body[i]
      <4>1. \A i \in 1 .. Len(body) : m + i - 1 = Len(q) + 1 + i
        OBVIOUS
      <4> QED BY <1>2, <4>1
    <3> HIDE DEF m, n
    <3>3. /\ Len(SubSeq(r, m, n)) = Len(body) /\ SubSeq(r, m, n) \in Seq(Tokens)
          /\ \A i \in 1 .. Len(body) : SubSeq(r, m, n)[i] = body[i]
      BY <1>2, <3>1, <3>2, Cut
    <3> QED BY <3>3 DEF m, n
  <2> DEFINE x == SubSeq(r, Len(q) + 2, Len(r))
  <2>5. x = body
    <3> HIDE DEF x
    <3>1. x \in Seq(Tokens) /\ Len(x) = Len(body) /\ \A i \in 1 .. Len(x) : x[i] = body[i]
      BY <2>4 DEF x
    <3> QED BY <3>1, SeqEqual
  <2> QED BY <2>3, <2>5
<1>9. ASSUME NEW i \in Separators(q)
      PROVE  Nth(i, r) = Nth(i, q) /\ ParameterBehind(i, r) = ParameterBehind(i, q)
  <2>1. {j \in Separators(r) : j <= i} = {j \in Separators(q) : j <= i}
    BY <1>3, <1>4
  <2> DEFINE P == {j \in Separators(q) : j > i} \cup {Len(q) + 1}
             R == {j \in Separators(r) : j > i} \cup {Len(r) + 1}
  <2>2. /\ P \in SUBSET Nat /\ P # {} /\ R = P \cup {Len(r) + 1} /\ Len(q) + 1 \in P
        /\ \A j \in P : j <= Len(q) + 1 /\ j > i
    BY <1>3, <1>4
  <2>3. Min(P) \in P /\ \A y \in P : Min(P) <= y
    <3> HIDE DEF P
    <3> QED BY <2>2, LeastPosition
  <2>4. Min(R) = Min(P)
    <3>0. Len(q) + 1 <= Len(r) + 1 /\ Len(r) + 1 \in Nat /\ Len(q) + 1 \in Nat
      BY <1>2
    <3>1. Min(P) \in R /\ R \subseteq Int /\ \A y \in R : Min(P) <= y
      <4>1. Min(P) \in Nat /\ Min(P) <= Len(q) + 1
        BY <2>2, <2>3
      <4>2. R \subseteq Int
        BY <2>2, <3>0
      <4>3. Min(P) \in R
        BY <2>2, <2>3
      <4>4. ASSUME NEW y \in R PROVE Min(P) <= y
        <5>1. CASE y \in P
          BY <2>3, <5>1
        <5>2. CASE y = Len(r) + 1
          BY <3>0, <4>1, <5>2
        <5> HIDE DEF P, R
        <5> QED BY <2>2, <5>1, <5>2
      <4> HIDE DEF P, R
      <4> QED BY <4>2, <4>3, <4>4
    <3> HIDE DEF P, R
    <3> QED BY <3>1, MinIs
  <2>5. Min(P) - 1 \in i .. Len(q) /\ i \in 1 .. Len(q)
    BY <1>3, <2>2, <2>3
  <2>6. SubSeq(r, i + 1, Min(P) - 1) = SubSeq(q, i + 1, Min(P) - 1)
    <3> DEFINE m == i + 1
               n == Min(P) - 1
               a == SubSeq(r, m, n)
               b == SubSeq(q, m, n)
    <3>1. /\ m \in 1 .. Len(q) + 1 /\ n \in m - 1 .. Len(q)
          /\ m \in 1 .. Len(r) + 1 /\ n \in m - 1 .. Len(r)
          /\ \A j \in 1 .. n - m + 1 : m + j - 1 \in 1 .. Len(q)
      <4> HIDE DEF P
      <4> QED BY <1>2, <2>5
    <3> HIDE DEF m, n
    <3>2. /\ a \in Seq(Tokens) /\ Len(a) = n - m + 1
          /\ \A j \in 1 .. n - m + 1 : a[j] = r[m + j - 1]
      BY <1>2, <3>1, Cut
    <3>3. /\ b \in Seq(Tokens) /\ Len(b) = n - m + 1
          /\ \A j \in 1 .. n - m + 1 : b[j] = q[m + j - 1]
      BY <3>1, Cut
    <3>4. \A j \in 1 .. n - m + 1 : a[j] = b[j]
      BY <1>2, <3>1, <3>2, <3>3
    <3> HIDE DEF a, b
    <3>5. a = b
      BY <3>2, <3>3, <3>4, SeqEqual
    <3> QED BY <3>5 DEF a, b, m, n
  <2>7. ParameterBehind(i, r) = ParameterBehind(i, q)
    BY <2>4, <2>6 DEF ParameterBehind
  <2> QED BY <2>1, <2>7 DEF Nth
<1> QED BY <1>4, <1>6, <1>7, <1>8, <1>9 DEF r, seg

\* What stands for a reserved character is not reserved.
LEMMA PercentIs ==
    /\ DOMAIN Percent = {"/", "?", "&", "=", "%"}
    /\ \A w \in DOMAIN Percent : Percent[w] \in {"%2F", "%3F", "%26", "%3D", "%25"}
BY DEF Percent

\* The token of a text that is not empty.
Encoded(text) ==
    [i \in DOMAIN text |-> IF text[i] \in DOMAIN Percent THEN Percent[text[i]] ELSE text[i]]

\* The token of a text is none that separates.
LEMMA EncodedIsPlain ==
    ASSUME NEW text, NEW w \in DOMAIN Percent
    PROVE  Encoded(text) # Token(w)
<1> SUFFICES ASSUME Encoded(text) = Token(w) PROVE FALSE
  OBVIOUS
<1>1. Encoded(text)[1] = w /\ 1 \in DOMAIN text
  <2>1. Token(w)[1] = w /\ DOMAIN Token(w) = {1}
    BY DEF Token
  <2> QED BY <2>1 DEF Encoded
<1>2. text[1] \in DOMAIN Percent => Percent[text[1]] \notin DOMAIN Percent
  BY PercentIs
<1> QED BY <1>1, <1>2 DEF Encoded

\* Texts bring no reserved token into the URL.
LEMMA UrlEncoded ==
    ASSUME NEW text, NEW T, Encoded(text) \in T
    PROVE  /\ UrlEncode(text) \in Seq(T)
           /\ \A i \in DOMAIN UrlEncode(text) :
                 \A w \in DOMAIN Percent : UrlEncode(text)[i] # Token(w)
<1>1. CASE text = <<>>
  BY <1>1 DEF UrlEncode
<1>2. CASE text # <<>>
  <2>1. UrlEncode(text) = <<Encoded(text)>>
    BY <1>2 DEF UrlEncode, Encoded
  <2> QED BY <2>1, EncodedIsPlain
<1> QED BY <1>1, <1>2

LEMMA SeparatorsReserved ==
    /\ Separator = {Token("?"), Token("&")}
    /\ "?" \in DOMAIN Percent /\ "&" \in DOMAIN Percent /\ "/" \in DOMAIN Percent
BY PercentIs DEF Separator

\* Between the separators of a query there are none.
LEMMA KeyAndValueIsPlain ==
    ASSUME NEW o, NEW T, Token(o.key) \in T, Token("=") \in T, Encoded(o.value) \in T,
           o.key \notin {"?", "&"}
    PROVE  /\ KeyAndValue(o) \in Seq(T)
           /\ \A i \in DOMAIN KeyAndValue(o) : KeyAndValue(o)[i] \notin Separator
<1> DEFINE h == <<Token(o.key), Token("=")>>
           t == UrlEncode(o.value)
<1>1. h \in Seq(T) /\ Len(h) = 2 /\ h[1] = Token(o.key) /\ h[2] = Token("=")
  OBVIOUS
<1>2. t \in Seq(T) /\ \A i \in 1 .. Len(t) : t[i] \notin Separator
  <2>1. t \in Seq(T) /\ DOMAIN t = 1 .. Len(t)
    BY UrlEncoded
  <2> QED BY <2>1, UrlEncoded, SeparatorsReserved
<1>3. h[1] \notin Separator /\ h[2] \notin Separator
  BY <1>1 DEF Separator, Token
<1> HIDE DEF h, t
<1>4. /\ h \o t \in Seq(T)
      /\ Len(h \o t) = Len(h) + Len(t)
      /\ \A i \in 1 .. Len(h) : (h \o t)[i] = h[i]
      /\ \A i \in 1 .. Len(t) : (h \o t)[Len(h) + i] = t[i]
  BY <1>1, <1>2, Joined
<1>5. ASSUME NEW i \in 1 .. Len(h) + Len(t) PROVE (h \o t)[i] \notin Separator
  <2>1. CASE i \in 1 .. Len(h)
    BY <1>1, <1>3, <1>4, <2>1
  <2>2. CASE i \notin 1 .. Len(h)
    <3>1. i - Len(h) \in 1 .. Len(t) /\ Len(h) + (i - Len(h)) = i
      BY <1>1, <1>2, <2>2
    <3> QED BY <1>2, <1>4, <3>1
  <2> QED BY <2>1, <2>2
<1>6. KeyAndValue(o) = h \o t
  BY DEF KeyAndValue, h, t
<1>7. DOMAIN (h \o t) = 1 .. Len(h) + Len(t)
  BY <1>4
<1> QED BY <1>4, <1>5, <1>6, <1>7

\* What QueryReadBack asks of a query.
ReadsAs(q, given) ==
    /\ {i \in DOMAIN q : q[i] = Token("?")} = IF Len(given) = 0 THEN {} ELSE {1}
    /\ Cardinality(Separators(q)) = Len(given)
    /\ \A i \in Separators(q) :
          Nth(i, q) \in 1 .. Len(given) /\ ParameterBehind(i, q) = KeyAndValue(given[Nth(i, q)])

\* A query comes apart at its separators into the parameters it was made from: after n
\* parameters the separators are n, and what is behind each is the parameter put there.
LEMMA QueryReads ==
    ASSUME NEW opts, NEW K, Kept(opts) \in Seq(K),
           \A i \in DOMAIN Kept(opts) : Kept(opts)[i].key \notin {"?", "&"}
    PROVE  ReadsAs(Query(opts), Kept(opts))
<1> DEFINE k == Kept(opts)
           T == {Token("?"), Token("&"), Token("=")}
                  \cup {Token(k[i].key) : i \in 1 .. Len(k)}
                  \cup {Encoded(k[i].value) : i \in 1 .. Len(k)}
           sep(i) == Token(IF i = 1 THEN "?" ELSE "&")
           ss == [i \in 1 .. Len(k) |-> <<sep(i)>> \o KeyAndValue(k[i])]
<1>1. DOMAIN k = 1 .. Len(k) /\ Len(k) \in Nat
  OBVIOUS
<1>2. Separator \subseteq T /\ \A i \in 1 .. Len(k) : sep(i) \in Separator
  BY DEF Separator
<1>3. ASSUME NEW i \in 1 .. Len(k)
      PROVE  /\ KeyAndValue(k[i]) \in Seq(T)
             /\ \A j \in DOMAIN KeyAndValue(k[i]) : KeyAndValue(k[i])[j] \notin Separator
  <2>1. Token(k[i].key) \in T /\ Token("=") \in T /\ Encoded(k[i].value) \in T
    OBVIOUS
  <2>2. k[i].key \notin {"?", "&"}
    BY <1>1
  <2> HIDE DEF T, k
  <2> QED BY <2>1, <2>2, KeyAndValueIsPlain
<1>4. ss \in Seq(Seq(T)) /\ Len(ss) = Len(k)
  <2>1. ASSUME NEW i \in 1 .. Len(k) PROVE <<sep(i)>> \o KeyAndValue(k[i]) \in Seq(T)
    <3>1. sep(i) \in T
      BY <1>2
    <3> HIDE DEF sep, T, k
    <3>2. <<sep(i)>> \in Seq(T)
      BY <3>1
    <3> QED BY <1>3, <3>2, Joined
  <2> HIDE DEF T, k, sep
  <2> QED BY <1>1, <2>1
<1>5. Query(opts) = FlattenSeq(ss)
  BY <1>1 DEF Query
<1>6. PICK f \in [0 .. Len(k) -> Seq(T)] :
         /\ f[0] = <<>>
         /\ \A i \in 1 .. Len(k) : f[i] = f[i - 1] \o ss[i]
         /\ FlattenSeq(ss) = f[Len(k)]
  <2> HIDE DEF ss, T, k
  <2>1. ss \in Seq(Seq(T))
    BY <1>4
  <2>2. \E f \in [0 .. Len(ss) -> Seq(T)] :
          /\ f[0] = <<>>
          /\ \A i \in 1 .. Len(ss) : f[i] = f[i - 1] \o ss[i]
          /\ FlattenSeq(ss) = f[Len(ss)]
    BY <2>1, FlattenSteps
  <2> QED BY <1>4, <2>2
<1> DEFINE Reads(n) ==
             /\ {i \in DOMAIN f[n] : f[n][i] = Token("?")} = IF n = 0 THEN {} ELSE {1}
             /\ IsFiniteSet(Separators(f[n]))
             /\ Cardinality(Separators(f[n])) = n
             /\ \A i \in Separators(f[n]) :
                   /\ Nth(i, f[n]) \in 1 .. n
                   /\ ParameterBehind(i, f[n]) = KeyAndValue(k[Nth(i, f[n])])
           G == {n \in Nat : n <= Len(k) => Reads(n)}
<1>7. 0 \in G
  <2>1. DOMAIN f[0] = {}
    BY <1>6
  <2>2. Separators(f[0]) = {}
    BY <2>1 DEF Separators
  <2> QED BY <2>1, <2>2, FS_EmptySet
<1>8. ASSUME NEW n \in Nat, n \in G PROVE n + 1 \in G
  <2>1. SUFFICES ASSUME n + 1 <= Len(k) PROVE Reads(n + 1)
    OBVIOUS
  <2> DEFINE q == f[n]
             body == KeyAndValue(k[n + 1])
             r == q \o (<<sep(n + 1)>> \o body)
  <2>2. n + 1 \in 1 .. Len(k) /\ n \in 0 .. Len(k) /\ (n + 1) - 1 = n
    BY <1>1, <2>1
  <2>3. f[n + 1] = r
    <3> HIDE DEF k, sep
    <3> QED BY <1>6, <2>2
  <2>4. /\ q \in Seq(T) /\ body \in Seq(T) /\ sep(n + 1) \in Separator
        /\ \A i \in DOMAIN body : body[i] \notin Separator
    <3> HIDE DEF T, k, sep
    <3> QED BY <1>2, <1>3, <1>6, <2>2
  <2>5. Reads(n)
    BY <1>8, <2>2
  <2>6. /\ Separators(r) = Separators(q) \cup {Len(q) + 1}
        /\ IsFiniteSet(Separators(r))
        /\ Cardinality(Separators(r)) = Cardinality(Separators(q)) + 1
        /\ Nth(Len(q) + 1, r) = Cardinality(Separators(q)) + 1
        /\ ParameterBehind(Len(q) + 1, r) = body
        /\ \A i \in Separators(q) :
              Nth(i, r) = Nth(i, q) /\ ParameterBehind(i, r) = ParameterBehind(i, q)
    <3> HIDE DEF T, k, sep, q, body
    <3>1. IsFiniteSet(Separators(q))
      BY <2>5 DEF q
    <3> QED BY <1>2, <2>4, <3>1, OneMoreParameter
  <2>7. {i \in DOMAIN r : r[i] = Token("?")} = {1}
    <3> DEFINE seg == <<sep(n + 1)>> \o body
    <3>1. seg \in Seq(T) /\ Len(seg) >= 1 /\ seg[1] = sep(n + 1)
      <4>1. sep(n + 1) \in T /\ body \in Seq(T)
        BY <1>2, <2>4
      <4> HIDE DEF T, sep, body
      <4>2. /\ <<sep(n + 1)>> \o body \in Seq(T)
            /\ Len(<<sep(n + 1)>> \o body) = Len(body) + 1
            /\ (<<sep(n + 1)>> \o body)[1] = sep(n + 1)
        BY <4>1, Led
      <4> QED BY <4>1, <4>2
    <3>2. /\ r \in Seq(T) /\ DOMAIN r = 1 .. Len(r) /\ Len(r) >= Len(q) + 1
          /\ \A i \in 1 .. Len(q) : r[i] = q[i]
          /\ r[Len(q) + 1] = sep(n + 1)
      <4>1. r = q \o seg
        OBVIOUS
      <4> HIDE DEF r, seg, q, sep, T
      <4>2. /\ q \o seg \in Seq(T) /\ Len(q \o seg) = Len(q) + Len(seg)
            /\ \A i \in 1 .. Len(q) : (q \o seg)[i] = q[i]
            /\ \A i \in 1 .. Len(seg) : (q \o seg)[Len(q) + i] = seg[i]
        BY <2>4, <3>1, Joined
      <4> QED BY <2>4, <3>1, <4>1, <4>2
    <3>3. Token("?") # Token("&") /\ Separator = {Token("?"), Token("&")}
      BY DEF Token, Separator
    <3>4. {i \in DOMAIN q : q[i] = Token("?")} = IF n = 0 THEN {} ELSE {1}
      BY <2>5
    <3>5. /\ Separators(q) = {i \in DOMAIN q : q[i] \in Separator}
          /\ Separators(r) = {i \in DOMAIN r : r[i] \in Separator}
      BY DEF Separators, Separator
    <3>6. DOMAIN q = 1 .. Len(q) /\ Len(q) \in Nat /\ Separators(q) \subseteq 1 .. Len(q)
      <4> HIDE DEF q, T
      <4> QED BY <2>4 DEF Separators
    <3>7. n = 0 => Len(q) = 0
      BY <1>6
    <3> HIDE DEF r, q, T, sep
    <3>8. ASSUME NEW i \in 1 .. Len(r) PROVE r[i] = Token("?") <=> i = 1
      <4>1. CASE i <= Len(q)
        BY <3>2, <3>4, <3>6, <3>7, <4>1
      <4>2. CASE i = Len(q) + 1 /\ n = 0
        BY <3>2, <3>7, <4>2 DEF sep
      <4>3. CASE i = Len(q) + 1 /\ n # 0
        <5>1. 1 \in 1 .. Len(q)
          BY <3>4, <3>6, <4>3
        <5>2. sep(n + 1) = Token("&")
          BY <4>3 DEF sep
        <5> QED BY <3>2, <3>3, <3>6, <4>3, <5>1, <5>2
      <4>4. CASE i > Len(q) + 1
        <5>1. i \notin Separators(r) /\ i # 1
          BY <2>6, <3>6, <4>4 DEF q
        <5> QED BY <3>2, <3>3, <3>5, <5>1
      <4> QED BY <3>6, <4>1, <4>2, <4>3, <4>4
    <3>9. 1 \in 1 .. Len(r)
      BY <3>2, <3>6
    <3> QED BY <3>2, <3>8, <3>9
  <2>8. /\ IsFiniteSet(Separators(r)) /\ Cardinality(Separators(r)) = n + 1
        /\ \A i \in Separators(r) :
              /\ Nth(i, r) \in 1 .. n + 1
              /\ ParameterBehind(i, r) = KeyAndValue(k[Nth(i, r)])
    <3> HIDE DEF k, r
    <3> QED BY <2>5, <2>6
  <2> HIDE DEF r, k
  <2> QED BY <2>3, <2>7, <2>8
<1>9. \A n \in Nat : n \in G
  <2> HIDE DEF G
  <2> QED BY <1>7, <1>8, CountingUp
<1>10. Reads(Len(k))
  <2>1. Len(k) \in G
    BY <1>1, <1>9
  <2> HIDE DEF Reads, k
  <2> QED BY <1>1, <2>1
<1> HIDE DEF ss, T, k
<1> QED BY <1>5, <1>6, <1>10 DEF ReadsAs, k

\* Passing over parameters leaves parameters.
LEMMA KeptIs ==
    ASSUME NEW K, NEW opts \in Seq(K)
    PROVE  Kept(opts) \in Seq(K)
<1> DEFINE ss == [i \in DOMAIN opts |-> IF opts[i].key = "" THEN <<>> ELSE <<opts[i]>>]
<1>1. DOMAIN opts = 1 .. Len(opts) /\ Len(opts) \in Nat
  OBVIOUS
<1>2. ASSUME NEW i \in DOMAIN opts PROVE ss[i] \in Seq(K)
  <2> DEFINE o == opts[i]
  <2>1. o \in K
    OBVIOUS
  <2>2. ss[i] = IF o.key = "" THEN <<>> ELSE <<o>>
    OBVIOUS
  <2> HIDE DEF ss, o
  <2>3. <<>> \in Seq(K) /\ <<o>> \in Seq(K)
    BY <2>1
  <2> QED BY <2>2, <2>3
<1>3. ss \in Seq(Seq(K))
  <2> DEFINE S == Seq(K)
             r(i) == IF opts[i].key = "" THEN <<>> ELSE <<opts[i]>>
  <2>1. \A i \in 1 .. Len(opts) : r(i) \in S
    BY <1>1, <1>2
  <2>2. ss = [i \in 1 .. Len(opts) |-> r(i)]
    BY <1>1
  <2> HIDE DEF S, r, ss
  <2>3. ss \in Seq(S)
    BY <1>1, <2>1, <2>2
  <2> QED BY <2>3 DEF S
<1> HIDE DEF ss
<1>4. FlattenSeq(ss) \in Seq(K)
  <2>1. PICK f \in [0 .. Len(ss) -> Seq(K)] : FlattenSeq(ss) = f[Len(ss)]
    BY <1>3, FlattenSteps
  <2>2. Len(ss) \in Nat
    BY <1>3, LenProperties
  <2>3. Len(ss) \in 0 .. Len(ss)
    BY <2>2
  <2> QED BY <2>1, <2>3
<1> QED BY <1>4 DEF Kept, ss

-----------------------------------------------------------------------------
(* Paths. *)

\* What may stand between two slashes.
Plain(T) == {x \in Seq(T) : \A j \in DOMAIN x : x[j] # Slash}

\* The path r is a and one more field.
Extends(r, a, x) == r = a \o (<<Slash>> \o x)

\* A path ends with the field behind its last slash.
LEMMA LastField ==
    ASSUME NEW T, Slash \in T, NEW a \in Seq(T), NEW b \in Seq(T),
           NEW x \in Plain(T), NEW y \in Plain(T),
           NEW r, Extends(r, a, x), Extends(r, b, y)
    PROVE  a = b /\ x = y
<1> DEFINE p == <<Slash>> \o x
           q == <<Slash>> \o y
<1>0. /\ x \in Seq(T) /\ y \in Seq(T)
      /\ \A j \in 1 .. Len(x) : x[j] # Slash
      /\ \A j \in 1 .. Len(y) : y[j] # Slash
  BY DEF Plain
<1>1. /\ p \in Seq(T) /\ Len(p) = Len(x) + 1 /\ p[1] = Slash
      /\ \A i \in 1 .. Len(x) : p[i + 1] = x[i]
  BY <1>0, Led
<1>2. /\ q \in Seq(T) /\ Len(q) = Len(y) + 1 /\ q[1] = Slash
      /\ \A i \in 1 .. Len(y) : q[i + 1] = y[i]
  BY <1>0, Led
<1> HIDE DEF p, q
<1>3. /\ a \o p \in Seq(T) /\ Len(a \o p) = Len(a) + Len(p)
      /\ \A i \in 1 .. Len(a) : (a \o p)[i] = a[i]
      /\ \A i \in 1 .. Len(p) : (a \o p)[Len(a) + i] = p[i]
  <2>1. p \in Seq(T)
    BY <1>1
  <2> QED BY <2>1, Joined
<1>4. /\ b \o q \in Seq(T) /\ Len(b \o q) = Len(b) + Len(q)
      /\ \A i \in 1 .. Len(b) : (b \o q)[i] = b[i]
      /\ \A i \in 1 .. Len(q) : (b \o q)[Len(b) + i] = q[i]
  <2>1. q \in Seq(T)
    BY <1>2
  <2> QED BY <2>1, Joined
<1>5. r = b \o q /\ r = a \o p
  BY DEF p, q, Extends
<1>6. /\ Len(a) \in Nat /\ Len(b) \in Nat /\ Len(x) \in Nat /\ Len(y) \in Nat
      /\ Len(a) + Len(x) = Len(b) + Len(y)
  <2>1. Len(a) \in Nat /\ Len(b) \in Nat /\ Len(x) \in Nat /\ Len(y) \in Nat
    BY <1>0
  <2>2. Len(r) = Len(a) + Len(p) /\ Len(r) = Len(b) + Len(q)
    BY <1>3, <1>4, <1>5
  <2>3. Len(p) = Len(x) + 1 /\ Len(q) = Len(y) + 1
    BY <1>1, <1>2
  <2> QED BY <2>1, <2>2, <2>3
<1>7. /\ \A i \in 1 .. Len(a) : r[i] = a[i]
      /\ r[Len(a) + 1] = Slash
      /\ \A i \in 1 .. Len(x) : r[Len(a) + (i + 1)] = x[i]
  <2>1. 1 \in 1 .. Len(p) /\ \A i \in 1 .. Len(x) : i + 1 \in 1 .. Len(p)
    BY <1>1, <1>6
  <2>2. \A i \in 1 .. Len(p) : r[Len(a) + i] = p[i]
    BY <1>3, <1>5
  <2>3. \A i \in 1 .. Len(a) : r[i] = a[i]
    BY <1>3, <1>5
  <2> QED BY <1>1, <2>1, <2>2, <2>3
<1>8. /\ \A i \in 1 .. Len(b) : r[i] = b[i]
      /\ r[Len(b) + 1] = Slash
      /\ \A i \in 1 .. Len(y) : r[Len(b) + (i + 1)] = y[i]
  <2>1. 1 \in 1 .. Len(q) /\ \A i \in 1 .. Len(y) : i + 1 \in 1 .. Len(q)
    BY <1>2, <1>6
  <2>2. \A i \in 1 .. Len(q) : r[Len(b) + i] = q[i]
    BY <1>4, <1>5
  <2>3. \A i \in 1 .. Len(b) : r[i] = b[i]
    BY <1>4, <1>5
  <2> QED BY <1>2, <2>1, <2>2, <2>3
<1>9. Len(a) = Len(b)
  <2>1. ASSUME Len(a) < Len(b) PROVE FALSE
    <3> DEFINE i == Len(b) - Len(a)
    <3>1. i \in 1 .. Len(x) /\ Len(a) + (i + 1) = Len(b) + 1
      BY <1>6, <2>1
    <3>2. r[Len(a) + (i + 1)] = x[i]
      BY <1>7, <3>1
    <3> QED BY <1>0, <1>8, <3>1, <3>2
  <2>2. ASSUME Len(b) < Len(a) PROVE FALSE
    <3> DEFINE i == Len(a) - Len(b)
    <3>1. i \in 1 .. Len(y) /\ Len(b) + (i + 1) = Len(a) + 1
      BY <1>6, <2>2
    <3>2. r[Len(b) + (i + 1)] = y[i]
      BY <1>8, <3>1
    <3> QED BY <1>0, <1>7, <3>1, <3>2
  <2> QED BY <1>6, <2>1, <2>2
<1>10. a = b
  <2>1. \A i \in 1 .. Len(a) : a[i] = b[i]
    BY <1>7, <1>8, <1>9
  <2> QED BY <1>9, <2>1, SeqEqual
<1>11. x = y
  <2>1. Len(x) = Len(y)
    BY <1>6, <1>9
  <2>2. \A i \in 1 .. Len(x) : x[i] = y[i]
    BY <1>7, <1>8, <1>9, <2>1
  <2> QED BY <1>0, <2>1, <2>2, SeqEqual
<1> QED BY <1>10, <1>11

\* How a path is put together.
LEMMA PathSteps ==
    ASSUME NEW T, Slash \in T, NEW F \in Seq(Plain(T))
    PROVE  \E f \in [0 .. Len(F) -> Seq(T)] :
              /\ f[0] = <<>>
              /\ \A i \in 1 .. Len(F) : f[i] = f[i - 1] \o (<<Slash>> \o F[i])
              /\ Path(F) = f[Len(F)]
<1> DEFINE ss == [i \in 1 .. Len(F) |-> <<Slash>> \o F[i]]
<1>1. DOMAIN F = 1 .. Len(F) /\ Len(F) \in Nat
  OBVIOUS
<1>2. ss \in Seq(Seq(T)) /\ Len(ss) = Len(F)
  <2>1. ASSUME NEW i \in 1 .. Len(F) PROVE <<Slash>> \o F[i] \in Seq(T)
    <3>1. F[i] \in Seq(T)
      BY <1>1 DEF Plain
    <3> QED BY <3>1, Led
  <2> QED BY <1>1, <2>1
<1>3. Path(F) = FlattenSeq(ss)
  BY <1>1 DEF Path
<1>4. \E f \in [0 .. Len(ss) -> Seq(T)] :
         /\ f[0] = <<>>
         /\ \A i \in 1 .. Len(ss) : f[i] = f[i - 1] \o ss[i]
         /\ FlattenSeq(ss) = f[Len(ss)]
  <2>1. ss \in Seq(Seq(T))
    BY <1>2
  <2> HIDE DEF ss
  <2> QED BY <2>1, FlattenSteps
<1>5. PICK f \in [0 .. Len(F) -> Seq(T)] :
         /\ f[0] = <<>>
         /\ \A i \in 1 .. Len(F) : f[i] = f[i - 1] \o ss[i]
         /\ FlattenSeq(ss) = f[Len(F)]
  <2> HIDE DEF ss
  <2> QED BY <1>2, <1>4
<1>6. \A i \in 1 .. Len(F) : f[i] = f[i - 1] \o (<<Slash>> \o F[i])
  BY <1>5
<1> QED BY <1>3, <1>5, <1>6

\* A path has one reading.
LEMMA PathNamesFields ==
    ASSUME NEW T, Slash \in T, NEW F \in Seq(Plain(T)), NEW H \in Seq(Plain(T)),
           Path(F) = Path(H)
    PROVE  F = H
<1> DEFINE m == Len(F)
           n == Len(H)
<1>1. PICK f \in [0 .. m -> Seq(T)] :
         /\ f[0] = <<>>
         /\ \A i \in 1 .. m : f[i] = f[i - 1] \o (<<Slash>> \o F[i])
         /\ Path(F) = f[m]
  BY PathSteps
<1>2. PICK h \in [0 .. n -> Seq(T)] :
         /\ h[0] = <<>>
         /\ \A i \in 1 .. n : h[i] = h[i - 1] \o (<<Slash>> \o H[i])
         /\ Path(H) = h[n]
  BY PathSteps
<1>3. m \in Nat /\ n \in Nat
  OBVIOUS
<1>4. /\ \A i \in 1 .. m : F[i] \in Plain(T)
      /\ \A i \in 1 .. n : H[i] \in Plain(T)
  OBVIOUS
<1> HIDE DEF m, n
<1> DEFINE G == {k \in Nat : k <= m /\ k <= n =>
                    /\ f[m - k] = h[n - k]
                    /\ \A j \in 0 .. k - 1 : F[m - j] = H[n - j]}
<1>5. 0 \in G
  <2>1. m - 0 = m /\ n - 0 = n /\ \A j \in 0 .. 0 - 1 : FALSE
    BY <1>3
  <2>2. f[m] = h[n]
    BY <1>1, <1>2
  <2> QED BY <2>1, <2>2
<1>6. ASSUME NEW k \in Nat, k \in G PROVE k + 1 \in G
  <2>1. SUFFICES ASSUME k + 1 <= m, k + 1 <= n
                 PROVE  /\ f[m - (k + 1)] = h[n - (k + 1)]
                        /\ \A j \in 0 .. (k + 1) - 1 : F[m - j] = H[n - j]
    OBVIOUS
  <2>2. f[m - k] = h[n - k] /\ \A j \in 0 .. k - 1 : F[m - j] = H[n - j]
    BY <1>3, <1>6, <2>1
  <2> DEFINE a == f[m - (k + 1)]
             b == h[n - (k + 1)]
  <2>3. /\ m - k \in 1 .. m /\ (m - k) - 1 = m - (k + 1) /\ m - (k + 1) \in 0 .. m
        /\ n - k \in 1 .. n /\ (n - k) - 1 = n - (k + 1) /\ n - (k + 1) \in 0 .. n
    BY <1>3, <2>1
  <2>4. f[m - k] = a \o (<<Slash>> \o F[m - k])
    BY <1>1, <2>3
  <2>5. h[n - k] = b \o (<<Slash>> \o H[n - k])
    BY <1>2, <2>3
  <2>6. a \in Seq(T) /\ b \in Seq(T) /\ F[m - k] \in Plain(T) /\ H[n - k] \in Plain(T)
    BY <1>1, <1>2, <1>4, <2>3
  <2>7. a = b /\ F[m - k] = H[n - k]
    <3> DEFINE x == F[m - k]
               y == H[n - k]
               r == f[m - k]
    <3>1. a \in Seq(T) /\ b \in Seq(T) /\ x \in Plain(T) /\ y \in Plain(T)
      BY <2>6
    <3>2. Extends(r, a, x) /\ Extends(r, b, y)
      BY <2>2, <2>4, <2>5 DEF Extends
    <3> HIDE DEF a, b, x, y, r
    <3>3. a = b /\ x = y
      BY <3>1, <3>2, LastField
    <3> QED BY <3>3 DEF x, y
  <2> HIDE DEF a, b
  <2>8. \A j \in 0 .. (k + 1) - 1 : j \in 0 .. k - 1 \/ j = k
    OBVIOUS
  <2> QED BY <2>2, <2>7, <2>8 DEF a, b
<1>7. \A k \in Nat : k \in G
  <2> HIDE DEF G
  <2> QED BY <1>5, <1>6, CountingUp
<1>8. ASSUME NEW g \in Seq(T), NEW x \in Plain(T) PROVE g \o (<<Slash>> \o x) # <<>>
  <2>1. x \in Seq(T)
    BY DEF Plain
  <2>2. <<Slash>> \o x \in Seq(T) /\ Len(<<Slash>> \o x) = Len(x) + 1
    BY <2>1, Led
  <2> DEFINE p == <<Slash>> \o x
  <2>3. p \in Seq(T) /\ Len(p) = Len(x) + 1
    BY <2>2
  <2> HIDE DEF p
  <2>4. Len(g \o p) = Len(g) + Len(p)
    BY <2>3, Joined
  <2>5. Len(g) \in Nat /\ Len(x) \in Nat /\ Len(<<>>) = 0
    BY <2>1
  <2>6. g \o p # <<>>
    BY <2>3, <2>4, <2>5
  <2> QED BY <2>6 DEF p
<1>9. m = n
  <2>1. ASSUME m < n PROVE FALSE
    <3>1. f[m - m] = h[n - m]
      BY <1>3, <1>7, <2>1
    <3>2. n - m \in 1 .. n /\ (n - m) - 1 \in 0 .. n /\ m - m = 0
      BY <1>3, <2>1
    <3>3. /\ h[n - m] = h[(n - m) - 1] \o (<<Slash>> \o H[n - m])
          /\ h[(n - m) - 1] \in Seq(T) /\ H[n - m] \in Plain(T)
      BY <1>2, <1>4, <3>2
    <3>4. h[n - m] # <<>>
      BY <1>8, <3>3
    <3> QED BY <1>1, <3>1, <3>2, <3>4
  <2>2. ASSUME n < m PROVE FALSE
    <3>1. f[m - n] = h[n - n]
      BY <1>3, <1>7, <2>2
    <3>2. m - n \in 1 .. m /\ (m - n) - 1 \in 0 .. m /\ n - n = 0
      BY <1>3, <2>2
    <3>3. /\ f[m - n] = f[(m - n) - 1] \o (<<Slash>> \o F[m - n])
          /\ f[(m - n) - 1] \in Seq(T) /\ F[m - n] \in Plain(T)
      BY <1>1, <1>4, <3>2
    <3>4. f[m - n] # <<>>
      BY <1>8, <3>3
    <3> QED BY <1>2, <3>1, <3>2, <3>4
  <2> QED BY <1>3, <2>1, <2>2
<1>10. ASSUME NEW i \in 1 .. m PROVE F[i] = H[i]
  <2>1. \A j \in 0 .. m - 1 : F[m - j] = H[n - j]
    <3>1. m \in G
      <4> HIDE DEF G
      <4> QED BY <1>3, <1>7
    <3>2. m <= m /\ m <= n
      BY <1>3, <1>9
    <3> QED BY <3>1, <3>2
  <2>2. m - i \in 0 .. m - 1 /\ m - (m - i) = i
    BY <1>3
  <2> QED BY <1>9, <2>1, <2>2
<1> QED BY <1>9, <1>10, SeqEqual DEF m, n
-----------------------------------------------------------------------------
(* The methods: what of each of them can be seen in a path. *)

\* The fields that a fragment and its argument bring.
FragmentLength(fragments, i) ==
    IF i \in DOMAIN fragments THEN Len(fragments[i]) + 1 ELSE 0

\* The number of fields behind the base, and the segment that comes first.
Count(fragments, additional) ==
    FragmentLength(fragments, 1) + FragmentLength(fragments, 2) + FragmentLength(fragments, 3)
        + Len(additional)
First(fragments, additional) == IF fragments = <<>> THEN additional[1] ELSE fragments[1][1]

\* How methods are written: no segment contains a slash.
LeadsWith(base) == \E W : "/" \notin W /\ base \in Seq(W) /\ Len(base) >= 3
Written(fragments, additional) ==
    \E W : /\ "/" \notin W
           /\ fragments \in Seq(Seq(W)) /\ Len(fragments) <= 3
           /\ additional \in Seq(W)
           /\ IF fragments = <<>> THEN additional # <<>> ELSE fragments[1] # <<>>
WellFormed(m) ==
    /\ LeadsWith(m.url_base)
    /\ Written(m.url_fragments, m.additional_frag)
    /\ m.valid_opt_keys \cap {"?", "&"} = {}

Looks(m, key, count, first) ==
    /\ m.method_key = key
    /\ Count(m.url_fragments, m.additional_frag) = count
    /\ First(m.url_fragments, m.additional_frag) = first
EndsWith(m, word) == m.additional_frag # <<>> /\ Last(m.additional_frag) = word

\* What the shapes that fragments and additional segments have in the table show.
LEMMA Counts ==
    \A u, v, w, x, y :
       /\ Count(<<>>, <<x>>) = 1
       /\ Count(<<>>, <<x, y>>) = 2
       /\ Count(<<<<u>>>>, <<>>) = 2
       /\ Count(<<<<u>>>>, <<x>>) = 3
       /\ Count(<<<<u, v>>>>, <<>>) = 3
       /\ Count(<<<<u, v>>>>, <<x>>) = 4
       /\ Count(<<<<u>>, <<>>>>, <<>>) = 3
       /\ Count(<<<<u, v>>, <<>>>>, <<>>) = 4
       /\ Count(<<<<u, v>>, <<w>>>>, <<>>) = 5
       /\ Count(<<<<u>>, <<v, w>>>>, <<>>) = 5
       /\ Count(<<<<u>>, <<>>, <<>>>>, <<>>) = 4
BY DEF Count, FragmentLength

LEMMA Firsts ==
    \A u, v, w, x, y :
       /\ First(<<>>, <<x>>) = x
       /\ First(<<>>, <<x, y>>) = x
       /\ First(<<<<u>>>>, <<>>) = u
       /\ First(<<<<u>>>>, <<x>>) = u
       /\ First(<<<<u, v>>>>, <<>>) = u
       /\ First(<<<<u, v>>>>, <<x>>) = u
       /\ First(<<<<u>>, <<>>>>, <<>>) = u
       /\ First(<<<<u, v>>, <<>>>>, <<>>) = u
       /\ First(<<<<u, v>>, <<w>>>>, <<>>) = u
       /\ First(<<<<u>>, <<v, w>>>>, <<>>) = u
       /\ First(<<<<u>>, <<>>, <<>>>>, <<>>) = u
BY DEF First

LEMMA Shapes ==
    ASSUME NEW u, NEW v, NEW w, NEW x, NEW y, "/" \notin {u, v, w, x, y}
    PROVE
       /\ Written(<<>>, <<x>>)
       /\ Written(<<>>, <<x, y>>)
       /\ Written(<<<<u>>>>, <<>>)
       /\ Written(<<<<u>>>>, <<x>>)
       /\ Written(<<<<u, v>>>>, <<>>)
       /\ Written(<<<<u, v>>>>, <<x>>)
       /\ Written(<<<<u>>, <<>>>>, <<>>)
       /\ Written(<<<<u, v>>, <<>>>>, <<>>)
       /\ Written(<<<<u, v>>, <<w>>>>, <<>>)
       /\ Written(<<<<u>>, <<v, w>>>>, <<>>)
       /\ Written(<<<<u>>, <<>>, <<>>>>, <<>>)
<1> DEFINE W == {u, v, w, x, y}
<1>1. "/" \notin W /\ u \in W /\ v \in W /\ w \in W /\ x \in W /\ y \in W
  OBVIOUS
<1> HIDE DEF W
<1>2. /\ <<>> \in Seq(W) /\ <<x>> \in Seq(W) /\ <<x, y>> \in Seq(W)
      /\ <<u>> \in Seq(W) /\ <<u, v>> \in Seq(W) /\ <<w>> \in Seq(W) /\ <<v, w>> \in Seq(W)
  BY <1>1
<1>3. /\ <<>> \in Seq(Seq(W))
      /\ <<<<u>>>> \in Seq(Seq(W)) /\ <<<<u, v>>>> \in Seq(Seq(W))
      /\ <<<<u>>, <<>>>> \in Seq(Seq(W)) /\ <<<<u, v>>, <<>>>> \in Seq(Seq(W))
      /\ <<<<u, v>>, <<w>>>> \in Seq(Seq(W)) /\ <<<<u>>, <<v, w>>>> \in Seq(Seq(W))
      /\ <<<<u>>, <<>>, <<>>>> \in Seq(Seq(W))
  BY <1>2
<1>4. <<x>> # <<>> /\ <<x, y>> # <<>> /\ <<u>> # <<>> /\ <<u, v>> # <<>>
  OBVIOUS
<1>5. Written(<<>>, <<x>>) /\ Written(<<>>, <<x, y>>)
  BY <1>1, <1>2, <1>3, <1>4 DEF Written
<1>6. /\ Written(<<<<u>>>>, <<>>) /\ Written(<<<<u>>>>, <<x>>)
      /\ Written(<<<<u, v>>>>, <<>>) /\ Written(<<<<u, v>>>>, <<x>>)
  BY <1>1, <1>2, <1>3, <1>4 DEF Written
<1>7. /\ Written(<<<<u>>, <<>>>>, <<>>) /\ Written(<<<<u, v>>, <<>>>>, <<>>)
      /\ Written(<<<<u, v>>, <<w>>>>, <<>>) /\ Written(<<<<u>>, <<v, w>>>>, <<>>)
  BY <1>1, <1>2, <1>3, <1>4 DEF Written
<1>8. Written(<<<<u>>, <<>>, <<>>>>, <<>>)
  BY <1>1, <1>2, <1>3, <1>4 DEF Written
<1> QED BY <1>5, <1>6, <1>7, <1>8

LEMMA WrittenShapes ==
       /\ \A x : x # "/" => Written(<<>>, <<x>>)
       /\ \A x, y : x # "/" /\ y # "/" => Written(<<>>, <<x, y>>)
       /\ \A u : u # "/" => Written(<<<<u>>>>, <<>>) 
       /\ \A u, x : u # "/" /\ x # "/" => Written(<<<<u>>>>, <<x>>)
       /\ \A u, v : u # "/" /\ v # "/" => Written(<<<<u, v>>>>, <<>>)
       /\ \A u, v, x : u # "/" /\ v # "/" /\ x # "/" => Written(<<<<u, v>>>>, <<x>>)
       /\ \A u : u # "/" => Written(<<<<u>>, <<>>>>, <<>>)
       /\ \A u, v : u # "/" /\ v # "/" => Written(<<<<u, v>>, <<>>>>, <<>>)
       /\ \A u, v, w : u # "/" /\ v # "/" /\ w # "/" => Written(<<<<u, v>>, <<w>>>>, <<>>)
       /\ \A u, v, w : u # "/" /\ v # "/" /\ w # "/" => Written(<<<<u>>, <<v, w>>>>, <<>>)
       /\ \A u : u # "/" => Written(<<<<u>>, <<>>, <<>>>>, <<>>)
BY Shapes

LEMMA BaseShapes ==
    /\ \A u, v, w : "/" \notin {u, v, w} => LeadsWith(<<u, v, w>>)
    /\ \A u, v, w, x : "/" \notin {u, v, w, x} => LeadsWith(<<u, v, w, x>>)
<1>1. ASSUME NEW u, NEW v, NEW w, NEW W, u \in W, v \in W, w \in W
      PROVE  <<u, v, w>> \in Seq(W) /\ Len(<<u, v, w>>) >= 3
  BY <1>1
<1>2. ASSUME NEW u, NEW v, NEW w, NEW x, NEW W, u \in W, v \in W, w \in W, x \in W
      PROVE  <<u, v, w, x>> \in Seq(W) /\ Len(<<u, v, w, x>>) >= 3
  BY <1>2
<1>3. ASSUME NEW u, NEW v, NEW w, "/" \notin {u, v, w} PROVE LeadsWith(<<u, v, w>>)
  <2> DEFINE W == {u, v, w}
  <2>1. <<u, v, w>> \in Seq(W) /\ Len(<<u, v, w>>) >= 3
    BY <1>1
  <2> QED BY <1>3, <2>1 DEF LeadsWith
<1>4. ASSUME NEW u, NEW v, NEW w, NEW x, "/" \notin {u, v, w, x} PROVE LeadsWith(<<u, v, w, x>>)
  <2> DEFINE W == {u, v, w, x}
  <2>1. <<u, v, w, x>> \in Seq(W) /\ Len(<<u, v, w, x>>) >= 3
    BY <1>2
  <2> QED BY <1>4, <2>1 DEF LeadsWith
<1> QED BY <1>3, <1>4

LEMMA Ends ==
    /\ \A x : <<x>> # <<>> /\ Last(<<x>>) = x
    /\ \A x, y : <<x, y>> # <<>> /\ Last(<<x, y>>) = y
BY DEF Last

\* A method of an endpoint has the endpoint's base.
LEMMA OnEach ==
    ASSUME NEW base, NEW S, NEW m \in On(base, S)
    PROVE  \E s \in S :
              m = [url_base |-> base, method_key |-> s.method_key, url_fragments |-> s.url_fragments,
                   additional_frag |-> s.additional_frag, valid_opt_keys |-> s.valid_opt_keys]
BY DEF On

\* The table, endpoint by endpoint: the base, and for each method its key and what its
\* paths show.
LEMMA Account_v1_Looks ==
    \A m \in Account_v1 :
        /\ m.url_base = <<"riot", "account", "v1">> /\ WellFormed(m)
        /\ \/ Looks(m, "Account-v1-by-puuid", 3, "accounts")
           \/ Looks(m, "Acccount-v1-by-riot-id", 4, "accounts")
           \/ Looks(m, "Account-v1-by-game-by-puuid", 5, "active-shards")
BY OnEach, WrittenShapes, BaseShapes, Counts, Firsts
   DEF Account_v1, Method, Looks, WellFormed

LEMMA Champion_Mastery_v4_Looks ==
    \A m \in Champion_Mastery_v4 :
        /\ m.url_base = <<"lol", "champion-mastery", "v4">> /\ WellFormed(m)
        /\ \/ Looks(m, "Champion-Mastery-v4-by-puuid", 3, "champion-masteries")
           \/ Looks(m, "Champion-Mastery-v4-by-puuid-by-champion", 5, "champion-masteries")
           \/ Looks(m, "Champion-Mastery-v4-by-puuid-top", 4, "champion-masteries")
           \/ Looks(m, "Champion-Mastery-v4-scores-by-puuid", 3, "scores")
BY OnEach, WrittenShapes, BaseShapes, Counts, Firsts
   DEF Champion_Mastery_v4, Method, Looks, WellFormed

LEMMA Champion_v3_Looks ==
    \A m \in Champion_v3 :
        /\ m.url_base = <<"lol", "platform", "v3">> /\ WellFormed(m)
        /\ Looks(m, "Champion-v3=champion-rotations", 1, "champion-rotations")
BY OnEach, WrittenShapes, BaseShapes, Counts, Firsts
   DEF Champion_v3, Method, Looks, WellFormed

LEMMA Clash_v1_Looks ==
    \A m \in Clash_v1 :
        /\ m.url_base = <<"lol", "clash", "v1">> /\ WellFormed(m)
        /\ \/ Looks(m, "Clash-v1-by-summoner-id", 3, "players")
           \/ Looks(m, "Clash-v1-teams", 2, "teams")
           \/ Looks(m, "Clash-v1-tournaments", 1, "tournaments")
           \/ Looks(m, "Clash-v1-by-team", 3, "tournaments")
           \/ Looks(m, "Clash-v1-tournament-by-id", 2, "tournaments")
BY OnEach, WrittenShapes, BaseShapes, Counts, Firsts
   DEF Clash_v1, Method, Looks, WellFormed

LEMMA League_exp_v4_Looks ==
    \A m \in League_exp_v4 :
        /\ m.url_base = <<"lol", "league-exp", "v4">> /\ WellFormed(m)
        /\ Looks(m, "League-exp-v4-entries", 4, "entries")
BY OnEach, WrittenShapes, BaseShapes, Counts, Firsts
   DEF League_exp_v4, Method, Looks, WellFormed

LEMMA League_v4_Looks ==
    \A m \in League_v4 :
        /\ m.url_base = <<"lol", "league", "v4">> /\ WellFormed(m)
        /\ \/ Looks(m, "League-v4-challenger", 3, "challengerleagues")
           \/ Looks(m, "League-v4-by-puuid", 3, "entries")
           \/ Looks(m, "League-v4-entries", 4, "entries")
           \/ Looks(m, "League-v4-grandmaster", 3, "grandmasterleagues")
           \/ Looks(m, "League-v4-by-league-id", 2, "leagues")
           \/ Looks(m, "League-v4-master", 3, "masterleagues")
BY OnEach, WrittenShapes, BaseShapes, Counts, Firsts
   DEF League_v4, Method, Looks, WellFormed

LEMMA Lol_Challenges_v1_Looks ==
    \A m \in Lol_Challenges_v1 :
        /\ m.url_base = <<"lol", "challenges", "v1">> /\ WellFormed(m)
        /\ \/ Looks(m, "Lol-Challenges-config", 2, "challenges") /\ EndsWith(m, "config")
           \/ Looks(m, "Lol-Challenges-percentilejs", 2, "challenges") /\ EndsWith(m, "percentiles")
           \/ Looks(m, "Lol-Challenges-config-by-id", 3, "challenges") /\ EndsWith(m, "config")
           \/ Looks(m, "Lol-Challenges-leaderboards-by-id-by-level", 5, "challenges")
              /\ m.additional_frag = <<>>
           \/ Looks(m, "Lol-Challenges-percentiles-by-id", 3, "challenges") /\ EndsWith(m, "percentiles")
           \/ Looks(m, "Lol-Challenges-player-data-by-puuid", 2, "player-data")
              /\ m.additional_frag = <<>>
<1>1. \A m \in Lol_Challenges_v1 :
        /\ m.url_base = <<"lol", "challenges", "v1">> /\ WellFormed(m)
        /\ \/ Looks(m, "Lol-Challenges-config", 2, "challenges")
           \/ Looks(m, "Lol-Challenges-percentilejs", 2, "challenges")
           \/ Looks(m, "Lol-Challenges-config-by-id", 3, "challenges")
           \/ Looks(m, "Lol-Challenges-leaderboards-by-id-by-level", 5, "challenges")
           \/ Looks(m, "Lol-Challenges-percentiles-by-id", 3, "challenges")
           \/ Looks(m, "Lol-Challenges-player-data-by-puuid", 2, "player-data")
  BY OnEach, WrittenShapes, BaseShapes, Counts, Firsts DEF Lol_Challenges_v1, Method, Looks, WellFormed
<1>2. \A m \in Lol_Challenges_v1 :
        \/ m.method_key = "Lol-Challenges-config" /\ EndsWith(m, "config")
        \/ m.method_key = "Lol-Challenges-percentilejs" /\ EndsWith(m, "percentiles")
        \/ m.method_key = "Lol-Challenges-config-by-id" /\ EndsWith(m, "config")
        \/ m.method_key = "Lol-Challenges-leaderboards-by-id-by-level"
              /\ m.additional_frag = <<>>
        \/ m.method_key = "Lol-Challenges-percentiles-by-id" /\ EndsWith(m, "percentiles")
        \/ m.method_key = "Lol-Challenges-player-data-by-puuid"
              /\ m.additional_frag = <<>>
  BY OnEach, Ends DEF Lol_Challenges_v1, Method, EndsWith
<1> QED BY <1>1, <1>2 DEF Looks

LEMMA Lol_Status_v4_Looks ==
    \A m \in Lol_Status_v4 :
        /\ m.url_base = <<"lol", "status", "v4">> /\ WellFormed(m)
        /\ Looks(m, "Lol-Status-v4-status", 1, "platform-data")
BY OnEach, WrittenShapes, BaseShapes, Counts, Firsts
   DEF Lol_Status_v4, Method, Looks, WellFormed

LEMMA Lor_Match_v1_Looks ==
    \A m \in Lor_Match_v1 :
        /\ m.url_base = <<"lor", "match", "v1">> /\ WellFormed(m)
        /\ \/ Looks(m, "Lor-Match-v1-by-puuid", 4, "matches")
           \/ Looks(m, "Lor-Match-v1-by-match-id", 2, "matches")
BY OnEach, WrittenShapes, BaseShapes, Counts, Firsts
   DEF Lor_Match_v1, Method, Looks, WellFormed

LEMMA Lor_Ranked_v1_Looks ==
    \A m \in Lor_Ranked_v1 :
        /\ m.url_base = <<"lor", "ranked", "v1">> /\ WellFormed(m)
        /\ Looks(m, "Lor-Ranked-v1-leaderboards", 1, "leaderboards")
BY OnEach, WrittenShapes, BaseShapes, Counts, Firsts
   DEF Lor_Ranked_v1, Method, Looks, WellFormed

LEMMA Lor_Status_v1_Looks ==
    \A m \in Lor_Status_v1 :
        /\ m.url_base = <<"lor", "status", "v1">> /\ WellFormed(m)
        /\ Looks(m, "Lor-Status-v1", 1, "platform-data")
BY OnEach, WrittenShapes, BaseShapes, Counts, Firsts
   DEF Lor_Status_v1, Method, Looks, WellFormed

LEMMA Match_v5_Looks ==
    \A m \in Match_v5 :
        /\ m.url_base = <<"lol", "match", "v5">> /\ WellFormed(m)
        /\ \/ Looks(m, "Match-v5-by-puuid", 4, "matches")
           \/ Looks(m, "Match-v5-by-match-id", 2, "matches")
           \/ Looks(m, "Match-v5-timeline-by-match-id", 3, "matches")
BY OnEach, WrittenShapes, BaseShapes, Counts, Firsts
   DEF Match_v5, Method, Looks, WellFormed

LEMMA Spectator_Tft_v5_Looks ==
    \A m \in Spectator_Tft_v5 :
        /\ m.url_base = <<"lol", "spectator", "tft", "v5">> /\ WellFormed(m)
        /\ \/ Looks(m, "Spectator-Tft-v5-by-puuid", 3, "active-games")
           \/ Looks(m, "Spectator-Tft-v5=featured", 1, "featured-games")
BY OnEach, WrittenShapes, BaseShapes, Counts, Firsts
   DEF Spectator_Tft_v5, Method, Looks, WellFormed

LEMMA Spectator_v5_Looks ==
    \A m \in Spectator_v5 :
        /\ m.url_base = <<"lol", "spectator", "v5">> /\ WellFormed(m)
        /\ \/ Looks(m, "Spectator-v5-by-summoner-id", 3, "active-games")
           \/ Looks(m, "Spectator-v5-featured", 1, "featured-games")
BY OnEach, WrittenShapes, BaseShapes, Counts, Firsts
   DEF Spectator_v5, Method, Looks, WellFormed

LEMMA Summoner_v4_Looks ==
    \A m \in Summoner_v4 :
        /\ m.url_base = <<"lol", "summoner", "v4">> /\ WellFormed(m)
        /\ Looks(m, "Summoner-v4-by-puuid", 3, "summoners")
BY OnEach, WrittenShapes, BaseShapes, Counts, Firsts
   DEF Summoner_v4, Method, Looks, WellFormed

LEMMA Tft_League_v1_Looks ==
    \A m \in Tft_League_v1 :
        /\ m.url_base = <<"tft", "league", "v1">> /\ WellFormed(m)
        /\ \/ Looks(m, "Tft-League-v1-challenger", 1, "challenger")
           \/ Looks(m, "Tft-League-v1-by-puuid", 2, "by-puuid")
           \/ Looks(m, "Tft-League-v1-entries", 3, "entries")
           \/ Looks(m, "Tft-League-v1-grandmaster", 1, "grandmaster")
           \/ Looks(m, "Tft-League-v1-by-league-id", 2, "leagues")
           \/ Looks(m, "Tft-League-v1-master", 1, "master")
           \/ Looks(m, "Tft-League-v1-top-by-queue", 3, "rated-ladders")
BY OnEach, WrittenShapes, BaseShapes, Counts, Firsts
   DEF Tft_League_v1, Method, Looks, WellFormed

LEMMA Tft_Match_v1_Looks ==
    \A m \in Tft_Match_v1 :
        /\ m.url_base = <<"tft", "match", "v1">> /\ WellFormed(m)
        /\ \/ Looks(m, "Tft-Match-v1-by-puuid", 4, "matches")
           \/ Looks(m, "Tft-Match-v1-by-match-id", 2, "matches")
BY OnEach, WrittenShapes, BaseShapes, Counts, Firsts
   DEF Tft_Match_v1, Method, Looks, WellFormed

LEMMA Tft_Status_v1_Looks ==
    \A m \in Tft_Status_v1 :
        /\ m.url_base = <<"tft", "status", "v1">> /\ WellFormed(m)
        /\ Looks(m, "Tft-Status-v1-status", 1, "platform-data")
BY OnEach, WrittenShapes, BaseShapes, Counts, Firsts
   DEF Tft_Status_v1, Method, Looks, WellFormed

LEMMA Tft_Summoner_v1_Looks ==
    \A m \in Tft_Summoner_v1 :
        /\ m.url_base = <<"tft", "summoner", "v1">> /\ WellFormed(m)
        /\ Looks(m, "Tft-Summoner-v1-by-puuid", 3, "summoners")
BY OnEach, WrittenShapes, BaseShapes, Counts, Firsts
   DEF Tft_Summoner_v1, Method, Looks, WellFormed

LEMMA Val_Content_v1_Looks ==
    \A m \in Val_Content_v1 :
        /\ m.url_base = <<"val", "content", "v1">> /\ WellFormed(m)
        /\ Looks(m, "Val-Content-v1-contents", 1, "contents")
BY OnEach, WrittenShapes, BaseShapes, Counts, Firsts
   DEF Val_Content_v1, Method, Looks, WellFormed

LEMMA Val_Match_v1_Looks ==
    \A m \in Val_Match_v1 :
        /\ m.url_base = <<"val", "match", "v1">> /\ WellFormed(m)
        /\ \/ Looks(m, "Val-Match-v1-by-match-id", 2, "matches")
           \/ Looks(m, "Val-Match-v1-by-puuid", 3, "matches")
           \/ Looks(m, "Val-Match-v1-recent-by-queue", 3, "recent-matches")
BY OnEach, WrittenShapes, BaseShapes, Counts, Firsts
   DEF Val_Match_v1, Method, Looks, WellFormed

LEMMA Val_Ranked_v1_Looks ==
    \A m \in Val_Ranked_v1 :
        /\ m.url_base = <<"val", "ranked", "v1">> /\ WellFormed(m)
        /\ Looks(m, "Val-Ranked-v1-leaderbords-by-act", 3, "leaderboards")
BY OnEach, WrittenShapes, BaseShapes, Counts, Firsts
   DEF Val_Ranked_v1, Method, Looks, WellFormed

LEMMA Val_Status_v1_Looks ==
    \A m \in Val_Status_v1 :
        /\ m.url_base = <<"val", "status", "v1">> /\ WellFormed(m)
        /\ Looks(m, "Val-Status-v1-status", 1, "platform-data")
BY OnEach, WrittenShapes, BaseShapes, Counts, Firsts
   DEF Val_Status_v1, Method, Looks, WellFormed

\* What a path shows of its method, behind the base.
SameSight(m, n) ==
    /\ Count(m.url_fragments, m.additional_frag) = Count(n.url_fragments, n.additional_frag)
    /\ First(m.url_fragments, m.additional_frag) = First(n.url_fragments, n.additional_frag)
    /\ m.additional_frag # <<>> /\ n.additional_frag # <<>> =>
          Last(m.additional_frag) = Last(n.additional_frag)

\* The methods of one endpoint are told apart by their paths, and by their keys.
Told(methods) ==
    \A m, n \in methods :
        /\ SameSight(m, n) => m.method_key = n.method_key
        /\ m.method_key = n.method_key => m = n

LEMMA Account_v1_Told == Told(Account_v1)
<1>1. \A m, n \in Account_v1 : SameSight(m, n) => m.method_key = n.method_key
  BY Account_v1_Looks DEF Looks, EndsWith, SameSight
<1>2. \A m, n \in Account_v1 : m.method_key = n.method_key => m = n
  BY DEF Account_v1, On, Method
<1> QED BY <1>1, <1>2 DEF Told

LEMMA Champion_Mastery_v4_Told == Told(Champion_Mastery_v4)
<1>1. \A m, n \in Champion_Mastery_v4 : SameSight(m, n) => m.method_key = n.method_key
  BY Champion_Mastery_v4_Looks DEF Looks, EndsWith, SameSight
<1>2. \A m, n \in Champion_Mastery_v4 : m.method_key = n.method_key => m = n
  BY DEF Champion_Mastery_v4, On, Method
<1> QED BY <1>1, <1>2 DEF Told

LEMMA Champion_v3_Told == Told(Champion_v3)
<1>1. \A m, n \in Champion_v3 : SameSight(m, n) => m.method_key = n.method_key
  BY Champion_v3_Looks DEF Looks, EndsWith, SameSight
<1>2. \A m, n \in Champion_v3 : m.method_key = n.method_key => m = n
  BY DEF Champion_v3, On, Method
<1> QED BY <1>1, <1>2 DEF Told

LEMMA Clash_v1_Told == Told(Clash_v1)
<1>1. \A m, n \in Clash_v1 : SameSight(m, n) => m.method_key = n.method_key
  BY Clash_v1_Looks DEF Looks, EndsWith, SameSight
<1>2. \A m, n \in Clash_v1 : m.method_key = n.method_key => m = n
  BY DEF Clash_v1, On, Method
<1> QED BY <1>1, <1>2 DEF Told

LEMMA League_exp_v4_Told == Told(League_exp_v4)
<1>1. \A m, n \in League_exp_v4 : SameSight(m, n) => m.method_key = n.method_key
  BY League_exp_v4_Looks DEF Looks, EndsWith, SameSight
<1>2. \A m, n \in League_exp_v4 : m.method_key = n.method_key => m = n
  BY DEF League_exp_v4, On, Method
<1> QED BY <1>1, <1>2 DEF Told

LEMMA League_v4_Told == Told(League_v4)
<1>1. \A m, n \in League_v4 : SameSight(m, n) => m.method_key = n.method_key
  BY League_v4_Looks DEF Looks, EndsWith, SameSight
<1>2. \A m, n \in League_v4 : m.method_key = n.method_key => m = n
  BY DEF League_v4, On, Method
<1> QED BY <1>1, <1>2 DEF Told

LEMMA Lol_Challenges_v1_Told == Told(Lol_Challenges_v1)
<1>1. \A m, n \in Lol_Challenges_v1 : SameSight(m, n) => m.method_key = n.method_key
  BY Lol_Challenges_v1_Looks DEF Looks, EndsWith, SameSight
<1>2. \A m, n \in Lol_Challenges_v1 : m.method_key = n.method_key => m = n
  BY DEF Lol_Challenges_v1, On, Method
<1> QED BY <1>1, <1>2 DEF Told

LEMMA Lol_Status_v4_Told == Told(Lol_Status_v4)
<1>1. \A m, n \in Lol_Status_v4 : SameSight(m, n) => m.method_key = n.method_key
  BY Lol_Status_v4_Looks DEF Looks, EndsWith, SameSight
<1>2. \A m, n \in Lol_Status_v4 : m.method_key = n.method_key => m = n
  BY DEF Lol_Status_v4, On, Method
<1> QED BY <1>1, <1>2 DEF Told

LEMMA Lor_Match_v1_Told == Told(Lor_Match_v1)
<1>1. \A m, n \in Lor_Match_v1 : SameSight(m, n) => m.method_key = n.method_key
  BY Lor_Match_v1_Looks DEF Looks, EndsWith, SameSight
<1>2. \A m, n \in Lor_Match_v1 : m.method_key = n.method_key => m = n
  BY DEF Lor_Match_v1, On, Method
<1> QED BY <1>1, <1>2 DEF Told

LEMMA Lor_Ranked_v1_Told == Told(Lor_Ranked_v1)
<1>1. \A m, n \in Lor_Ranked_v1 : SameSight(m, n) => m.method_key = n.method_key
  BY Lor_Ranked_v1_Looks DEF Looks, EndsWith, SameSight
<1>2. \A m, n \in Lor_Ranked_v1 : m.method_key = n.method_key => m = n
  BY DEF Lor_Ranked_v1, On, Method
<1> QED BY <1>1, <1>2 DEF Told

LEMMA Lor_Status_v1_Told == Told(Lor_Status_v1)
<1>1. \A m, n \in Lor_Status_v1 : SameSight(m, n) => m.method_key = n.method_key
  BY Lor_Status_v1_Looks DEF Looks, EndsWith, SameSight
<1>2. \A m, n \in Lor_Status_v1 : m.method_key = n.method_key => m = n
  BY DEF Lor_Status_v1, On, Method
<1> QED BY <1>1, <1>2 DEF Told

LEMMA Match_v5_Told == Told(Match_v5)
<1>1. \A m, n \in Match_v5 : SameSight(m, n) => m.method_key = n.method_key
  BY Match_v5_Looks DEF Looks, EndsWith, SameSight
<1>2. \A m, n \in Match_v5 : m.method_key = n.method_key => m = n
  BY DEF Match_v5, On, Method
<1> QED BY <1>1, <1>2 DEF Told

LEMMA Spectator_Tft_v5_Told == Told(Spectator_Tft_v5)
<1>1. \A m, n \in Spectator_Tft_v5 : SameSight(m, n) => m.method_key = n.method_key
  BY Spectator_Tft_v5_Looks DEF Looks, EndsWith, SameSight
<1>2. \A m, n \in Spectator_Tft_v5 : m.method_key = n.method_key => m = n
  BY DEF Spectator_Tft_v5, On, Method
<1> QED BY <1>1, <1>2 DEF Told

LEMMA Spectator_v5_Told == Told(Spectator_v5)
<1>1. \A m, n \in Spectator_v5 : SameSight(m, n) => m.method_key = n.method_key
  BY Spectator_v5_Looks DEF Looks, EndsWith, SameSight
<1>2. \A m, n \in Spectator_v5 : m.method_key = n.method_key => m = n
  BY DEF Spectator_v5, On, Method
<1> QED BY <1>1, <1>2 DEF Told

LEMMA Summoner_v4_Told == Told(Summoner_v4)
<1>1. \A m, n \in Summoner_v4 : SameSight(m, n) => m.method_key = n.method_key
  BY Summoner_v4_Looks DEF Looks, EndsWith, SameSight
<1>2. \A m, n \in Summoner_v4 : m.method_key = n.method_key => m = n
  BY DEF Summoner_v4, On, Method
<1> QED BY <1>1, <1>2 DEF Told

LEMMA Tft_League_v1_Told == Told(Tft_League_v1)
<1>1. \A m, n \in Tft_League_v1 : SameSight(m, n) => m.method_key = n.method_key
  BY Tft_League_v1_Looks DEF Looks, EndsWith, SameSight
<1>2. \A m, n \in Tft_League_v1 : m.method_key = n.method_key => m = n
  BY DEF Tft_League_v1, On, Method
<1> QED BY <1>1, <1>2 DEF Told

LEMMA Tft_Match_v1_Told == Told(Tft_Match_v1)
<1>1. \A m, n \in Tft_Match_v1 : SameSight(m, n) => m.method_key = n.method_key
  BY Tft_Match_v1_Looks DEF Looks, EndsWith, SameSight
<1>2. \A m, n \in Tft_Match_v1 : m.method_key = n.method_key => m = n
  BY DEF Tft_Match_v1, On, Method
<1> QED BY <1>1, <1>2 DEF Told

LEMMA Tft_Status_v1_Told == Told(Tft_Status_v1)
<1>1. \A m, n \in Tft_Status_v1 : SameSight(m, n) => m.method_key = n.method_key
  BY Tft_Status_v1_Looks DEF Looks, EndsWith, SameSight
<1>2. \A m, n \in Tft_Status_v1 : m.method_key = n.method_key => m = n
  BY DEF Tft_Status_v1, On, Method
<1> QED BY <1>1, <1>2 DEF Told

LEMMA Tft_Summoner_v1_Told == Told(Tft_Summoner_v1)
<1>1. \A m, n \in Tft_Summoner_v1 : SameSight(m, n) => m.method_key = n.method_key
  BY Tft_Summoner_v1_Looks DEF Looks, EndsWith, SameSight
<1>2. \A m, n \in Tft_Summoner_v1 : m.method_key = n.method_key => m = n
  BY DEF Tft_Summoner_v1, On, Method
<1> QED BY <1>1, <1>2 DEF Told

LEMMA Val_Content_v1_Told == Told(Val_Content_v1)
<1>1. \A m, n \in Val_Content_v1 : SameSight(m, n) => m.method_key = n.method_key
  BY Val_Content_v1_Looks DEF Looks, EndsWith, SameSight
<1>2. \A m, n \in Val_Content_v1 : m.method_key = n.method_key => m = n
  BY DEF Val_Content_v1, On, Method
<1> QED BY <1>1, <1>2 DEF Told

LEMMA Val_Match_v1_Told == Told(Val_Match_v1)
<1>1. \A m, n \in Val_Match_v1 : SameSight(m, n) => m.method_key = n.method_key
  BY Val_Match_v1_Looks DEF Looks, EndsWith, SameSight
<1>2. \A m, n \in Val_Match_v1 : m.method_key = n.method_key => m = n
  BY DEF Val_Match_v1, On, Method
<1> QED BY <1>1, <1>2 DEF Told

LEMMA Val_Ranked_v1_Told == Told(Val_Ranked_v1)
<1>1. \A m, n \in Val_Ranked_v1 : SameSight(m, n) => m.method_key = n.method_key
  BY Val_Ranked_v1_Looks DEF Looks, EndsWith, SameSight
<1>2. \A m, n \in Val_Ranked_v1 : m.method_key = n.method_key => m = n
  BY DEF Val_Ranked_v1, On, Method
<1> QED BY <1>1, <1>2 DEF Told

LEMMA Val_Status_v1_Told == Told(Val_Status_v1)
<1>1. \A m, n \in Val_Status_v1 : SameSight(m, n) => m.method_key = n.method_key
  BY Val_Status_v1_Looks DEF Looks, EndsWith, SameSight
<1>2. \A m, n \in Val_Status_v1 : m.method_key = n.method_key => m = n
  BY DEF Val_Status_v1, On, Method
<1> QED BY <1>1, <1>2 DEF Told

HasKey(m, base, keys) == m.url_base = base /\ m.method_key \in keys

\* No two endpoints share a base or a key.
LEMMA MethodsAre ==
    ASSUME NEW m \in EndpointMethods
    PROVE
        \/ m \in Account_v1 /\ HasKey(m, <<"riot", "account", "v1">>, {
               "Account-v1-by-puuid", "Acccount-v1-by-riot-id",
               "Account-v1-by-game-by-puuid"})
        \/ m \in Champion_Mastery_v4 /\ HasKey(m, <<"lol", "champion-mastery", "v4">>, {
               "Champion-Mastery-v4-by-puuid", "Champion-Mastery-v4-by-puuid-by-champion",
               "Champion-Mastery-v4-by-puuid-top", "Champion-Mastery-v4-scores-by-puuid"})
        \/ m \in Champion_v3 /\ HasKey(m, <<"lol", "platform", "v3">>, {
               "Champion-v3=champion-rotations"})
        \/ m \in Clash_v1 /\ HasKey(m, <<"lol", "clash", "v1">>, {"Clash-v1-by-summoner-id",
               "Clash-v1-teams", "Clash-v1-tournaments", "Clash-v1-by-team",
               "Clash-v1-tournament-by-id"})
        \/ m \in League_exp_v4 /\ HasKey(m, <<"lol", "league-exp", "v4">>, {
               "League-exp-v4-entries"})
        \/ m \in League_v4 /\ HasKey(m, <<"lol", "league", "v4">>, {"League-v4-challenger",
               "League-v4-by-puuid", "League-v4-entries", "League-v4-grandmaster",
               "League-v4-by-league-id", "League-v4-master"})
        \/ m \in Lol_Challenges_v1 /\ HasKey(m, <<"lol", "challenges", "v1">>, {
               "Lol-Challenges-config", "Lol-Challenges-percentilejs",
               "Lol-Challenges-config-by-id", "Lol-Challenges-leaderboards-by-id-by-level",
               "Lol-Challenges-percentiles-by-id", "Lol-Challenges-player-data-by-puuid"})
        \/ m \in Lol_Status_v4 /\ HasKey(m, <<"lol", "status", "v4">>, {
               "Lol-Status-v4-status"})
        \/ m \in Lor_Match_v1 /\ HasKey(m, <<"lor", "match", "v1">>, {
               "Lor-Match-v1-by-puuid", "Lor-Match-v1-by-match-id"})
        \/ m \in Lor_Ranked_v1 /\ HasKey(m, <<"lor", "ranked", "v1">>, {
               "Lor-Ranked-v1-leaderboards"})
        \/ m \in Lor_Status_v1 /\ HasKey(m, <<"lor", "status", "v1">>, {"Lor-Status-v1"})
        \/ m \in Match_v5 /\ HasKey(m, <<"lol", "match", "v5">>, {"Match-v5-by-puuid",
               "Match-v5-by-match-id", "Match-v5-timeline-by-match-id"})
        \/ m \in Spectator_Tft_v5 /\ HasKey(m, <<"lol", "spectator", "tft", "v5">>, {
               "Spectator-Tft-v5-by-puuid", "Spectator-Tft-v5=featured"})
        \/ m \in Spectator_v5 /\ HasKey(m, <<"lol", "spectator", "v5">>, {
               "Spectator-v5-by-summoner-id", "Spectator-v5-featured"})
        \/ m \in Summoner_v4 /\ HasKey(m, <<"lol", "summoner", "v4">>, {
               "Summoner-v4-by-puuid"})
        \/ m \in Tft_League_v1 /\ HasKey(m, <<"tft", "league", "v1">>, {
               "Tft-League-v1-challenger", "Tft-League-v1-by-puuid",
               "Tft-League-v1-entries", "Tft-League-v1-grandmaster",
               "Tft-League-v1-by-league-id", "Tft-League-v1-master",
               "Tft-League-v1-top-by-queue"})
        \/ m \in Tft_Match_v1 /\ HasKey(m, <<"tft", "match", "v1">>, {
               "Tft-Match-v1-by-puuid", "Tft-Match-v1-by-match-id"})
        \/ m \in Tft_Status_v1 /\ HasKey(m, <<"tft", "status", "v1">>, {
               "Tft-Status-v1-status"})
        \/ m \in Tft_Summoner_v1 /\ HasKey(m, <<"tft", "summoner", "v1">>, {
               "Tft-Summoner-v1-by-puuid"})
        \/ m \in Val_Content_v1 /\ HasKey(m, <<"val", "content", "v1">>, {
               "Val-Content-v1-contents"})
        \/ m \in Val_Match_v1 /\ HasKey(m, <<"val", "match", "v1">>, {
               "Val-Match-v1-by-match-id", "Val-Match-v1-by-puuid",
               "Val-Match-v1-recent-by-queue"})
        \/ m \in Val_Ranked_v1 /\ HasKey(m, <<"val", "ranked", "v1">>, {
               "Val-Ranked-v1-leaderbords-by-act"})
        \/ m \in Val_Status_v1 /\ HasKey(m, <<"val", "status", "v1">>, {
               "Val-Status-v1-status"})
BY Account_v1_Looks, Champion_Mastery_v4_Looks, Champion_v3_Looks, Clash_v1_Looks,
   League_exp_v4_Looks, League_v4_Looks, Lol_Challenges_v1_Looks, Lol_Status_v4_Looks,
   Lor_Match_v1_Looks, Lor_Ranked_v1_Looks, Lor_Status_v1_Looks, Match_v5_Looks,
   Spectator_Tft_v5_Looks, Spectator_v5_Looks, Summoner_v4_Looks, Tft_League_v1_Looks,
   Tft_Match_v1_Looks, Tft_Status_v1_Looks, Tft_Summoner_v1_Looks, Val_Content_v1_Looks,
   Val_Match_v1_Looks, Val_Ranked_v1_Looks, Val_Status_v1_Looks
   DEF Looks, EndpointMethods, HasKey

\* All methods have one of the shapes, and none takes a parameter named "?" or "&".
LEMMA MethodsWellFormed ==
    ASSUME NEW m \in EndpointMethods
    PROVE  WellFormed(m)
<1>1. CASE m \in Account_v1
  BY <1>1, Account_v1_Looks
<1>2. CASE m \in Champion_Mastery_v4
  BY <1>2, Champion_Mastery_v4_Looks
<1>3. CASE m \in Champion_v3
  BY <1>3, Champion_v3_Looks
<1>4. CASE m \in Clash_v1
  BY <1>4, Clash_v1_Looks
<1>5. CASE m \in League_exp_v4
  BY <1>5, League_exp_v4_Looks
<1>6. CASE m \in League_v4
  BY <1>6, League_v4_Looks
<1>7. CASE m \in Lol_Challenges_v1
  BY <1>7, Lol_Challenges_v1_Looks
<1>8. CASE m \in Lol_Status_v4
  BY <1>8, Lol_Status_v4_Looks
<1>9. CASE m \in Lor_Match_v1
  BY <1>9, Lor_Match_v1_Looks
<1>10. CASE m \in Lor_Ranked_v1
  BY <1>10, Lor_Ranked_v1_Looks
<1>11. CASE m \in Lor_Status_v1
  BY <1>11, Lor_Status_v1_Looks
<1>12. CASE m \in Match_v5
  BY <1>12, Match_v5_Looks
<1>13. CASE m \in Spectator_Tft_v5
  BY <1>13, Spectator_Tft_v5_Looks
<1>14. CASE m \in Spectator_v5
  BY <1>14, Spectator_v5_Looks
<1>15. CASE m \in Summoner_v4
  BY <1>15, Summoner_v4_Looks
<1>16. CASE m \in Tft_League_v1
  BY <1>16, Tft_League_v1_Looks
<1>17. CASE m \in Tft_Match_v1
  BY <1>17, Tft_Match_v1_Looks
<1>18. CASE m \in Tft_Status_v1
  BY <1>18, Tft_Status_v1_Looks
<1>19. CASE m \in Tft_Summoner_v1
  BY <1>19, Tft_Summoner_v1_Looks
<1>20. CASE m \in Val_Content_v1
  BY <1>20, Val_Content_v1_Looks
<1>21. CASE m \in Val_Match_v1
  BY <1>21, Val_Match_v1_Looks
<1>22. CASE m \in Val_Ranked_v1
  BY <1>22, Val_Ranked_v1_Looks
<1>23. CASE m \in Val_Status_v1
  BY <1>23, Val_Status_v1_Looks
<1> QED BY <1>1, <1>2, <1>3, <1>4, <1>5, <1>6, <1>7, <1>8, <1>9, <1>10, <1>11, <1>12, <1>13,
          <1>14, <1>15, <1>16, <1>17, <1>18, <1>19, <1>20, <1>21, <1>22, <1>23 DEF EndpointMethods

\* The first three segments tell the endpoint, and what a path shows behind them the method.
LEMMA BaseTold ==
    ASSUME NEW m \in EndpointMethods, NEW n \in EndpointMethods,
           m.url_base[1] = n.url_base[1], m.url_base[2] = n.url_base[2],
           m.url_base[3] = n.url_base[3]
    PROVE  m.url_base = n.url_base /\ (SameSight(m, n) => m.method_key = n.method_key)
<1>1. CASE m \in Account_v1
  BY <1>1, MethodsAre, Account_v1_Looks, Account_v1_Told DEF HasKey, Told
<1>2. CASE m \in Champion_Mastery_v4
  BY <1>2, MethodsAre, Champion_Mastery_v4_Looks, Champion_Mastery_v4_Told DEF HasKey, Told
<1>3. CASE m \in Champion_v3
  BY <1>3, MethodsAre, Champion_v3_Looks, Champion_v3_Told DEF HasKey, Told
<1>4. CASE m \in Clash_v1
  BY <1>4, MethodsAre, Clash_v1_Looks, Clash_v1_Told DEF HasKey, Told
<1>5. CASE m \in League_exp_v4
  BY <1>5, MethodsAre, League_exp_v4_Looks, League_exp_v4_Told DEF HasKey, Told
<1>6. CASE m \in League_v4
  BY <1>6, MethodsAre, League_v4_Looks, League_v4_Told DEF HasKey, Told
<1>7. CASE m \in Lol_Challenges_v1
  BY <1>7, MethodsAre, Lol_Challenges_v1_Looks, Lol_Challenges_v1_Told DEF HasKey, Told
<1>8. CASE m \in Lol_Status_v4
  BY <1>8, MethodsAre, Lol_Status_v4_Looks, Lol_Status_v4_Told DEF HasKey, Told
<1>9. CASE m \in Lor_Match_v1
  BY <1>9, MethodsAre, Lor_Match_v1_Looks, Lor_Match_v1_Told DEF HasKey, Told
<1>10. CASE m \in Lor_Ranked_v1
  BY <1>10, MethodsAre, Lor_Ranked_v1_Looks, Lor_Ranked_v1_Told DEF HasKey, Told
<1>11. CASE m \in Lor_Status_v1
  BY <1>11, MethodsAre, Lor_Status_v1_Looks, Lor_Status_v1_Told DEF HasKey, Told
<1>12. CASE m \in Match_v5
  BY <1>12, MethodsAre, Match_v5_Looks, Match_v5_Told DEF HasKey, Told
<1>13. CASE m \in Spectator_Tft_v5
  BY <1>13, MethodsAre, Spectator_Tft_v5_Looks, Spectator_Tft_v5_Told DEF HasKey, Told
<1>14. CASE m \in Spectator_v5
  BY <1>14, MethodsAre, Spectator_v5_Looks, Spectator_v5_Told DEF HasKey, Told
<1>15. CASE m \in Summoner_v4
  BY <1>15, MethodsAre, Summoner_v4_Looks, Summoner_v4_Told DEF HasKey, Told
<1>16. CASE m \in Tft_League_v1
  BY <1>16, MethodsAre, Tft_League_v1_Looks, Tft_League_v1_Told DEF HasKey, Told
<1>17. CASE m \in Tft_Match_v1
  BY <1>17, MethodsAre, Tft_Match_v1_Looks, Tft_Match_v1_Told DEF HasKey, Told
<1>18. CASE m \in Tft_Status_v1
  BY <1>18, MethodsAre, Tft_Status_v1_Looks, Tft_Status_v1_Told DEF HasKey, Told
<1>19. CASE m \in Tft_Summoner_v1
  BY <1>19, MethodsAre, Tft_Summoner_v1_Looks, Tft_Summoner_v1_Told DEF HasKey, Told
<1>20. CASE m \in Val_Content_v1
  BY <1>20, MethodsAre, Val_Content_v1_Looks, Val_Content_v1_Told DEF HasKey, Told
<1>21. CASE m \in Val_Match_v1
  BY <1>21, MethodsAre, Val_Match_v1_Looks, Val_Match_v1_Told DEF HasKey, Told
<1>22. CASE m \in Val_Ranked_v1
  BY <1>22, MethodsAre, Val_Ranked_v1_Looks, Val_Ranked_v1_Told DEF HasKey, Told
<1>23. CASE m \in Val_Status_v1
  BY <1>23, MethodsAre, Val_Status_v1_Looks, Val_Status_v1_Told DEF HasKey, Told
<1> QED BY <1>1, <1>2, <1>3, <1>4, <1>5, <1>6, <1>7, <1>8, <1>9, <1>10, <1>11, <1>12, <1>13,
          <1>14, <1>15, <1>16, <1>17, <1>18, <1>19, <1>20, <1>21, <1>22, <1>23 DEF EndpointMethods

\* A key is one method's.
LEMMA KeyTold ==
    ASSUME NEW m \in EndpointMethods, NEW n \in EndpointMethods, m.method_key = n.method_key
    PROVE  m = n
<1>1. CASE m \in Account_v1
  BY <1>1, MethodsAre, Account_v1_Looks, Account_v1_Told DEF HasKey, Told
<1>2. CASE m \in Champion_Mastery_v4
  BY <1>2, MethodsAre, Champion_Mastery_v4_Looks, Champion_Mastery_v4_Told DEF HasKey, Told
<1>3. CASE m \in Champion_v3
  BY <1>3, MethodsAre, Champion_v3_Looks, Champion_v3_Told DEF HasKey, Told
<1>4. CASE m \in Clash_v1
  BY <1>4, MethodsAre, Clash_v1_Looks, Clash_v1_Told DEF HasKey, Told
<1>5. CASE m \in League_exp_v4
  BY <1>5, MethodsAre, League_exp_v4_Looks, League_exp_v4_Told DEF HasKey, Told
<1>6. CASE m \in League_v4
  BY <1>6, MethodsAre, League_v4_Looks, League_v4_Told DEF HasKey, Told
<1>7. CASE m \in Lol_Challenges_v1
  BY <1>7, MethodsAre, Lol_Challenges_v1_Looks, Lol_Challenges_v1_Told DEF HasKey, Told
<1>8. CASE m \in Lol_Status_v4
  BY <1>8, MethodsAre, Lol_Status_v4_Looks, Lol_Status_v4_Told DEF HasKey, Told
<1>9. CASE m \in Lor_Match_v1
  BY <1>9, MethodsAre, Lor_Match_v1_Looks, Lor_Match_v1_Told DEF HasKey, Told
<1>10. CASE m \in Lor_Ranked_v1
  BY <1>10, MethodsAre, Lor_Ranked_v1_Looks, Lor_Ranked_v1_Told DEF HasKey, Told
<1>11. CASE m \in Lor_Status_v1
  BY <1>11, MethodsAre, Lor_Status_v1_Looks, Lor_Status_v1_Told DEF HasKey, Told
<1>12. CASE m \in Match_v5
  BY <1>12, MethodsAre, Match_v5_Looks, Match_v5_Told DEF HasKey, Told
<1>13. CASE m \in Spectator_Tft_v5
  BY <1>13, MethodsAre, Spectator_Tft_v5_Looks, Spectator_Tft_v5_Told DEF HasKey, Told
<1>14. CASE m \in Spectator_v5
  BY <1>14, MethodsAre, Spectator_v5_Looks, Spectator_v5_Told DEF HasKey, Told
<1>15. CASE m \in Summoner_v4
  BY <1>15, MethodsAre, Summoner_v4_Looks, Summoner_v4_Told DEF HasKey, Told
<1>16. CASE m \in Tft_League_v1
  BY <1>16, MethodsAre, Tft_League_v1_Looks, Tft_League_v1_Told DEF HasKey, Told
<1>17. CASE m \in Tft_Match_v1
  BY <1>17, MethodsAre, Tft_Match_v1_Looks, Tft_Match_v1_Told DEF HasKey, Told
<1>18. CASE m \in Tft_Status_v1
  BY <1>18, MethodsAre, Tft_Status_v1_Looks, Tft_Status_v1_Told DEF HasKey, Told
<1>19. CASE m \in Tft_Summoner_v1
  BY <1>19, MethodsAre, Tft_Summoner_v1_Looks, Tft_Summoner_v1_Told DEF HasKey, Told
<1>20. CASE m \in Val_Content_v1
  BY <1>20, MethodsAre, Val_Content_v1_Looks, Val_Content_v1_Told DEF HasKey, Told
<1>21. CASE m \in Val_Match_v1
  BY <1>21, MethodsAre, Val_Match_v1_Looks, Val_Match_v1_Told DEF HasKey, Told
<1>22. CASE m \in Val_Ranked_v1
  BY <1>22, MethodsAre, Val_Ranked_v1_Looks, Val_Ranked_v1_Told DEF HasKey, Told
<1>23. CASE m \in Val_Status_v1
  BY <1>23, MethodsAre, Val_Status_v1_Looks, Val_Status_v1_Told DEF HasKey, Told
<1> QED BY <1>1, <1>2, <1>3, <1>4, <1>5, <1>6, <1>7, <1>8, <1>9, <1>10, <1>11, <1>12, <1>13,
          <1>14, <1>15, <1>16, <1>17, <1>18, <1>19, <1>20, <1>21, <1>22, <1>23 DEF EndpointMethods

-----------------------------------------------------------------------------
(* From the fields of a path to its method. *)

LEMMA MoreWords ==
    ASSUME NEW A, NEW B, A \subseteq B
    PROVE  Seq(A) \subseteq Seq(B)
<1> SUFFICES ASSUME NEW s \in Seq(A) PROVE s \in Seq(B)
  OBVIOUS
<1> QED OBVIOUS

\* Named segments are fields, and none contains a slash.
LEMMA NamedIs ==
    ASSUME NEW W, "/" \notin W, NEW s \in Seq(W), NEW T, \A w \in W : Token(w) \in T
    PROVE  /\ Named(s) \in Seq(Plain(T))
           /\ Len(Named(s)) = Len(s)
           /\ \A i \in 1 .. Len(s) : Named(s)[i] = <<Token(s[i])>>
<1>1. ASSUME NEW w \in W PROVE <<Token(w)>> \in Plain(T)
  <2>1. Token(w) \in T /\ Token(w) # Slash
    BY DEF Token, Slash
  <2> DEFINE x == <<Token(w)>>
  <2>2. x \in Seq(T) /\ DOMAIN x = {1} /\ x[1] = Token(w)
    <3> HIDE DEF Token
    <3> QED BY <2>1
  <2> HIDE DEF x
  <2>3. x \in Plain(T)
    BY <2>1, <2>2 DEF Plain
  <2> QED BY <2>3 DEF x
<1>2. \A i \in 1 .. Len(s) : s[i] \in W
  OBVIOUS
<1>3. Named(s) = [i \in 1 .. Len(s) |-> <<Token(s[i])>>]
  BY DEF Named
<1>4. Len(s) \in Nat
  OBVIOUS
<1> DEFINE P == Plain(T)
           N == [i \in 1 .. Len(s) |-> <<Token(s[i])>>]
<1>5. \A i \in 1 .. Len(s) : <<Token(s[i])>> \in P
  BY <1>1, <1>2
<1>6. N \in Seq(P) /\ Len(N) = Len(s) /\ \A i \in 1 .. Len(s) : N[i] = <<Token(s[i])>>
  <2> HIDE DEF P
  <2> QED BY <1>4, <1>5
<1> HIDE DEF N
<1> QED BY <1>3, <1>6 DEF N

\* An argument is one field, whatever it contains.
LEMMA EncodedPlain ==
    ASSUME NEW text, NEW T, Encoded(text) \in T
    PROVE  UrlEncode(text) \in Plain(T)
<1>1. "/" \in DOMAIN Percent
  BY PercentIs
<1> QED BY <1>1, UrlEncoded DEF Plain, Slash

LEMMA Grown ==
    ASSUME NEW P, NEW g \in Seq(P), NEW h \in Seq(P), NEW r, r = g \o h
    PROVE  /\ r \in Seq(P)
           /\ Len(r) = Len(g) + Len(h)
           /\ Len(g) >= 1 => r[1] = g[1]
           /\ Len(g) = 0 /\ Len(h) >= 1 => r[1] = h[1]
<1>1. /\ g \o h \in Seq(P) /\ Len(g \o h) = Len(g) + Len(h)
      /\ \A i \in 1 .. Len(g) : (g \o h)[i] = g[i]
      /\ \A i \in 1 .. Len(h) : (g \o h)[Len(g) + i] = h[i]
  BY Joined
<1>2. Len(g) \in Nat /\ Len(h) \in Nat
  OBVIOUS
<1>3. Len(g) >= 1 => r[1] = g[1]
  BY <1>1, <1>2
<1>4. ASSUME Len(g) = 0, Len(h) >= 1 PROVE r[1] = h[1]
  <2>1. 1 \in 1 .. Len(h) /\ Len(g) + 1 = 1
    BY <1>2, <1>4
  <2> QED BY <1>1, <2>1
<1> QED BY <1>1, <1>3, <1>4

PartLength(ss, i) == IF i \in DOMAIN ss THEN Len(ss[i]) ELSE 0

\* At most three parts, none of them empty.
ThreeParts(P) == {ss \in Seq(Seq(P)) : Len(ss) <= 3 /\ \A i \in 1 .. Len(ss) : Len(ss[i]) >= 1}

\* What is flattened begins with its first part, and is as long as its parts are together.
LEMMA ThreeFlattened ==
    ASSUME NEW P, NEW ss \in ThreeParts(P)
    PROVE  /\ FlattenSeq(ss) \in Seq(P)
           /\ Len(FlattenSeq(ss)) = PartLength(ss, 1) + PartLength(ss, 2) + PartLength(ss, 3)
           /\ ss # <<>> => Len(FlattenSeq(ss)) >= 1 /\ FlattenSeq(ss)[1] = ss[1][1]
<1>1. PICK f \in [0 .. Len(ss) -> Seq(P)] :
           /\ f[0] = <<>>
           /\ \A i \in 1 .. Len(ss) : f[i] = f[i - 1] \o ss[i]
           /\ FlattenSeq(ss) = f[Len(ss)]
  <2>1. ss \in Seq(Seq(P))
    BY DEF ThreeParts
  <2> QED BY <2>1, FlattenSteps
<1>2. Len(ss) \in 0 .. 3 /\ DOMAIN ss = 1 .. Len(ss) /\ (ss # <<>> <=> Len(ss) > 0)
  <2>1. Len(ss) \in 0 .. 3 /\ DOMAIN ss = 1 .. Len(ss)
    <3>1. Len(ss) <= 3
      BY DEF ThreeParts
    <3>2. ss \in Seq(Seq(P))
      BY DEF ThreeParts
    <3>3. Len(ss) \in Nat /\ DOMAIN ss = 1 .. Len(ss)
      BY <3>2, LenProperties
    <3> QED BY <3>1, <3>3
  <2>2. ss # <<>> <=> Len(ss) # 0
    BY EmptySeq DEF ThreeParts
  <2> QED BY <2>1, <2>2
<1>3. \A i \in 1 .. Len(ss) : ss[i] \in Seq(P) /\ Len(ss[i]) \in Nat /\ Len(ss[i]) >= 1
  <2>1. \A i \in 1 .. Len(ss) : ss[i] \in Seq(P) /\ Len(ss[i]) >= 1
    BY DEF ThreeParts
  <2> QED BY <2>1
<1> DEFINE n == Len(ss)
           L(i) == Len(ss[i])
           A(i) == Len(f[i])
<1>4. f[0] \in Seq(P) /\ A(0) = 0
  BY <1>1, <1>2
<1>5. \A i \in 1 .. n : L(i) \in Nat /\ L(i) >= 1
  BY <1>3
<1>6. ASSUME NEW i \in 1 .. n
      PROVE  /\ f[i] \in Seq(P) /\ A(i) = A(i - 1) + L(i)
             /\ A(i - 1) >= 1 => f[i][1] = f[i - 1][1]
             /\ A(i - 1) = 0 => f[i][1] = ss[i][1]
  <2> DEFINE g == f[i - 1]
             h == ss[i]
             r == f[i]
  <2>1. g \in Seq(P) /\ h \in Seq(P) /\ r = g \o h /\ Len(h) >= 1
    <3>1. i - 1 \in 0 .. Len(ss)
      BY <1>2
    <3> QED BY <1>1, <1>3, <3>1
  <2> HIDE DEF g, h, r
  <2>2. /\ r \in Seq(P)
        /\ Len(r) = Len(g) + Len(h)
        /\ Len(g) >= 1 => r[1] = g[1]
        /\ Len(g) = 0 /\ Len(h) >= 1 => r[1] = h[1]
    BY <2>1, Grown
  <2> QED BY <2>1, <2>2 DEF g, h, r
<1>7. n \in 0 .. 3
  BY <1>2
<1>8. ss # <<>> <=> n > 0
  BY <1>2
<1>9. \A i \in 1 .. 3 : PartLength(ss, i) = IF i <= n THEN L(i) ELSE 0
  BY <1>2 DEF PartLength
<1> HIDE DEF n, L, A
<1>10. n >= 1 => f[1] \in Seq(P) /\ A(1) = L(1) /\ f[1][1] = ss[1][1]
  <2>1. SUFFICES ASSUME 1 \in 1 .. n PROVE f[1] \in Seq(P) /\ A(1) = L(1) /\ f[1][1] = ss[1][1]
    BY <1>7
  <2>2. 1 - 1 = 0
    OBVIOUS
  <2>3. f[1] \in Seq(P) /\ A(1) = A(0) + L(1) /\ (A(0) = 0 => f[1][1] = ss[1][1])
    BY <1>6, <2>1, <2>2
  <2> QED BY <1>4, <1>5, <2>1, <2>3
<1>11. n >= 2 => f[2] \in Seq(P) /\ A(2) = L(1) + L(2) /\ f[2][1] = ss[1][1]
  <2>1. SUFFICES ASSUME 2 \in 1 .. n
                 PROVE f[2] \in Seq(P) /\ A(2) = L(1) + L(2) /\ f[2][1] = ss[1][1]
    BY <1>7
  <2>2. 2 - 1 = 1 /\ n >= 1 /\ 1 \in 1 .. n
    BY <1>7, <2>1
  <2>3. f[2] \in Seq(P) /\ A(2) = A(1) + L(2) /\ (A(1) >= 1 => f[2][1] = f[1][1])
    BY <1>6, <2>1, <2>2
  <2> QED BY <1>5, <1>10, <2>2, <2>3
<1>12. n >= 3 => f[3] \in Seq(P) /\ A(3) = L(1) + L(2) + L(3) /\ f[3][1] = ss[1][1]
  <2>1. SUFFICES ASSUME 3 \in 1 .. n
                 PROVE f[3] \in Seq(P) /\ A(3) = L(1) + L(2) + L(3) /\ f[3][1] = ss[1][1]
    BY <1>7
  <2>2. 3 - 1 = 2 /\ n >= 2 /\ 1 \in 1 .. n /\ 2 \in 1 .. n
    BY <1>7, <2>1
  <2>3. f[3] \in Seq(P) /\ A(3) = A(2) + L(3) /\ (A(2) >= 1 => f[3][1] = f[2][1])
    BY <1>6, <2>1, <2>2
  <2>4. A(2) >= 1
    BY <1>5, <1>11, <2>2
  <2> QED BY <1>11, <2>2, <2>3, <2>4
<1>13. /\ f[n] \in Seq(P)
       /\ A(n) = PartLength(ss, 1) + PartLength(ss, 2) + PartLength(ss, 3)
       /\ n > 0 => A(n) >= 1 /\ f[n][1] = ss[1][1]
  <2>1. CASE n = 0
    BY <1>4, <1>9, <2>1
  <2>2. CASE n = 1
    BY <1>5, <1>9, <1>10, <2>2
  <2>3. CASE n = 2
    BY <1>5, <1>9, <1>11, <2>3
  <2>4. CASE n = 3
    BY <1>5, <1>9, <1>12, <2>4
  <2> QED BY <1>7, <2>1, <2>2, <2>3, <2>4
<1> QED BY <1>1, <1>8, <1>13 DEF n, A

LEMMA ThreeJoined ==
    ASSUME NEW P, NEW a \in Seq(P), NEW b \in Seq(P), NEW c \in Seq(P), NEW F, F = (a \o b) \o c
    PROVE  /\ F \in Seq(P)
           /\ Len(F) = Len(a) + Len(b) + Len(c)
           /\ \A i \in 1 .. Len(a) : F[i] = a[i]
           /\ \A i \in 1 .. Len(b) : F[Len(a) + i] = b[i]
           /\ \A i \in 1 .. Len(c) : F[Len(a) + Len(b) + i] = c[i]
<1> DEFINE ab == a \o b
<1>1. /\ ab \in Seq(P) /\ Len(ab) = Len(a) + Len(b)
      /\ \A i \in 1 .. Len(a) : ab[i] = a[i]
      /\ \A i \in 1 .. Len(b) : ab[Len(a) + i] = b[i]
  BY Joined
<1> HIDE DEF ab
<1>2. ab \in Seq(P)
  BY <1>1
<1>3. /\ ab \o c \in Seq(P) /\ Len(ab \o c) = Len(ab) + Len(c)
      /\ \A i \in 1 .. Len(ab) : (ab \o c)[i] = ab[i]
      /\ \A i \in 1 .. Len(c) : (ab \o c)[Len(ab) + i] = c[i]
  BY <1>2, Joined
<1>4. F = ab \o c /\ Len(a) \in Nat /\ Len(b) \in Nat
  BY DEF ab
<1>5. \A i \in 1 .. Len(a) : F[i] = a[i]
  <2>1. \A i \in 1 .. Len(a) : i \in 1 .. Len(ab)
    BY <1>1, <1>4
  <2> QED BY <1>1, <1>3, <1>4, <2>1
<1>6. \A i \in 1 .. Len(b) : F[Len(a) + i] = b[i]
  <2>1. \A i \in 1 .. Len(b) : Len(a) + i \in 1 .. Len(ab)
    BY <1>1, <1>4
  <2> QED BY <1>1, <1>3, <1>4, <2>1
<1>7. \A i \in 1 .. Len(c) : F[Len(a) + Len(b) + i] = c[i]
  BY <1>1, <1>3, <1>4
<1> QED BY <1>1, <1>3, <1>4, <1>5, <1>6, <1>7

\* Segments are drawn from W, and what stands for them and for args in a path from T.
Drawn(W, T, m, args) ==
    /\ "/" \notin W /\ \A w \in W : Token(w) \in T
    /\ m.url_base \in Seq(W) /\ m.url_fragments \in Seq(Seq(W)) /\ m.additional_frag \in Seq(W)
    /\ Len(m.url_fragments) <= 3
    /\ IF m.url_fragments = <<>> THEN m.additional_frag # <<>> ELSE m.url_fragments[1] # <<>>
    /\ DOMAIN args = DOMAIN m.url_fragments
    /\ \A i \in DOMAIN args : Encoded(args[i]) \in T

PartsOf(m, args) ==
    [i \in DOMAIN args |-> Named(m.url_fragments[i]) \o <<UrlEncode(args[i])>>]

\* Each fragment and its argument are as many fields as FragmentLength says.
LEMMA PartsAre ==
    ASSUME NEW W, NEW T, NEW m, NEW args, Drawn(W, T, m, args)
    PROVE  /\ PartsOf(m, args) \in ThreeParts(Plain(T))
           /\ PartsOf(m, args) # <<>> <=> m.url_fragments # <<>>
           /\ \A i \in 1 .. 3 : PartLength(PartsOf(m, args), i) = FragmentLength(m.url_fragments, i)
           /\ m.url_fragments # <<>> =>
                 PartsOf(m, args)[1][1] = <<Token(m.url_fragments[1][1])>>
<1> DEFINE fr == m.url_fragments
           n == Len(fr)
           P == Plain(T)
           ss == PartsOf(m, args)
<1>1. fr \in Seq(Seq(W)) /\ n <= 3
  BY DEF Drawn
<1>2. n \in 0 .. 3 /\ DOMAIN fr = 1 .. n /\ (fr # <<>> <=> n > 0)
  <2>1. fr \in Seq(Seq(W))
    BY <1>1
  <2> HIDE DEF fr
  <2>2. Len(fr) \in Nat /\ DOMAIN fr = 1 .. Len(fr)
    BY <2>1, LenProperties
  <2>3. fr # <<>> <=> Len(fr) # 0
    BY <2>1, EmptySeq
  <2>4. n <= 3
    BY <1>1
  <2> QED BY <2>2, <2>3, <2>4
<1>3. \A i \in 1 .. n : fr[i] \in Seq(W)
  <2>1. fr \in Seq(Seq(W))
    BY <1>1
  <2> HIDE DEF fr
  <2> QED BY <2>1
<1>4. DOMAIN args = 1 .. n /\ \A i \in 1 .. n : UrlEncode(args[i]) \in P
  <2>1. DOMAIN args = 1 .. n
    BY <1>2 DEF Drawn
  <2>2. \A i \in 1 .. n : Encoded(args[i]) \in T
    BY <2>1 DEF Drawn
  <2> QED BY <2>1, <2>2, EncodedPlain
<1>5. "/" \notin W /\ \A w \in W : Token(w) \in T
  BY DEF Drawn
<1>6. ss = [i \in 1 .. n |-> Named(fr[i]) \o <<UrlEncode(args[i])>>]
  BY <1>4 DEF PartsOf
<1>7. n > 0 => fr[1] # <<>>
  BY <1>2 DEF Drawn
<1> HIDE DEF fr, n, P, ss
<1>8. ASSUME NEW i \in 1 .. n
      PROVE  /\ ss[i] \in Seq(P) /\ Len(ss[i]) = Len(fr[i]) + 1 /\ Len(fr[i]) \in Nat
             /\ \A j \in 1 .. Len(fr[i]) : ss[i][j] = <<Token(fr[i][j])>>
  <2> DEFINE e == UrlEncode(args[i])
             s == fr[i]
             g == Named(s)
             h == <<e>>
             r == ss[i]
  <2>1. e \in P /\ s \in Seq(W)
    BY <1>3, <1>4
  <2>2. r = g \o h
    BY <1>6
  <2>3. h \in Seq(P) /\ Len(h) = 1
    <3> HIDE DEF e
    <3> QED BY <2>1
  <2> HIDE DEF s, e
  <2>4. g \in Seq(P) /\ Len(g) = Len(s) /\ \A j \in 1 .. Len(s) : g[j] = <<Token(s[j])>>
    BY <1>5, <2>1, NamedIs DEF P
  <2>5. Len(s) \in Nat
    BY <2>1
  <2> HIDE DEF g, h, r
  <2>6. g \in Seq(P) /\ h \in Seq(P)
    BY <2>3, <2>4
  <2>7. /\ g \o h \in Seq(P) /\ Len(g \o h) = Len(g) + Len(h)
        /\ \A j \in 1 .. Len(g) : (g \o h)[j] = g[j]
    BY <2>6, Joined
  <2>8. /\ r \in Seq(P) /\ Len(r) = Len(s) + 1 /\ Len(s) \in Nat
        /\ \A j \in 1 .. Len(s) : r[j] = <<Token(s[j])>>
    BY <2>2, <2>3, <2>4, <2>5, <2>7
  <2> QED BY <2>8 DEF r, s
<1>9. DOMAIN ss = 1 .. n /\ Len(ss) = n
  BY <1>2, <1>6
<1>10. ss \in Seq(Seq(P))
  <2> DEFINE S == Seq(P)
             r(i) == Named(fr[i]) \o <<UrlEncode(args[i])>>
  <2>1. \A i \in 1 .. n : r(i) \in S
    BY <1>6, <1>8
  <2>2. ss = [i \in 1 .. n |-> r(i)] /\ n \in Nat
    BY <1>2, <1>6
  <2> HIDE DEF S, r
  <2>3. ss \in Seq(S)
    BY <2>1, <2>2
  <2> QED BY <2>3 DEF S
<1>11. ss \in ThreeParts(P)
  <2>1. Len(ss) <= 3 /\ \A i \in 1 .. Len(ss) : Len(ss[i]) >= 1
    BY <1>2, <1>8, <1>9
  <2> QED BY <1>10, <2>1 DEF ThreeParts
<1>12. ss # <<>> <=> fr # <<>>
  <2>1. ss # <<>> <=> Len(ss) # 0
    BY <1>10, EmptySeq
  <2> QED BY <1>2, <1>9, <2>1
<1>13. \A i \in 1 .. 3 : PartLength(ss, i) = FragmentLength(fr, i)
  BY <1>2, <1>8, <1>9 DEF PartLength, FragmentLength
<1>14. fr # <<>> => ss[1][1] = <<Token(fr[1][1])>>
  <2>1. SUFFICES ASSUME fr # <<>> PROVE ss[1][1] = <<Token(fr[1][1])>>
    OBVIOUS
  <2>2. 1 \in 1 .. n /\ fr[1] # <<>>
    BY <1>2, <1>7, <2>1
  <2>3. Len(fr[1]) # 0
    <3>1. fr[1] \in Seq(W)
      BY <1>3, <2>2
    <3> QED BY <2>2, <3>1, EmptySeq
  <2>4. Len(fr[1]) \in Nat /\ \A j \in 1 .. Len(fr[1]) : ss[1][j] = <<Token(fr[1][j])>>
    BY <1>8, <2>2
  <2>5. 1 \in 1 .. Len(fr[1])
    BY <2>3, <2>4
  <2> QED BY <2>4, <2>5
<1> QED BY <1>11, <1>12, <1>13, <1>14 DEF ss, fr, P

\* What of its method the fields F of a path show.
Shows(F, T, m) ==
    /\ F \in Seq(Plain(T)) /\ Len(m.url_base) \in Nat
    /\ Count(m.url_fragments, m.additional_frag) \in Nat
    /\ Len(F) = Len(m.url_base) + Count(m.url_fragments, m.additional_frag)
    /\ \A i \in 1 .. Len(m.url_base) : F[i] = <<Token(m.url_base[i])>>
    /\ F[Len(m.url_base) + 1] = <<Token(First(m.url_fragments, m.additional_frag))>>
    /\ m.additional_frag # <<>> => Last(F) = <<Token(Last(m.additional_frag))>>

\* The fields of a path.
LEMMA FieldsAre ==
    ASSUME NEW W, NEW T, NEW m, NEW args, Drawn(W, T, m, args),
           NEW F, F = Fields(m, args)
    PROVE  Shows(F, T, m)
<1> DEFINE P == Plain(T)
           base == m.url_base
           add == m.additional_frag
           fr == m.url_fragments
           front == Named(base)
           mid == FlattenSeq(PartsOf(m, args))
           back == Named(add)
           part(i) == FragmentLength(fr, i)
<1>1. base \in Seq(W) /\ add \in Seq(W)
  BY DEF Drawn
<1>2. "/" \notin W /\ \A w \in W : Token(w) \in T
  BY DEF Drawn
<1>3. fr = <<>> => add # <<>>
  BY DEF Drawn
<1>4. F = (front \o mid) \o back
  BY DEF Fields, PartsOf
<1>5. /\ mid \in Seq(P)
      /\ Len(mid) = part(1) + part(2) + part(3)
      /\ fr # <<>> => Len(mid) >= 1 /\ mid[1] = <<Token(fr[1][1])>>
  <2> DEFINE ss == PartsOf(m, args)
  <2>1. /\ ss \in ThreeParts(P) /\ (ss # <<>> <=> fr # <<>>)
        /\ \A i \in 1 .. 3 : PartLength(ss, i) = part(i)
        /\ fr # <<>> => ss[1][1] = <<Token(fr[1][1])>>
    BY PartsAre
  <2> HIDE DEF ss, P, fr, part
  <2>2. /\ FlattenSeq(ss) \in Seq(P)
        /\ Len(FlattenSeq(ss)) = PartLength(ss, 1) + PartLength(ss, 2) + PartLength(ss, 3)
        /\ ss # <<>> => Len(FlattenSeq(ss)) >= 1 /\ FlattenSeq(ss)[1] = ss[1][1]
    BY <2>1, ThreeFlattened
  <2>3. FlattenSeq(ss) = mid
    BY DEF ss
  <2> QED BY <2>1, <2>2, <2>3
<1>6. Count(fr, add) = part(1) + part(2) + part(3) + Len(add)
  BY DEF Count
<1>7. First(fr, add) = IF fr = <<>> THEN add[1] ELSE fr[1][1]
  BY DEF First
<1>8. fr = <<>> => Len(mid) = 0
  <2>1. fr = <<>> => part(1) = 0 /\ part(2) = 0 /\ part(3) = 0
    <3> HIDE DEF fr
    <3> QED BY DEF FragmentLength
  <2> QED BY <1>5, <2>1
<1> HIDE DEF P, base, add, fr, mid, part
<1>9. /\ front \in Seq(P) /\ Len(front) = Len(base)
      /\ \A i \in 1 .. Len(base) : front[i] = <<Token(base[i])>>
  BY <1>1, <1>2, NamedIs DEF P
<1>10. /\ back \in Seq(P) /\ Len(back) = Len(add)
       /\ \A i \in 1 .. Len(add) : back[i] = <<Token(add[i])>>
  BY <1>1, <1>2, NamedIs DEF P
<1>11. Len(base) \in Nat /\ Len(add) \in Nat /\ Len(mid) \in Nat /\ (add # <<>> => Len(add) # 0)
  <2>1. mid \in Seq(P)
    BY <1>5
  <2>2. add # <<>> => Len(add) # 0
    BY <1>1, EmptySeq
  <2> QED BY <1>1, <2>1, <2>2, LenProperties
<1> HIDE DEF front, back
<1>12. /\ F \in Seq(P)
       /\ Len(F) = Len(front) + Len(mid) + Len(back)
       /\ \A i \in 1 .. Len(front) : F[i] = front[i]
       /\ \A i \in 1 .. Len(mid) : F[Len(front) + i] = mid[i]
       /\ \A i \in 1 .. Len(back) : F[Len(front) + Len(mid) + i] = back[i]
  <2>1. front \in Seq(P) /\ mid \in Seq(P) /\ back \in Seq(P)
    BY <1>5, <1>9, <1>10
  <2> QED BY <1>4, <2>1, ThreeJoined
<1> DEFINE b == Len(base)
           l == Len(add)
           k == Len(mid)
<1>13. b \in Nat /\ l \in Nat /\ k \in Nat /\ (add # <<>> => l # 0)
  BY <1>11
<1>14. Len(F) = b + k + l /\ k = part(1) + part(2) + part(3)
  BY <1>5, <1>9, <1>10, <1>12
<1>15. \A i \in 1 .. b : F[i] = <<Token(base[i])>>
  BY <1>9, <1>12
<1>16. \A i \in 1 .. k : F[b + i] = mid[i]
  BY <1>9, <1>12
<1>17. \A i \in 1 .. l : F[b + k + i] = <<Token(add[i])>>
  BY <1>9, <1>10, <1>12
<1>18. fr # <<>> => k >= 1 /\ mid[1] = <<Token(fr[1][1])>>
  BY <1>5
<1>19. fr = <<>> => k = 0
  BY <1>8
<1> HIDE DEF b, l, k
<1>20. F[b + 1] = <<Token(First(fr, add))>>
  <2>1. CASE fr # <<>>
    <3>1. 1 \in 1 .. k
      BY <1>13, <1>18, <2>1
    <3>2. F[b + 1] = mid[1]
      BY <1>16, <3>1
    <3> QED BY <1>7, <1>18, <2>1, <3>2
  <2>2. CASE fr = <<>>
    <3>1. 1 \in 1 .. l /\ b + k + 1 = b + 1
      BY <1>3, <1>13, <1>19, <2>2
    <3>2. F[b + k + 1] = <<Token(add[1])>>
      BY <1>17, <3>1
    <3> QED BY <1>7, <2>2, <3>1, <3>2
  <2> QED BY <2>1, <2>2
<1>21. add # <<>> => Last(F) = <<Token(Last(add))>>
  <2>1. SUFFICES ASSUME add # <<>> PROVE Last(F) = <<Token(Last(add))>>
    OBVIOUS
  <2>2. l \in 1 .. l
    BY <1>13, <2>1
  <2>3. F[b + k + l] = <<Token(add[l])>>
    BY <1>17, <2>2
  <2> QED BY <1>14, <2>3 DEF Last, l
<1>22. Len(F) = b + Count(fr, add) /\ Count(fr, add) \in Nat
  <2>1. Count(fr, add) = k + l
    BY <1>6, <1>14 DEF l
  <2> QED BY <1>13, <1>14, <2>1
<1> QED BY <1>12, <1>13, <1>15, <1>20, <1>21, <1>22 DEF Shows, P, base, add, fr, b

\* There are such words and tokens.
LEMMA Draws ==
    ASSUME NEW m, WellFormed(m), NEW args, DOMAIN args = DOMAIN m.url_fragments
    PROVE  \E W, T : Drawn(W, T, m, args)
<1>1. PICK V : "/" \notin V /\ m.url_base \in Seq(V)
  BY DEF WellFormed, LeadsWith
<1>2. PICK U :
         /\ "/" \notin U
         /\ m.url_fragments \in Seq(Seq(U)) /\ Len(m.url_fragments) <= 3
         /\ m.additional_frag \in Seq(U)
         /\ IF m.url_fragments = <<>> THEN m.additional_frag # <<>> ELSE m.url_fragments[1] # <<>>
  BY DEF WellFormed, Written
<1> DEFINE W == U \cup V
           T == {Token(w) : w \in W} \cup {Encoded(args[i]) : i \in DOMAIN args}
<1>3. "/" \notin W /\ U \subseteq W /\ V \subseteq W
  BY <1>1, <1>2
<1>4. (\A w \in W : Token(w) \in T) /\ \A i \in DOMAIN args : Encoded(args[i]) \in T
  OBVIOUS
<1> HIDE DEF W, T
<1>5. Seq(U) \subseteq Seq(W) /\ Seq(V) \subseteq Seq(W)
  BY <1>3, MoreWords
<1>6. Seq(Seq(U)) \subseteq Seq(Seq(W))
  BY <1>5, MoreWords
<1>7. /\ m.url_base \in Seq(W) /\ m.url_fragments \in Seq(Seq(W))
      /\ m.additional_frag \in Seq(W)
  BY <1>1, <1>2, <1>5, <1>6
<1>8. Drawn(W, T, m, args)
  BY <1>2, <1>3, <1>4, <1>7 DEF Drawn
<1> QED BY <1>8

LEMMA DrawnMore ==
    ASSUME NEW W, NEW T, NEW m, NEW args, Drawn(W, T, m, args), NEW U, T \subseteq U
    PROVE  Drawn(W, U, m, args)
BY DEF Drawn

\* A path tells the base of the method that has made it, and its key.
LEMMA PathTells ==
    ASSUME NEW c \in Calls, NEW d \in Calls,
           ConstructUrlPath(c.method, c.args) = ConstructUrlPath(d.method, d.args)
    PROVE  /\ c.method.url_base = d.method.url_base
           /\ c.method.method_key = d.method.method_key
<1> DEFINE m == c.method
           n == d.method
           F == Fields(m, c.args)
           H == Fields(n, d.args)
<1>1. /\ m \in EndpointMethods /\ n \in EndpointMethods
      /\ DOMAIN c.args = DOMAIN m.url_fragments /\ DOMAIN d.args = DOMAIN n.url_fragments
  BY CallsAssumption
<1>2. /\ WellFormed(m) /\ Len(m.url_base) >= 3
      /\ WellFormed(n) /\ Len(n.url_base) >= 3
  BY <1>1, MethodsWellFormed DEF WellFormed, LeadsWith
<1>3. PICK V, T : Drawn(V, T, m, c.args)
  BY <1>1, <1>2, Draws
<1>4. PICK W, U : Drawn(W, U, n, d.args)
  BY <1>1, <1>2, Draws
<1> DEFINE A == T \cup U \cup {Slash}
<1>5. Drawn(V, A, m, c.args) /\ Drawn(W, A, n, d.args) /\ Slash \in A
  BY <1>3, <1>4, DrawnMore
<1>6. Path(F) = Path(H)
  BY DEF ConstructUrlPath
<1> HIDE DEF A, m, n, F, H
<1>7. Shows(F, A, m)
  BY <1>5, FieldsAre DEF F
<1>8. Shows(H, A, n)
  BY <1>5, FieldsAre DEF H
<1>9. F = H
  BY <1>5, <1>6, <1>7, <1>8, PathNamesFields DEF Shows
<1>10. \A x, y : <<Token(x)>> = <<Token(y)>> => x = y
  BY DEF Token
<1>11. /\ m.url_base[1] = n.url_base[1] /\ m.url_base[2] = n.url_base[2]
       /\ m.url_base[3] = n.url_base[3]
  <2>1. 1 .. 3 \subseteq 1 .. Len(m.url_base) /\ 1 .. 3 \subseteq 1 .. Len(n.url_base)
    BY <1>2, <1>7, <1>8 DEF Shows, m, n
  <2>2. \A i \in 1 .. 3 : <<Token(m.url_base[i])>> = <<Token(n.url_base[i])>>
    BY <1>7, <1>8, <1>9, <2>1 DEF Shows
  <2> QED BY <1>10, <2>2
<1>12. m.url_base = n.url_base /\ (SameSight(m, n) => m.method_key = n.method_key)
  BY <1>1, <1>11, BaseTold DEF m, n
<1>13. Count(m.url_fragments, m.additional_frag) = Count(n.url_fragments, n.additional_frag)
  BY <1>7, <1>8, <1>9, <1>12 DEF Shows
<1>14. First(m.url_fragments, m.additional_frag) = First(n.url_fragments, n.additional_frag)
  BY <1>7, <1>8, <1>9, <1>10, <1>12 DEF Shows
<1>15. m.additional_frag # <<>> /\ n.additional_frag # <<>> =>
          Last(m.additional_frag) = Last(n.additional_frag)
  BY <1>7, <1>8, <1>9, <1>10 DEF Shows
<1> QED BY <1>12, <1>13, <1>14, <1>15 DEF SameSight, m, n
-----------------------------------------------------------------------------
(* The calls. *)

KindOf(c) == InferRoutingIndicator(c.method.url_base)

EInv ==
    /\ Called => last.call \in Calls /\ last.requests = Requests(last.call)
    /\ shown # NoCall => shown.routes = StrToRouting(shown.string)

LEMMA SpecEInv == Spec => []EInv
<1>1. Init => EInv
  BY DEF Init, EInv, Called
<1>2. EInv /\ [Next]_vars => EInv'
  BY DEF EInv, Called, Next, Call, WaitTimeBreakdown, Return, vars
<1> QED BY <1>1, <1>2, PTL DEF Spec

LEMMA CallsParse ==
    ASSUME NEW c
    PROVE  /\ KindOf(c) \in Kinds
           /\ Requests(c) =
                IF ValidOpts(c.method, c.opts)
                THEN {RequestTo(r, c) : r \in Parsed(c.string, KindOf(c))} ELSE {}
<1>1. KindOf(c) \in Kinds
  BY DEF KindOf, InferRoutingIndicator, Kinds
<1> QED BY <1>1 DEF Requests, StrToRoutingForIndicator, KindOf, Kinds

\* EndpointMethod::operator() sends requests to routes of its own kind only, and reaches
\* every shard of that kind by each of its names (TextsOf).
THEOREM RequestsKeepToTheirKind == Spec => []OwnKindOnly
<1>1. ASSUME EInv, Called PROVE OwnKindOnly
  <2> DEFINE c == last.call
  <2>1. last.requests = Requests(c) /\ Indicator = KindOf(c)
    BY <1>1 DEF EInv, Indicator, KindOf
  <2>2. \A r \in Parsed(c.string, KindOf(c)) : r.indicator = KindOf(c)
    BY CallsParse, OwnKindParsed
  <2>3. \A q \in last.requests : q.route.indicator = Indicator
    BY <2>1, <2>2, CallsParse DEF RequestTo
  <2>4. last.requests # {} <=> ValidOpts(c.method, c.opts) /\ Parsed(c.string, KindOf(c)) # {}
    BY <2>1, CallsParse
  <2>5. Parsed(c.string, KindOf(c)) # {} <=> c.string.text \in TextsOf(Indicator)
    BY <2>1, CallsParse, OwnKindParsed
  <2> QED BY <2>3, <2>4, <2>5 DEF OwnKindOnly
<1>2. EInv => OwnKindOnly
  BY <1>1 DEF OwnKindOnly
<1> QED BY <1>2, SpecEInv, PTL

\* The host asked and the limiter's slot are one route's, whatever string selected it.
THEOREM HostsNameRoutes == Spec => []HostNamesRoute
<1>1. ASSUME EInv, Called, NEW q \in last.requests
      PROVE  StrToRoutingForIndicator(q.host, Indicator) = {q.route}
  <2> DEFINE c == last.call
  <2>1. last.requests = Requests(c) /\ Indicator = KindOf(c)
    BY <1>1 DEF EInv, Indicator, KindOf
  <2>2. PICK r \in Parsed(c.string, KindOf(c)) : q = RequestTo(r, c)
    BY <1>1, <2>1, CallsParse
  <2>3. q.route = r /\ q.host = RoutingToHostStr(r)
    BY <2>2 DEF RequestTo
  <2>4. Parsed(q.host, KindOf(c)) = {q.route}
    BY <2>2, <2>3, CallsParse, HostParsed
  <2> QED BY <2>1, <2>4, CallsParse DEF StrToRoutingForIndicator, Kinds
<1>2. EInv => HostNamesRoute
  BY <1>1 DEF HostNamesRoute
<1> QED BY <1>2, SpecEInv, PTL

\* The wait that get_wait_time_breakdown shows for a string is that of the requests made
\* with it, but for Valorant's KR.
THEOREM BreakdownsAreOfTheCall == Spec => []BreakdownOfCalledRoute
<1>1. ASSUME EInv, Called, shown # NoCall, shown.string.text = last.call.string.text,
             NEW q \in last.requests, q.route # Route(VAL_PLATFORM, "KR")
      PROVE  shown.routes = {q.route}
  <2> DEFINE c == last.call
  <2>1. last.requests = Requests(c) /\ shown.routes = StrToRouting(shown.string)
    BY <1>1 DEF EInv
  <2>2. PICK r \in Parsed(c.string, KindOf(c)) : q = RequestTo(r, c)
    BY <1>1, <2>1, CallsParse
  <2>3. q.route = r
    BY <2>2 DEF RequestTo
  <2> QED BY <1>1, <2>1, <2>2, <2>3, CallsParse, OneKindParsed
<1>2. EInv => BreakdownOfCalledRoute
  BY <1>1 DEF BreakdownOfCalledRoute, Route
<1> QED BY <1>2, SpecEInv, PTL

LEMMA RouteIs ==
    ASSUME NEW s, NEW k, NEW r \in Parsed(s, k)
    PROVE  r = Route(k, r.value)
BY DEF Parsed, Route

\* construct_url_path encodes its arguments, and the table of endpoints has no two methods
\* that share a key or could share a path: what one host is asked for by one path is counted
\* by the limiter under one route and one method key, whatever the arguments contain.
THEOREM UrlsNameBuckets == Spec => []UrlNamesBucket
<1>1. ASSUME EInv, Called, NEW q \in last.requests, NEW other \in AllRequests,
             q.host = other.host, q.path = other.path
      PROVE  q.route = other.route /\ q.method_key = other.method_key
  <2> DEFINE c == last.call
  <2>1. last.requests = Requests(c) /\ c \in Calls
    BY <1>1 DEF EInv
  <2>2. PICK d \in Calls : other \in Requests(d)
    BY DEF AllRequests
  <2>3. PICK r \in Parsed(c.string, KindOf(c)) : q = RequestTo(r, c)
    BY <1>1, <2>1, CallsParse
  <2>4. PICK t \in Parsed(d.string, KindOf(d)) : other = RequestTo(t, d)
    BY <2>2, CallsParse
  <2>5. /\ q.route = r /\ q.method_key = c.method.method_key
        /\ q.host = RoutingToHostStr(r) /\ q.path = ConstructUrlPath(c.method, c.args)
    BY <2>3 DEF RequestTo
  <2>6. /\ other.route = t /\ other.method_key = d.method.method_key
        /\ other.host = RoutingToHostStr(t) /\ other.path = ConstructUrlPath(d.method, d.args)
    BY <2>4 DEF RequestTo
  <2> HIDE DEF c
  <2>7. c.method.url_base = d.method.url_base /\ c.method.method_key = d.method.method_key
    <3>1. ConstructUrlPath(c.method, c.args) = ConstructUrlPath(d.method, d.args)
      BY <1>1, <2>5, <2>6
    <3> QED BY <2>1, <3>1, PathTells
  <2>8. KindOf(c) = KindOf(d)
    BY <2>7 DEF KindOf
  <2>9. r.value = t.value
    <3>1. RoutingToHostStr(r) = RoutingToHostStr(t)
      BY <1>1, <2>5, <2>6
    <3>2. RoutingToHostStr(r).text = r.value /\ RoutingToHostStr(t).text = t.value
      BY DEF RoutingToHostStr
    <3> QED BY <3>1, <3>2
  <2>10. r = Route(KindOf(c), r.value) /\ t = Route(KindOf(d), t.value)
    BY RouteIs
  <2> QED BY <2>5, <2>6, <2>7, <2>8, <2>9, <2>10
<1>2. ASSUME EInv, Called, NEW m \in EndpointMethods, m.method_key = last.call.method.method_key
      PROVE  m = last.call.method
  <2>1. last.call.method \in EndpointMethods
    BY <1>2, CallsAssumption DEF EInv
  <2> QED BY <1>2, <2>1, KeyTold
<1>3. EInv => UrlNamesBucket
  BY <1>1, <1>2 DEF UrlNamesBucket
<1> QED BY <1>3, SpecEInv, PTL

\* EndpointMethod::operator() writes the parameters that have a key one behind the other,
\* "?" before the first and "&" before the others: read back at these, they are what the
\* user has given, whatever the values contain, and the method takes each of them.
THEOREM QueriesReadBack == Spec => []QueryReadBack
<1>1. ASSUME EInv, Called, NEW q \in last.requests
      PROVE  LET given == Kept(last.call.opts)
             IN  /\ \A o \in Range(given) : o.key \in last.call.method.valid_opt_keys
                 /\ {i \in DOMAIN q.query : q.query[i] = Token("?")} =
                        IF given = <<>> THEN {} ELSE {1}
                 /\ Cardinality(Separators(q.query)) = Len(given)
                 /\ \A i \in Separators(q.query) :
                       ParameterBehind(i, q.query) = KeyAndValue(given[Nth(i, q.query)])
  <2> DEFINE c == last.call
             given == Kept(c.opts)
             K == [key: STRING, value: Seq(STRING)]
  <2>1. last.requests = Requests(c) /\ c \in Calls
    BY <1>1 DEF EInv
  <2>2. q.query = Query(c.opts) /\ ValidOpts(c.method, c.opts)
    BY <1>1, <2>1, CallsParse DEF RequestTo
  <2>3. \A o \in Range(given) : o.key \in c.method.valid_opt_keys
    BY <2>2 DEF ValidOpts
  <2>4. given \in Seq(K)
    <3>1. c.opts \in Seq(K)
      BY <2>1, CallsAssumption
    <3> HIDE DEF K, c
    <3> QED BY <3>1, KeptIs
  <2>5. c.method.valid_opt_keys \cap {"?", "&"} = {}
    BY <2>1, CallsAssumption, MethodsWellFormed DEF WellFormed
  <2>6. \A i \in DOMAIN given : given[i].key \notin {"?", "&"}
    BY <2>3, <2>5 DEF Range
  <2>7. ReadsAs(q.query, given)
    <3> HIDE DEF K, c
    <3> QED BY <2>2, <2>4, <2>6, QueryReads
  <2>8. given = <<>> <=> Len(given) = 0
    <3> HIDE DEF K, given
    <3> QED BY <2>4, EmptySeq
  <2> HIDE DEF given
  <2> QED BY <2>3, <2>7, <2>8 DEF ReadsAs, given
<1>2. EInv => QueryReadBack
  BY <1>1 DEF QueryReadBack
<1> QED BY <1>2, SpecEInv, PTL
=============================================================================
