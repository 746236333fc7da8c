------------------------- MODULE HeaderParserProofs -------------------------
(***************************************************************************)
(* Whatever the header, the callers of extract_duration_limits read no     *)
(* limit that is not there, and the well-formed parts are read as they     *)
(* stand: up to the first other one, and all of them where no part spoils  *)
(* its neighbours.  The induction runs over PInv, which counts the parts   *)
(* behind the loop: as long as nothing has been spoiled, both vectors are  *)
(* as long as there are well-formed parts.                                 *)
(***************************************************************************)
EXTENDS HeaderParser, FiniteSetTheorems, SequenceTheorems, TLAPS

\* The two vectors hold numbers, and limits are pushed first.
IInv ==
    /\ limit \in Seq(Int)
    /\ duration \in Seq(Int)
    /\ NoReadPastEnd

\* What std::stoi returns is a number.
LEMMA StoiIsInt ==
    ASSUME NEW s, Parses(s)
    PROVE  Stoi(s) \in Int
BY NumeralsAssumption DEF Parses, Stoi

\* One more element makes a sequence longer by one.
LEMMA AppendLonger ==
    ASSUME NEW s \in Seq(Int), NEW n \in Int
    PROVE  Append(s, n) \in Seq(Int) /\ Len(Append(s, n)) = Len(s) + 1
OBVIOUS

\* The try block pushes a duration only behind a limit.
LEMMA PushKeepsIInv ==
    ASSUME IInv, NEW a, NEW b, Push(a, b)
    PROVE  IInv'
<1>1. CASE a # <<>> /\ b # <<>> /\ Parses(a)
  <2>1. /\ limit' = Append(limit, Stoi(a))
        /\ duration' = IF Parses(b) THEN Append(duration, Stoi(b)) ELSE duration
    BY <1>1 DEF Push
  <2>2. limit' \in Seq(Int) /\ Len(limit') = Len(limit) + 1
    BY <1>1, <2>1, StoiIsInt, AppendLonger DEF IInv
  <2>3. CASE Parses(b)
    <3>1. duration' \in Seq(Int) /\ Len(duration') = Len(duration) + 1
      BY <2>1, <2>3, StoiIsInt, AppendLonger DEF IInv
    <3>2. QED
      BY <2>2, <3>1 DEF IInv, NoReadPastEnd
  <2>4. CASE ~Parses(b)
    <3>1. duration' = duration
      BY <2>1, <2>4
    <3>2. QED
      BY <2>2, <3>1 DEF IInv, NoReadPastEnd
  <2>5. QED
    BY <2>3, <2>4
<1>2. CASE ~(a # <<>> /\ b # <<>> /\ Parses(a))
  BY <1>2 DEF Push, IInv, NoReadPastEnd
<1>3. QED
  BY <1>1, <1>2

LEMMA NextKeepsIInv ==
    ASSUME IInv, [Next]_vars
    PROVE  IInv'
<1>1. CASE ReadPart
  <2>1. PICK a, b : Push(a, b)
    BY <1>1 DEF ReadPart
  <2>2. QED
    BY <2>1, PushKeepsIInv
<1>2. CASE Finish
  BY <1>2 DEF Finish, IInv, NoReadPastEnd
<1>3. CASE UNCHANGED vars
  BY <1>3 DEF vars, IInv, NoReadPastEnd
<1>4. QED
  BY <1>1, <1>2, <1>3 DEF Next

\* No header, well formed or not, makes RateHierachy's constructor and
\* sync_from_headers read limits past their end: for headers of any length.
THEOREM NoHeaderReadsPastEnd == Spec => []NoReadPastEnd
<1>1. Init => IInv
  BY DEF Init, IInv, NoReadPastEnd
<1>2. IInv /\ [Next]_vars => IInv'
  BY NextKeepsIInv
<1>3. IInv => NoReadPastEnd
  BY DEF IInv
<1>4. QED
  BY <1>1, <1>2, <1>3, PTL DEF Spec
-----------------------------------------------------------------------------
(* What the loop has read when it is at a position. *)

\* Where the loop is: behind the last part when it is over.
Reached == IF done THEN Len(description) + 2 ELSE current_pos

\* No part that begins before p spoils others.
Smooth(p) == \A s \in Starts : s < p => HasColon(PartAt(s)) /\ ~Half(PartAt(s))

Past(p) == {s \in Starts : s < p /\ WellFormed(PartAt(s))}

PInv ==
    /\ IInv
    /\ description \in Seq(Tokens)
    /\ current_pos \in Starts
    /\ \A b \in Past(Reached) : Smooth(b) => IsRead(b)
    /\ Smooth(Reached) =>
          /\ Len(limit) = Cardinality(Past(Reached))
          /\ Len(duration) = Cardinality(Past(Reached))

\* Min finds the least of any positions.
LEMMA LeastPosition ==
    ASSUME NEW P \in SUBSET Nat, P # {}
    PROVE  Min(P) \in P /\ \A y \in P : Min(P) <= y
<1> DEFINE R == {ss \in Nat \X Nat : ss[1] < ss[2]}
<1>1. OpToRel(<, Nat) = R
  BY DEF OpToRel
<1>2. IsWellFoundedOn(R, Nat)
  BY <1>1, NatLessThanWellFounded, Zenon
<1>3. PICK x \in P : \A y \in P : <<y, x>> \notin R
  <2> HIDE DEF R
  <2> QED BY <1>2, WFMin
<1>4. ASSUME NEW y \in P PROVE x <= y
  <2>1. <<y, x>> \in Nat \X Nat
    OBVIOUS
  <2>2. <<y, x>> \notin R
    BY <1>3, Zenon
  <2>3. <<y, x>>[1] = y /\ <<y, x>>[2] = x
    OBVIOUS
  <2> QED BY <2>1, <2>2, <2>3
<1> QED BY <1>4 DEF Min

\* substr of a part is substr of the header.
LEMMA PartOfPart ==
    ASSUME NEW d \in Seq(Tokens), NEW i \in 1 .. Len(d) + 1, NEW j \in 0 .. Len(d), i <= j + 1,
           NEW m \in 1 .. j - i + 2, NEW n \in 0 .. j - i + 1
    PROVE  SubSeq(SubSeq(d, i, j), m, n) = SubSeq(d, i + m - 1, i + n - 1)
<1> DEFINE p == SubSeq(d, i, j)
<1>1. p \in Seq(Tokens) /\ Len(p) = j - i + 1 /\ \A k \in 1 .. Len(p) : p[k] = d[i + k - 1]
  OBVIOUS
<1> HIDE DEF p
<1>2. CASE m > n
  <2>1. SubSeq(p, m, n) = <<>> /\ SubSeq(d, i + m - 1, i + n - 1) = <<>>
    BY <1>1, <1>2, SubSeqEmpty
  <2> QED BY <2>1 DEF p
<1>3. CASE m <= n
  BY <1>3, SubSeqOfSubSeq
<1> QED BY <1>2, <1>3

\* The end of a part: its comma, or the end of the header.
LEMMA Ends ==
    ASSUME description \in Seq(Tokens), NEW b \in Nat, b \in Starts
    PROVE  /\ b \in 1 .. Len(description) + 1
           /\ End(b) \in b .. Len(description) + 1
           /\ \A i \in b .. End(b) - 1 : description[i] # Comma
           /\ \/ Find(Comma, b) = npos /\ End(b) = Len(description) + 1
              \/ Find(Comma, b) = End(b) /\ End(b) \in Commas
<1>1. PICK n \in Nat : n = Len(description) /\ DOMAIN description = 1 .. n
  OBVIOUS
<1>2. b \in 1 .. n + 1
  <2>1. CASE b = 1
    BY <1>1, <2>1
  <2>2. ASSUME NEW c \in Commas, b = c + 1 PROVE b \in 1 .. n + 1
    <3>1. c \in 1 .. n
      BY <1>1 DEF Commas
    <3> QED BY <1>1, <2>2, <3>1
  <2> QED BY <2>1, <2>2 DEF Starts
<1>3. PICK C \in SUBSET Nat :
         /\ C = {c \in Commas : c >= b}
         /\ C = {i \in b .. n : description[i] = Comma}
         /\ \A c \in C : c \in b .. n /\ c \in Commas
  <2>1. {c \in Commas : c >= b} \in SUBSET Nat
    BY <1>1 DEF Commas
  <2>2. {c \in Commas : c >= b} = {i \in b .. n : description[i] = Comma}
    BY <1>1, <1>2 DEF Commas
  <2>3. \A c \in {c \in Commas : c >= b} : c \in b .. n /\ c \in Commas
    BY <1>1, <1>2 DEF Commas
  <2> QED BY <2>1, <2>2, <2>3, Zenon
<1>4. PICK E \in SUBSET Nat : E = C \cup {n + 1}
  <2>1. C \cup {n + 1} \in SUBSET Nat
    BY <1>1, <1>3
  <2> QED BY <2>1, Zenon
<1>5. End(b) = Min(E) /\ (Find(Comma, b) = IF C = {} THEN npos ELSE Min(C))
  BY <1>1, <1>3, <1>4, Zenon DEF End, Find
<1>6. Min(E) \in E /\ \A c \in E : Min(E) <= c
  BY <1>4, LeastPosition
<1>7. CASE C = {}
  <2>1. End(b) = n + 1 /\ Find(Comma, b) = npos
    BY <1>4, <1>5, <1>6, <1>7
  <2>2. \A i \in b .. n : description[i] # Comma
    BY <1>3, <1>7
  <2> QED BY <1>1, <1>2, <2>1, <2>2
<1>8. CASE C # {}
  <2>1. Min(C) \in C /\ \A c \in C : Min(C) <= c
    BY <1>3, <1>8, LeastPosition
  <2>2. Min(C) \in b .. n /\ Min(C) \in Commas
    BY <1>3, <2>1
  <2>3. Min(E) = Min(C)
    BY <1>1, <1>3, <1>4, <1>6, <2>1, <2>2
  <2>4. End(b) = Min(C) /\ Find(Comma, b) = Min(C)
    BY <1>5, <1>8, <2>3
  <2>5. ASSUME NEW i \in b .. Min(C) - 1 PROVE description[i] # Comma
    <3>1. i \in b .. n /\ ~(Min(C) <= i)
      BY <1>1, <1>2, <2>2, <2>5
    <3>2. i \notin C
      BY <2>1, <3>1
    <3> QED BY <1>3, <3>1, <3>2
  <2> QED BY <1>1, <1>2, <2>2, <2>4, <2>5
<1> QED BY <1>7, <1>8

\* A part holds the tokens between its ends.
LEMMA PartTokens ==
    ASSUME description \in Seq(Tokens), NEW b \in Nat, b \in Starts
    PROVE  /\ PartAt(b) \in Seq(Tokens) /\ Len(PartAt(b)) = End(b) - b
           /\ \A i \in 1 .. Len(PartAt(b)) : PartAt(b)[i] = description[b + i - 1]
<1>1. /\ b \in 1 .. Len(description) + 1
      /\ End(b) \in b .. Len(description) + 1
  BY Ends
<1> QED BY <1>1 DEF PartAt

\* A turn of the loop at a part with a colon reads the two sides of that colon.
LEMMA SidesRead ==
    ASSUME description \in Seq(Tokens), NEW b \in Nat, b \in Starts, HasColon(PartAt(b))
    PROVE  /\ Find(Colon, b) # npos /\ b <= Len(description)
           /\ Substr(b, Find(Colon, b)) = LimitOf(PartAt(b))
           /\ Substr(Find(Colon, b) + 1, Find(Comma, b)) = DurationOf(PartAt(b))
<1>1. PICK n \in Nat : n = Len(description)
  OBVIOUS
<1>2. PICK e \in b .. n + 1 :
         /\ e = End(b) /\ b \in 1 .. n + 1
         /\ (Find(Comma, b) = npos /\ e = n + 1) \/ (Find(Comma, b) = e /\ e \in Commas)
  BY <1>1, Ends
<1>3. PICK part \in Seq(Tokens) :
         /\ part = PartAt(b) /\ part = SubSeq(description, b, e - 1)
         /\ Len(part) = e - b /\ DOMAIN part = 1 .. e - b
         /\ \A i \in 1 .. e - b : part[i] = description[b + i - 1]
  <2>1. PartAt(b) \in Seq(Tokens) /\ Len(PartAt(b)) = e - b
        /\ \A i \in 1 .. e - b : PartAt(b)[i] = description[b + i - 1]
    BY <1>2, PartTokens
  <2>2. DOMAIN PartAt(b) = 1 .. e - b /\ PartAt(b) = SubSeq(description, b, e - 1)
    BY <1>2, <2>1 DEF PartAt
  <2> QED BY <2>1, <2>2
<1>4. PICK P \in SUBSET Nat : P = {i \in DOMAIN part : part[i] = Colon}
  <2>1. {i \in DOMAIN part : part[i] = Colon} \in SUBSET Nat
    BY <1>2, <1>3
  <2> QED BY <2>1, Zenon
<1>5. P # {} /\ ColonOf(part) = Min(P)
  BY <1>3, <1>4, Zenon DEF ColonOf, HasColon
<1>6. PICK c \in 1 .. e - b : c = ColonOf(part) /\ c \in P /\ \A i \in P : c <= i
  <2>1. Min(P) \in P /\ \A i \in P : Min(P) <= i
    BY <1>5, LeastPosition
  <2>2. \A i \in P : i \in 1 .. e - b
    BY <1>3, <1>4
  <2> QED BY <1>5, <2>1, <2>2
<1>7. PICK Q \in SUBSET Nat : Q = {i \in b .. n : description[i] = Colon}
  <2>1. {i \in b .. n : description[i] = Colon} \in SUBSET Nat
    BY <1>1, <1>2
  <2> QED BY <2>1, Zenon
<1>8. Find(Colon, b) = IF Q = {} THEN npos ELSE Min(Q)
  BY <1>1, <1>7, Zenon DEF Find
<1>9. b + c - 1 \in Q
  <2>1. b + c - 1 \in b .. n
    BY <1>1, <1>2, <1>6
  <2>2. description[b + c - 1] = Colon
    BY <1>3, <1>4, <1>6
  <2> QED BY <1>7, <2>1, <2>2
<1>10. Min(Q) \in Q /\ \A i \in Q : Min(Q) <= i
  BY <1>9, LeastPosition
<1>11. Min(Q) = b + c - 1
  <2>1. PICK q \in b .. n : q = Min(Q) /\ description[q] = Colon /\ q <= b + c - 1
    BY <1>7, <1>9, <1>10
  <2>2. q - b + 1 \in 1 .. e - b
    BY <1>1, <1>2, <1>6, <2>1
  <2>3. part[q - b + 1] = description[b + (q - b + 1) - 1]
    BY <1>3, <2>2
  <2>4. q - b + 1 \in P
    <3>1. b + (q - b + 1) - 1 = q
      BY <1>1, <1>2, <2>1
    <3>2. part[q - b + 1] = Colon /\ q - b + 1 \in DOMAIN part
      BY <1>3, <2>1, <2>2, <2>3, <3>1
    <3> QED BY <1>4, <3>2
  <2>5. c <= q - b + 1
    BY <1>6, <2>4
  <2> QED BY <1>1, <1>2, <1>6, <2>1, <2>5
<1>12. Find(Colon, b) = b + c - 1
  BY <1>8, <1>9, <1>11
<1>13. Substr(b, b + c - 1) = LimitOf(part)
  <2>1. Substr(b, b + c - 1) = SubSeq(description, b, b + c - 2)
    BY <1>1, <1>2, <1>6 DEF Substr
  <2>2. LimitOf(part) = SubSeq(part, 1, c - 1)
    BY <1>6 DEF LimitOf
  <2>3. SubSeq(part, 1, c - 1) = SubSeq(description, b, b + c - 2)
    <3>1. e - 1 \in 0 .. n /\ 1 \in 1 .. (e - 1) - b + 2 /\ c - 1 \in 0 .. (e - 1) - b + 1
      BY <1>1, <1>2, <1>6
    <3>2. SubSeq(SubSeq(description, b, e - 1), 1, c - 1)
             = SubSeq(description, b + 1 - 1, b + (c - 1) - 1)
      BY <1>1, <1>2, <3>1, PartOfPart
    <3>3. b + 1 - 1 = b /\ b + (c - 1) - 1 = b + c - 2
      BY <1>2, <1>6
    <3> QED BY <1>3, <3>2, <3>3
  <2> QED BY <2>1, <2>2, <2>3
<1>14. Substr(b + c, Find(Comma, b)) = DurationOf(part)
  <2>1. Substr(b + c, Find(Comma, b)) = SubSeq(description, b + c, e - 1)
    <3>1. CASE Find(Comma, b) = npos /\ e = n + 1
      BY <1>1, <1>2, <1>6, <3>1 DEF Substr, npos
    <3>2. CASE Find(Comma, b) = e
      BY <1>1, <1>2, <1>6, <3>2 DEF Substr
    <3> QED BY <1>2, <3>1, <3>2
  <2>2. DurationOf(part) = SubSeq(part, c + 1, e - b)
    BY <1>3, <1>6 DEF DurationOf
  <2>3. SubSeq(part, c + 1, e - b) = SubSeq(description, b + c, e - 1)
    <3>1. PICK j \in 0 .. n, m \in Nat, k \in Nat :
             /\ j = e - 1 /\ m = c + 1 /\ k = e - b
             /\ b <= j + 1 /\ m \in 1 .. j - b + 2 /\ k \in 0 .. j - b + 1
      BY <1>1, <1>2, <1>6
    <3>2. SubSeq(SubSeq(description, b, j), m, k) = SubSeq(description, b + m - 1, b + k - 1)
      BY <1>1, <1>2, <3>1, PartOfPart
    <3>3. b + (c + 1) - 1 = b + c /\ b + (e - b) - 1 = e - 1
      BY <1>2, <1>6
    <3> QED BY <1>3, <3>1, <3>2, <3>3
  <2> QED BY <2>1, <2>2, <2>3
<1>15. Find(Colon, b) # npos /\ b <= Len(description)
  BY <1>1, <1>2, <1>6, <1>12 DEF npos
<1>16. Find(Colon, b) + 1 = b + c
  BY <1>2, <1>6, <1>12
<1> QED BY <1>3, <1>12, <1>13, <1>14, <1>15, <1>16

\* A turn of the loop takes it past one part, the one it is at.
LEMMA NextStart ==
    ASSUME description \in Seq(Tokens), NEW b \in Nat, b \in Starts
    PROVE  /\ \A s \in Starts : s < End(b) + 1 <=> s < b \/ s = b
           /\ Find(Comma, b) = npos => End(b) + 1 = Len(description) + 2
           /\ Find(Comma, b) # npos => End(b) + 1 = Find(Comma, b) + 1 /\ End(b) + 1 \in Starts
<1>1. PICK e \in Nat :
         /\ e = End(b) /\ 1 <= b /\ b <= e
         /\ (Find(Comma, b) = npos /\ e = Len(description) + 1)
            \/ (Find(Comma, b) = e /\ e \in Commas)
         /\ \A i \in b .. e - 1 : description[i] # Comma
  BY Ends
<1>2. ASSUME NEW s \in Starts PROVE s < e + 1 <=> s < b \/ s = b
  <2>1. CASE s = 1
    BY <1>1, <2>1
  <2>2. ASSUME NEW c \in Commas, s = c + 1, s > b PROVE s >= e + 1
    <3>1. c \in Nat /\ description[c] = Comma
      BY DEF Commas
    <3> QED BY <1>1, <2>2, <3>1
  <2>3. s \in Nat
    BY DEF Starts, Commas
  <2> QED BY <1>1, <2>1, <2>2, <2>3 DEF Starts
<1>3. e \in Commas => e + 1 \in Starts
  BY DEF Starts
<1>4. Find(Comma, b) = npos => e + 1 = Len(description) + 2
  <2>1. e \in Commas => e # npos
    BY DEF Commas, npos
  <2> QED BY <1>1, <2>1
<1>5. Find(Comma, b) # npos => e + 1 = Find(Comma, b) + 1 /\ e + 1 \in Starts
  BY <1>1, <1>3
<1> QED BY <1>1, <1>2, <1>4, <1>5

\* One more part is past, and counts when it is well formed.
LEMMA PastCounted ==
    ASSUME description \in Seq(Tokens), NEW b \in Nat, b \in Starts
    PROVE  /\ Cardinality(Past(b)) \in Nat
           /\ WellFormed(PartAt(b)) =>
                 /\ Cardinality(Past(End(b) + 1)) = Cardinality(Past(b)) + 1
                 /\ Past(End(b) + 1) = Past(b) \cup {b}
           /\ ~WellFormed(PartAt(b)) => Past(End(b) + 1) = Past(b)
           /\ Nth(b) = Cardinality(Past(End(b) + 1))
<1>1. \A s \in Starts : s < End(b) + 1 <=> s < b \/ s = b
  BY NextStart
<1>2. Starts \subseteq Nat
  BY DEF Starts, Commas
<1>3. IsFiniteSet(Past(b))
  <2>1. \A s \in Past(b) : s \in 0 .. b
    BY <1>2 DEF Past
  <2>2. IsFiniteSet(0 .. b)
    BY FS_Interval
  <2> QED BY <2>1, <2>2, FS_Subset
<1>4. b \notin Past(b)
  BY DEF Past
<1>5. WellFormed(PartAt(b)) => Past(End(b) + 1) = Past(b) \cup {b}
  BY <1>1 DEF Past
<1>6. ~WellFormed(PartAt(b)) => Past(End(b) + 1) = Past(b)
  BY <1>1 DEF Past
<1>7. {s \in Starts : s <= b /\ WellFormed(PartAt(s))} = Past(End(b) + 1)
  <2>1. \A s \in Starts : s <= b <=> s < End(b) + 1
    BY <1>1, <1>2
  <2> QED BY <2>1 DEF Past
<1>8. Cardinality(Past(b)) \in Nat
  BY <1>3, FS_CardinalityType
<1>9. Cardinality(Past(b) \cup {b}) = Cardinality(Past(b)) + 1
  BY <1>3, <1>4, FS_AddElement
<1> QED BY <1>5, <1>6, <1>7, <1>8, <1>9 DEF Nth

\* The parts are the header's, which the loop only reads.
LEMMA SameHeader ==
    ASSUME UNCHANGED description
    PROVE  /\ Starts' = Starts
           /\ \A s : /\ PartAt(s)' = PartAt(s) /\ Nth(s)' = Nth(s) /\ Reading(s)' = Reading(s)
                     /\ Past(s)' = Past(s) /\ (Smooth(s)' <=> Smooth(s))
<1>1. Commas' = Commas /\ Starts' = Starts
  BY DEF Commas, Starts
<1>2. ASSUME NEW s PROVE End(s)' = End(s) /\ PartAt(s)' = PartAt(s)
  BY <1>1 DEF End, PartAt
<1>3. ASSUME NEW s PROVE Past(s)' = Past(s) /\ (Smooth(s)' <=> Smooth(s))
  BY <1>1, <1>2 DEF Past, Smooth
<1>4. ASSUME NEW s PROVE Nth(s)' = Nth(s) /\ Reading(s)' = Reading(s)
  BY <1>1, <1>2 DEF Nth, Reading
<1> QED BY <1>1, <1>2, <1>3, <1>4

\* What has been read is not touched by what is read later.
LEMMA StaysRead ==
    ASSUME IInv, IInv', UNCHANGED description, NEW b, IsRead(b),
           limit' = limit \/ \E n \in Int : limit' = Append(limit, n),
           duration' = duration \/ \E n \in Int : duration' = Append(duration, n)
    PROVE  IsRead(b)'
<1>1. Nth(b)' = Nth(b) /\ Reading(b)' = Reading(b)
  BY SameHeader
<1>2. PICK i : i = Nth(b)
  OBVIOUS
<1>3. /\ i \in DOMAIN duration
      /\ [limit |-> limit[i], duration |-> duration[i]] = Reading(b)
  BY <1>2 DEF IsRead, LimitParts
<1>4. i \in DOMAIN duration' /\ limit'[i] = limit[i] /\ duration'[i] = duration[i]
  <2>1. i \in Nat /\ i \in 1 .. Len(duration) /\ i \in 1 .. Len(limit)
    BY <1>3 DEF IInv, NoReadPastEnd
  <2>2. ASSUME NEW v \in Seq(Int), NEW n \in Int, i \in 1 .. Len(v)
        PROVE  i \in DOMAIN Append(v, n) /\ Append(v, n)[i] = v[i]
    BY <2>1, <2>2
  <2>3. limit \in Seq(Int) /\ duration \in Seq(Int)
    BY DEF IInv
  <2> QED BY <1>3, <2>1, <2>2, <2>3
<1> QED BY <1>1, <1>2, <1>3, <1>4 DEF IsRead, LimitParts

\* Every part begins before the end of the loop.
LEMMA StartsAreNaturals ==
    ASSUME description \in Seq(Tokens)
    PROVE  \A s \in Starts : s \in Nat /\ s < Len(description) + 2
<1>1. \A c \in Commas : c \in Nat /\ c <= Len(description)
  BY DEF Commas
<1> QED BY <1>1 DEF Starts

\* A turn at a part with a colon reads that part; at one without, the part and its
\* successors have been spoiled.
LEMMA ReadPartKeepsPInv ==
    ASSUME PInv, IInv', ReadPart
    PROVE  PInv'
<1>1. PICK p \in Nat : p = current_pos /\ p \in Starts /\ Reached = p
  BY StartsAreNaturals DEF PInv, ReadPart, Reached
<1>2. PICK q : q = End(p) + 1
  OBVIOUS
<1>3. description \in Seq(Tokens) /\ UNCHANGED description /\ ~done
  BY DEF PInv, ReadPart
<1>4. /\ \A s \in Starts : s < q <=> s < p \/ s = p
      /\ Find(Comma, p) = npos => q = Len(description) + 2
      /\ Find(Comma, p) # npos => q = Find(Comma, p) + 1 /\ q \in Starts
  BY <1>1, <1>2, <1>3, NextStart
<1>5. Starts' = Starts /\ \A s : Past(s)' = Past(s) /\ (Smooth(s)' <=> Smooth(s))
  BY <1>3, SameHeader
<1>6. Reached' = q /\ current_pos' \in Starts'
  <2>1. Advance(Find(Comma, p))
    BY <1>1 DEF ReadPart
  <2>2. CASE Find(Comma, p) = npos
    BY <1>1, <1>3, <1>4, <1>5, <2>1, <2>2 DEF Advance, Reached
  <2>3. CASE Find(Comma, p) # npos
    BY <1>1, <1>3, <1>4, <1>5, <2>1, <2>3 DEF Advance, Reached
  <2> QED BY <2>2, <2>3
<1>7. PICK ls, ds : /\ ls = Substr(p, Find(Colon, p)) /\ Push(ls, ds)
                    /\ ds = Substr(Find(Colon, p) + 1, Find(Comma, p))
  BY <1>1 DEF ReadPart
<1>8. /\ limit' = limit \/ \E n \in Int : limit' = Append(limit, n)
      /\ duration' = duration \/ \E n \in Int : duration' = Append(duration, n)
  BY <1>7, StoiIsInt DEF Push
<1>9. ASSUME NEW b \in Past(p), Smooth(b) PROVE IsRead(b)'
  BY <1>1, <1>3, <1>8, <1>9, StaysRead DEF PInv
<1>10. Smooth(q) => Smooth(p) /\ HasColon(PartAt(p)) /\ ~Half(PartAt(p))
  BY <1>1, <1>4 DEF Smooth
<1>11. /\ Cardinality(Past(p)) \in Nat
       /\ WellFormed(PartAt(p)) =>
             /\ Cardinality(Past(q)) = Cardinality(Past(p)) + 1
             /\ Past(q) = Past(p) \cup {p}
       /\ ~WellFormed(PartAt(p)) => Past(q) = Past(p)
       /\ Nth(p) = Cardinality(Past(q))
  BY <1>1, <1>2, <1>3, PastCounted
<1>12. CASE ~HasColon(PartAt(p))
  <2>1. ~WellFormed(PartAt(p))
    BY <1>12 DEF WellFormed
  <2> QED BY <1>3, <1>5, <1>6, <1>9, <1>10, <1>11, <1>12, <2>1 DEF PInv
<1>13. CASE HasColon(PartAt(p))
  <2>1. ls = LimitOf(PartAt(p)) /\ ds = DurationOf(PartAt(p))
    BY <1>1, <1>3, <1>7, <1>13, SidesRead
  <2>2. CASE WellFormed(PartAt(p))
    <3>1. Parses(ls) /\ Parses(ds)
      BY <2>1, <2>2 DEF WellFormed
    <3>2. /\ limit' = Append(limit, Stoi(ls)) /\ duration' = Append(duration, Stoi(ds))
          /\ Stoi(ls) \in Int /\ Stoi(ds) \in Int
      BY <1>7, <3>1, StoiIsInt DEF Push, Parses
    <3>3. ASSUME Smooth(p)
          PROVE  /\ Len(limit') = Cardinality(Past(q)) /\ Len(duration') = Cardinality(Past(q))
                 /\ IsRead(p)'
      <4>1. PICK n \in Nat : n = Cardinality(Past(p)) /\ Len(limit) = n /\ Len(duration) = n
        BY <1>1, <1>11, <3>3 DEF PInv
      <4>2. /\ Len(limit') = n + 1 /\ limit'[n + 1] = Stoi(ls)
            /\ Len(duration') = n + 1 /\ duration'[n + 1] = Stoi(ds)
            /\ n + 1 \in DOMAIN duration'
        BY <3>2, <4>1 DEF PInv, IInv
      <4>3. Nth(p)' = n + 1 /\ Reading(p)' = [limit |-> Stoi(ls), duration |-> Stoi(ds)]
        BY <1>3, <1>11, <2>1, <2>2, <4>1, SameHeader DEF Reading
      <4>4. IsRead(p)'
        BY <4>2, <4>3 DEF IsRead, LimitParts
      <4> QED BY <1>11, <2>2, <4>1, <4>2, <4>4
    <3> QED BY <1>3, <1>5, <1>6, <1>9, <1>10, <1>11, <2>2, <3>3 DEF PInv
  <2>3. CASE ~WellFormed(PartAt(p)) /\ Half(PartAt(p))
    BY <1>3, <1>5, <1>6, <1>9, <1>10, <1>11, <2>3 DEF PInv
  <2>4. CASE ~WellFormed(PartAt(p)) /\ ~Half(PartAt(p))
    <3>1. limit' = limit /\ duration' = duration
      BY <1>7, <1>13, <2>1, <2>4 DEF Push, WellFormed, Half
    <3> QED BY <1>1, <1>3, <1>5, <1>6, <1>9, <1>10, <1>11, <2>4, <3>1 DEF PInv
  <2> QED BY <2>2, <2>3, <2>4
<1> QED BY <1>12, <1>13

\* The loop ends before the end only at a part without a colon.
LEMMA FinishKeepsPInv ==
    ASSUME PInv, IInv', Finish
    PROVE  PInv'
<1>1. PICK p \in Nat : p = current_pos /\ p \in Starts /\ Reached = p
  BY StartsAreNaturals DEF PInv, Finish, Reached
<1>2. /\ description \in Seq(Tokens) /\ UNCHANGED <<description, current_pos, limit, duration>>
      /\ Reached' = Len(description) + 2
      /\ p > Len(description) \/ Find(Colon, p) = npos
  BY <1>1 DEF PInv, Finish, Reached
<1>3. ~HasColon(PartAt(p))
  BY <1>1, <1>2, SidesRead
<1>4. Starts' = Starts /\ \A s : Past(s)' = Past(s) /\ (Smooth(s)' <=> Smooth(s))
  BY <1>2, SameHeader
<1>5. \A s \in Starts : s \in Nat /\ s < Len(description) + 2
  BY <1>2, StartsAreNaturals
<1>6. ASSUME NEW b \in Past(Reached'), Smooth(b) PROVE IsRead(b)'
  <2>1. b \in Starts /\ b \in Nat /\ b # p /\ ~(p < b)
    BY <1>1, <1>3, <1>5, <1>6 DEF Past, WellFormed, Smooth
  <2>2. b \in Past(p)
    BY <1>1, <1>6, <2>1 DEF Past
  <2>3. IsRead(b)
    BY <1>1, <1>6, <2>2 DEF PInv
  <2> QED BY <1>2, <2>3, StaysRead DEF PInv
<1>7. ~Smooth(Reached')
  BY <1>1, <1>2, <1>3, <1>5 DEF Smooth
<1> QED BY <1>1, <1>2, <1>4, <1>6, <1>7 DEF PInv

LEMMA SpecPInv == Spec => []PInv
<1>1. Init => PInv
  <2> SUFFICES ASSUME Init PROVE PInv
    OBVIOUS
  <2>1. description \in Seq(Tokens) /\ Reached = 1 /\ 1 \in Starts /\ IInv
    BY DescriptionsAssumption DEF Init, Reached, Starts, IInv, NoReadPastEnd
  <2>2. Past(1) = {}
    BY <2>1, StartsAreNaturals DEF Past, Starts, Commas
  <2>3. Cardinality({}) = 0
    BY FS_EmptySet
  <2> QED BY <2>1, <2>2, <2>3 DEF PInv, Init
<1>2. PInv /\ [Next]_vars => PInv'
  <2> SUFFICES ASSUME PInv, [Next]_vars PROVE PInv'
    OBVIOUS
  <2>1. IInv'
    BY NextKeepsIInv DEF PInv
  <2>2. ASSUME UNCHANGED vars PROVE PInv'
    <3>1. UNCHANGED <<description, current_pos, limit, duration, done>>
      BY <2>2 DEF vars
    <3>2. Starts' = Starts /\ \A s : Past(s)' = Past(s) /\ (Smooth(s)' <=> Smooth(s))
      BY <3>1, SameHeader
    <3>3. Reached' = Reached
      BY <3>1 DEF Reached
    <3>4. \A b : IsRead(b) => IsRead(b)'
      BY <2>1, <3>1, StaysRead DEF PInv
    <3> QED BY <2>1, <3>1, <3>2, <3>3, <3>4 DEF PInv
  <2> QED BY <2>1, <2>2, ReadPartKeepsPInv, FinishKeepsPInv DEF Next
<1> QED BY <1>1, <1>2, PTL DEF Spec

\* Up to the first part of a header that is not well formed, limits and durations are
\* read as they stand, whatever follows: for headers of any length.
THEOREM WellFormedPartsAreRead == Spec => []LeadingPartsKept
<1>1. PInv => LeadingPartsKept
  <2> SUFFICES ASSUME PInv, done, NEW b \in Starts,
                      \A s \in Starts : s <= b => WellFormed(PartAt(s))
               PROVE  IsRead(b)
    BY DEF LeadingPartsKept
  <2>1. \A s \in Starts : s \in Nat /\ s < Reached
    BY StartsAreNaturals DEF PInv, Reached
  <2>2. Smooth(b)
    BY <2>1 DEF Smooth, WellFormed, Half
  <2>3. b \in Past(Reached)
    BY <2>1 DEF Past
  <2> QED BY <2>2, <2>3 DEF PInv
<1> QED BY <1>1, SpecPInv, PTL

\* Where every part has a colon and none is half, exactly the well-formed parts are
\* read, in their order.
THEOREM PartsAreReadOneByOne == Spec => []ReadPartByPart
<1>1. PInv => ReadPartByPart
  <2> SUFFICES ASSUME PInv, done,
                      \A s \in Starts : HasColon(PartAt(s)) /\ ~Half(PartAt(s))
               PROVE  /\ \A b \in Starts : WellFormed(PartAt(b)) => IsRead(b)
                      /\ Len(LimitParts) = Cardinality({b \in Starts : WellFormed(PartAt(b))})
    BY DEF ReadPartByPart
  <2>1. \A s \in Starts : s \in Nat /\ s < Reached
    BY StartsAreNaturals DEF PInv, Reached
  <2>2. \A p : Smooth(p)
    BY DEF Smooth
  <2>3. Past(Reached) = {b \in Starts : WellFormed(PartAt(b))}
    BY <2>1 DEF Past
  <2>4. Len(LimitParts) = Len(duration)
    BY DEF LimitParts, PInv, IInv
  <2> QED BY <2>2, <2>3, <2>4 DEF PInv
<1> QED BY <1>1, SpecPInv, PTL

=============================================================================
