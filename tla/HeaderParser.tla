---------------------------- MODULE HeaderParser ----------------------------
(***************************************************************************)
(* extract_duration_limits, the loop that reads a rate header such as      *)
(* "20:1,100:120" into the vectors limit and duration; the function stands *)
(* twice in the code, in handling/rate_hierachy.cpp and, word for word, in *)
(* handling/rate_handler.cpp.  Every rate header of every response goes    *)
(* through it with the limiter's mutex held.                               *)
(*                                                                         *)
(* A header is a sequence of tokens: ":", ",", the numerals, and anything  *)
(* else.  Positions count from 1.                                          *)
(***************************************************************************)
EXTENDS Integers, Sequences, FiniteSets, FiniteSetsExt

CONSTANTS
    Tokens,
    Descriptions,   \* the headers
    Numerals        \* what the numerals stand for, a function

ASSUME DescriptionsAssumption == Descriptions \subseteq Seq(Tokens)
ASSUME NumeralsAssumption == Numerals \in [DOMAIN Numerals -> Int]

VARIABLES
    description, current_pos,
    limit, duration,    \* what has been read so far
    done

vars == <<description, current_pos, limit, duration, done>>

npos == 0

\* What separates the parts, and limit and duration in a part.
Comma == ","
Colon == ":"

\* Faulty: colons are looked for from the beginning of the header.
FindFirstColon(token, from) ==
    LET places == {i \in from .. Len(description) : description[i] = token}
        colons == {i \in DOMAIN description : description[i] = Colon}
    IN  IF token = Colon THEN IF colons = {} THEN npos ELSE Min(colons)
        ELSE IF places = {} THEN npos ELSE Min(places)

\* std::string::find
Find(token, from) ==
    LET places == {i \in from .. Len(description) : description[i] = token}
    IN  IF places = {} THEN npos ELSE Min(places)

\* substr(from, to - from), where a negative length, which is unsigned in the code,
\* and an end at npos both mean the rest of the header.
Substr(from, to) ==
    SubSeq(description, from, IF to < from THEN Len(description) ELSE to - 1)

\* std::stoi reads the numeral a string starts with, and throws when there is none.
Parses(s) == s # <<>> /\ Head(s) \in DOMAIN Numerals
Stoi(s) == Numerals[Head(s)]

Init ==
    /\ description \in Descriptions
    /\ current_pos = 1
    /\ limit = <<>> /\ duration = <<>>
    /\ done = FALSE

\* Faulty: the duration is read and pushed first.
PushDurationFirst(limit_str, duration_str) ==
    IF limit_str # <<>> /\ duration_str # <<>> /\ Parses(duration_str)
    THEN /\ duration' = Append(duration, Stoi(duration_str))
         /\ limit' = IF Parses(limit_str) THEN Append(limit, Stoi(limit_str)) ELSE limit
    ELSE UNCHANGED <<limit, duration>>

\* Faulty: a limit without a duration is kept, too.
PushLimitAlone(limit_str, duration_str) ==
    /\ limit' = IF Parses(limit_str) THEN Append(limit, Stoi(limit_str)) ELSE limit
    /\ duration' = IF Parses(limit_str) /\ Parses(duration_str)
                   THEN Append(duration, Stoi(duration_str)) ELSE duration

\* The try block: when the duration does not parse, the limit has been pushed.
Push(limit_str, duration_str) ==
    IF limit_str # <<>> /\ duration_str # <<>> /\ Parses(limit_str)
    THEN /\ limit' = Append(limit, Stoi(limit_str))
         /\ duration' = IF Parses(duration_str)
                        THEN Append(duration, Stoi(duration_str)) ELSE duration
    ELSE UNCHANGED <<limit, duration>>

\* Faulty: the next part starts at the comma.
AdvanceToComma(com_pos) ==
    IF com_pos = npos THEN done' = TRUE /\ UNCHANGED current_pos
                      ELSE current_pos' = com_pos /\ UNCHANGED done

\* The next part starts behind the comma.
Advance(com_pos) ==
    IF com_pos = npos THEN done' = TRUE /\ UNCHANGED current_pos
                      ELSE current_pos' = com_pos + 1 /\ UNCHANGED done

\* One turn of the loop.  The colon and the comma are both looked for from the
\* start of the part, so the comma may come first.
ReadPart ==
    LET col_pos == Find(Colon, current_pos)
        com_pos == Find(Comma, current_pos)
    IN  /\ ~done /\ current_pos <= Len(description) /\ col_pos # npos
        /\ Push(Substr(current_pos, col_pos), Substr(col_pos + 1, com_pos))
        /\ Advance(com_pos)
        /\ UNCHANGED description

\* The loop ends, at the end of the header or for want of another colon.
Finish ==
    /\ ~done
    /\ current_pos > Len(description) \/ Find(Colon, current_pos) = npos
    /\ done' = TRUE
    /\ UNCHANGED <<description, current_pos, limit, duration>>

\* The function has returned.
Next == ReadPart \/ Finish \/ (done /\ UNCHANGED vars)

Spec == Init /\ [][Next]_vars /\ WF_vars(ReadPart \/ Finish)
-----------------------------------------------------------------------------
\* What the callers make of the two vectors: they run over the durations.
LimitParts == [i \in DOMAIN duration |-> [limit |-> limit[i], duration |-> duration[i]]]

\* The callers index limit by the positions of duration (rate_hierachy.cpp:63, 96 and
\* 103), so no header may leave limit the shorter one.
NoReadPastEnd == Len(duration) <= Len(limit)

\* The loop is over some time, whatever the header: until then the mutex is held.
Terminates == <>done

(* The header read part by part. *)

\* A part starts at the beginning and behind every comma, and runs up to the next.
Commas == {i \in DOMAIN description : description[i] = Comma}
Starts == {1} \cup {c + 1 : c \in Commas}
End(b) == Min({c \in Commas : c >= b} \cup {Len(description) + 1})
PartAt(b) == SubSeq(description, b, End(b) - 1)

\* limit and duration of a part with a colon, on its two sides.
ColonOf(part) == Min({i \in DOMAIN part : part[i] = Colon})
LimitOf(part) == SubSeq(part, 1, ColonOf(part) - 1)
DurationOf(part) == SubSeq(part, ColonOf(part) + 1, Len(part))

HasColon(part) == \E i \in DOMAIN part : part[i] = Colon
WellFormed(part) == HasColon(part) /\ Parses(LimitOf(part)) /\ Parses(DurationOf(part))

\* A limit that parses beside a duration that is there and does not.
Half(part) ==
    /\ HasColon(part) /\ Parses(LimitOf(part))
    /\ DurationOf(part) # <<>> /\ ~Parses(DurationOf(part))

\* The place of the part at b among the well-formed ones, and what it says.
Nth(b) == Cardinality({s \in Starts : s <= b /\ WellFormed(PartAt(s))})
Reading(b) == [limit |-> Stoi(LimitOf(PartAt(b))), duration |-> Stoi(DurationOf(PartAt(b)))]
IsRead(b) == Nth(b) \in DOMAIN LimitParts /\ LimitParts[Nth(b)] = Reading(b)

\* Up to the first part that is not well formed, limits and durations are those of
\* the header, whatever follows.
LeadingPartsKept ==
    done =>
        \A b \in Starts :
            (\A s \in Starts : s <= b => WellFormed(PartAt(s))) => IsRead(b)

\* Only two kinds of part can spoil others: one without a colon, which is read
\* together with the next, and a half one, whose limit shifts those of all later parts.
\* Without them, the well-formed parts are read as they stand, the rest is skipped.
ReadPartByPart ==
    done /\ (\A s \in Starts : HasColon(PartAt(s)) /\ ~Half(PartAt(s))) =>
        /\ \A b \in Starts : WellFormed(PartAt(b)) => IsRead(b)
        /\ Len(LimitParts) = Cardinality({b \in Starts : WellFormed(PartAt(b))})
=============================================================================
