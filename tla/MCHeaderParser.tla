--------------------------- MODULE MCHeaderParser ---------------------------
(* HeaderParser for TLC: every header of at most three parts of three tokens. *)
EXTENDS HeaderParser, SequencesExt

CONSTANTS MaxParts, MaxTokens

MCNumerals == [two |-> 2, seven |-> 7]

MCTokens == DOMAIN MCNumerals \cup {":", ",", "x"}

\* No two numerals stand together: they would be one.
PartTexts ==
    {p \in UNION {[1 .. n -> MCTokens \ {","}] : n \in 0 .. MaxTokens} :
        \A i \in 1 .. Len(p) - 1 : {p[i], p[i + 1]} \subseteq DOMAIN MCNumerals => FALSE}

Joined(parts) == FoldLeft(LAMBDA s, p : s \o <<",">> \o p, Head(parts), Tail(parts))

MCDescriptions == {Joined(parts) : parts \in UNION {[1 .. n -> PartTexts] : n \in 1 .. MaxParts}}
=============================================================================
