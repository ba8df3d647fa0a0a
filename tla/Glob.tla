-------------------------------- MODULE Glob --------------------------------
(***************************************************************************)
(* SmartMonitorService.GlobMatch, the loop that decides which drives the   *)
(* DeviceExcludePatterns hide.  One action per branch of the loop body;    *)
(* indices count from 0 as in the code.                                    *)
(***************************************************************************)
EXTENDS Integers, Sequences

CONSTANTS
    Inputs,     \* the device names tried, sequences of characters
    Patterns,   \* the patterns tried
    Star, Any   \* the wildcards * and ?

\* No device name contains a wildcard character.
ASSUME InputsAssumption ==
    \A s \in Inputs : s \in Seq(STRING) /\ \A k \in 1..Len(s) : s[k] \notin {Star, Any}
ASSUME PatternsAssumption == \A t \in Patterns : t \in Seq(STRING)
ASSUME WildcardsAssumption == {Star, Any} \subseteq STRING /\ Star # Any

VARIABLES
    input, pattern,     \* the arguments
    i, p,               \* the next character of each
    starI, starP,       \* where the last * was met, -1 before there is one
    result              \* "scan" and "tail": the two loops; then the answer

vars == <<input, pattern, i, p, starI, starP, result>>

CharAt(s, k) == s[k + 1]

\* Every index of the loop stays within its string, the star's behind the
\* current one.
TypeOK ==
    /\ input \in Inputs
    /\ pattern \in Patterns
    /\ i \in 0..Len(input)
    /\ p \in 0..Len(pattern)
    /\ starI \in -1..i
    /\ starP \in -1..(p - 1)
    /\ result \in {"scan", "tail", "yes", "no"}

Init ==
    /\ input \in Inputs
    /\ pattern \in Patterns
    /\ i = 0
    /\ p = 0
    /\ starI = -1
    /\ starP = -1
    /\ result = "scan"

\* (mutant: ? is compared like any other character)
CharMatchesLiterally == p < Len(pattern) /\ CharAt(pattern, p) = CharAt(input, i)

Scanning == result = "scan" /\ i < Len(input)
CharMatches == p < Len(pattern) /\ CharAt(pattern, p) \in {Any, CharAt(input, i)}
AtStar == p < Len(pattern) /\ CharAt(pattern, p) = Star

TakeChar ==
    /\ Scanning /\ CharMatches
    /\ i' = i + 1
    /\ p' = p + 1
    /\ UNCHANGED <<input, pattern, starI, starP, result>>

MeetStar ==
    /\ Scanning /\ ~CharMatches /\ AtStar
    /\ starP' = p
    /\ p' = p + 1
    /\ starI' = i
    /\ UNCHANGED <<input, pattern, i, result>>

\* (mutant: the retry does not move the start of the last *)
BacktrackInPlace ==
    /\ Scanning /\ ~CharMatches /\ ~AtStar /\ starP # -1
    /\ p' = starP + 1
    /\ i' = starI + 1
    /\ UNCHANGED <<input, pattern, starI, starP, result>>

\* The last * takes one character more.
Backtrack ==
    /\ Scanning /\ ~CharMatches /\ ~AtStar /\ starP # -1
    /\ p' = starP + 1
    /\ starI' = starI + 1
    /\ i' = starI + 1
    /\ UNCHANGED <<input, pattern, starP, result>>

GiveUp ==
    /\ Scanning /\ ~CharMatches /\ ~AtStar /\ starP = -1
    /\ result' = "no"
    /\ UNCHANGED <<input, pattern, i, p, starI, starP>>

InputDone ==
    /\ result = "scan"
    /\ i = Len(input)
    /\ result' = "tail"
    /\ UNCHANGED <<input, pattern, i, p, starI, starP>>

\* (mutant: the trailing loop skips any character)
SkipAny ==
    /\ result = "tail"
    /\ p' = p + 1
    /\ UNCHANGED <<input, pattern, i, starI, starP, result>>

SkipStar ==
    /\ result = "tail" /\ AtStar
    /\ p' = p + 1
    /\ UNCHANGED <<input, pattern, i, starI, starP, result>>

\* (mutant: what is left of the pattern is ignored)
ReturnAtInputEnd ==
    /\ result = "tail" /\ ~AtStar
    /\ result' = "yes"
    /\ UNCHANGED <<input, pattern, i, p, starI, starP>>

Return ==
    /\ result = "tail" /\ ~AtStar
    /\ result' = IF p = Len(pattern) THEN "yes" ELSE "no"
    /\ UNCHANGED <<input, pattern, i, p, starI, starP>>

Next == \/ TakeChar \/ MeetStar \/ Backtrack \/ GiveUp
        \/ InputDone \/ SkipStar \/ Return

Spec == Init /\ [][Next]_vars

\* A sequential loop that runs to its end.
FairSpec == Spec /\ WF_vars(Next)

-----------------------------------------------------------------------------
\* The first a characters of s match the first b of t: there are cut points,
\* one per pattern character, between which a * takes any stretch of s, a ?
\* one character and any other character itself.
MatchesPrefix(s, a, t, b) ==
    \E cut \in [0..b -> 0..a] :
        /\ cut[0] = 0
        /\ cut[b] = a
        /\ \A k \in 1..b :
              IF t[k] = Star THEN cut[k - 1] <= cut[k]
              ELSE /\ cut[k] = cut[k - 1] + 1
                   /\ t[k] \in {Any, s[cut[k]]}

Matches(s, t) == MatchesPrefix(s, Len(s), t, Len(t))

\* The loop answers yes only for a name that matches the pattern: no drive is
\* excluded by mistake, whatever the greedy star guessed on the way.
ExcludesOnlyMatches == result = "yes" => Matches(input, pattern)

\* It answers no only for a name that does not match: giving the last * one
\* character more at a time, and never an earlier one, misses no match.
ExcludesAllMatches == result = "no" => ~Matches(input, pattern)

\* The backtracking comes to an end for every name and pattern.
Terminates == <>(result \in {"yes", "no"})
=============================================================================
