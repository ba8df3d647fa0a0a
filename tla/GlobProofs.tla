----------------------------- MODULE GlobProofs -----------------------------
(* GlobMatch excludes exactly the drives whose name matches: for names and  *)
(* patterns of any length over any characters.                              *)
EXTENDS Glob, TLAPS

\* What has been consumed matches; and so does what was consumed up to and
\* including the last *, which is where a retry goes back to.
ConsumedMatches ==
    /\ result \in {"scan", "tail"} => MatchesPrefix(input, i, pattern, p)
    /\ result = "tail" => i = Len(input)
    /\ starP # -1 => /\ pattern[starP + 1] = Star
                     /\ starI \in Nat
                     /\ MatchesPrefix(input, starI, pattern, starP + 1)

IInv == TypeOK /\ ConsumedMatches /\ ExcludesOnlyMatches

-----------------------------------------------------------------------------
\* The arguments are strings of characters with a length and positions.
LEMMA StringTypes ==
    TypeOK => /\ input \in Seq(STRING) /\ Len(input) \in Nat
              /\ pattern \in Seq(STRING) /\ Len(pattern) \in Nat
BY InputsAssumption, PatternsAssumption DEF TypeOK

\* A pattern character that is not * takes one character.
LEMMA ExtendByChar ==
    ASSUME NEW s, NEW t, NEW a \in Nat, NEW b \in Nat,
           MatchesPrefix(s, a, t, b),
           t[b + 1] # Star, t[b + 1] \in {Any, s[a + 1]}
    PROVE  MatchesPrefix(s, a + 1, t, b + 1)
<1>1. PICK cut \in [0..b -> 0..a] :
         /\ cut[0] = 0
         /\ cut[b] = a
         /\ \A k \in 1..b :
               IF t[k] = Star THEN cut[k - 1] <= cut[k]
               ELSE cut[k] = cut[k - 1] + 1 /\ t[k] \in {Any, s[cut[k]]}
  BY DEF MatchesPrefix
<1> DEFINE new == [k \in 0..(b + 1) |-> IF k <= b THEN cut[k] ELSE a + 1]
<1>2. new \in [0..(b + 1) -> 0..(a + 1)]  OBVIOUS
<1>3. new[0] = 0 /\ new[b + 1] = a + 1 /\ new[b] = a  BY <1>1
<1>4. ASSUME NEW k \in 1..(b + 1)
      PROVE  IF t[k] = Star THEN new[k - 1] <= new[k]
             ELSE new[k] = new[k - 1] + 1 /\ t[k] \in {Any, s[new[k]]}
  <2>1. CASE k = b + 1  BY <1>3, <2>1
  <2>2. CASE k # b + 1
    <3>1. k \in 1..b /\ new[k] = cut[k] /\ new[k - 1] = cut[k - 1]  BY <2>2
    <3> QED  BY <1>1, <3>1
  <2> QED  BY <2>1, <2>2
<1> HIDE DEF new
<1> QED  BY <1>2, <1>3, <1>4 DEF MatchesPrefix

\* A * takes any stretch.
LEMMA ExtendByStar ==
    ASSUME NEW s, NEW t, NEW a \in Nat, NEW b \in Nat, NEW c \in Nat, a <= c,
           MatchesPrefix(s, a, t, b), t[b + 1] = Star
    PROVE  MatchesPrefix(s, c, t, b + 1)
<1>1. PICK cut \in [0..b -> 0..a] :
         /\ cut[0] = 0
         /\ cut[b] = a
         /\ \A k \in 1..b :
               IF t[k] = Star THEN cut[k - 1] <= cut[k]
               ELSE cut[k] = cut[k - 1] + 1 /\ t[k] \in {Any, s[cut[k]]}
  BY DEF MatchesPrefix
<1> DEFINE new == [k \in 0..(b + 1) |-> IF k <= b THEN cut[k] ELSE c]
<1>2. new \in [0..(b + 1) -> 0..c]  OBVIOUS
<1>3. new[0] = 0 /\ new[b + 1] = c /\ new[b] = a  BY <1>1
<1>4. ASSUME NEW k \in 1..(b + 1)
      PROVE  IF t[k] = Star THEN new[k - 1] <= new[k]
             ELSE new[k] = new[k - 1] + 1 /\ t[k] \in {Any, s[new[k]]}
  <2>1. CASE k = b + 1  BY <1>3, <2>1
  <2>2. CASE k # b + 1
    <3>1. k \in 1..b /\ new[k] = cut[k] /\ new[k - 1] = cut[k - 1]  BY <2>2
    <3> QED  BY <1>1, <3>1
  <2> QED  BY <2>1, <2>2
<1> HIDE DEF new
<1> QED  BY <1>2, <1>3, <1>4 DEF MatchesPrefix

\* A * that is the last pattern character can take one character more.
LEMMA StarGrows ==
    ASSUME NEW s, NEW t, NEW a \in Nat, NEW b \in Nat,
           MatchesPrefix(s, a, t, b + 1), t[b + 1] = Star
    PROVE  MatchesPrefix(s, a + 1, t, b + 1)
<1>1. PICK cut \in [0..(b + 1) -> 0..a] :
         /\ cut[0] = 0
         /\ cut[b + 1] = a
         /\ \A k \in 1..(b + 1) :
               IF t[k] = Star THEN cut[k - 1] <= cut[k]
               ELSE cut[k] = cut[k - 1] + 1 /\ t[k] \in {Any, s[cut[k]]}
  BY DEF MatchesPrefix
<1> DEFINE new == [k \in 0..(b + 1) |-> IF k <= b THEN cut[k] ELSE a + 1]
<1>2. new \in [0..(b + 1) -> 0..(a + 1)]  BY <1>1
<1>3. new[0] = 0 /\ new[b + 1] = a + 1  BY <1>1
<1>4. ASSUME NEW k \in 1..(b + 1)
      PROVE  IF t[k] = Star THEN new[k - 1] <= new[k]
             ELSE new[k] = new[k - 1] + 1 /\ t[k] \in {Any, s[new[k]]}
  <2>1. CASE k = b + 1
    <3>1. new[b] = cut[b] /\ cut[b] \in 0..a  OBVIOUS
    <3> QED  BY <1>3, <2>1, <3>1
  <2>2. CASE k # b + 1
    <3>1. k \in 1..b /\ new[k] = cut[k] /\ new[k - 1] = cut[k - 1]  BY <2>2
    <3> QED  BY <1>1, <3>1
  <2> QED  BY <2>1, <2>2
<1> HIDE DEF new
<1> QED  BY <1>2, <1>3, <1>4 DEF MatchesPrefix

-----------------------------------------------------------------------------
\* The loop starts before both arguments, with nothing consumed.
LEMMA InitInv == Init => IInv
<1> SUFFICES ASSUME Init PROVE IInv  OBVIOUS
<1>1. TypeOK  BY InputsAssumption, PatternsAssumption DEF Init, TypeOK
<1>2. MatchesPrefix(input, 0, pattern, 0)
  <2> DEFINE cut == [k \in 0..0 |-> 0]
  <2>1. cut \in [0..0 -> 0..0] /\ cut[0] = 0 /\ 1..0 = {}  OBVIOUS
  <2> HIDE DEF cut
  <2> QED  BY <2>1 DEF MatchesPrefix
<1> QED  BY <1>1, <1>2 DEF Init, IInv, ConsumedMatches, ExcludesOnlyMatches

\* Every branch of the loop body keeps what was consumed a match.
LEMMA StepInv == IInv /\ [Next]_vars => IInv'
<1> SUFFICES ASSUME IInv, [Next]_vars PROVE IInv'  OBVIOUS
<1> USE DEF IInv, ConsumedMatches, ExcludesOnlyMatches, TypeOK
<1>0. Len(input) \in Nat /\ Len(pattern) \in Nat  BY StringTypes
<1>1. CASE TakeChar
  <2>1. input[i + 1] \notin {Star, Any}  BY <1>0, <1>1, InputsAssumption DEF TakeChar, Scanning
  <2>2. pattern[p + 1] # Star /\ pattern[p + 1] \in {Any, input[i + 1]}
    BY <1>1, <2>1, WildcardsAssumption DEF TakeChar, CharMatches, CharAt
  <2>3. MatchesPrefix(input, i, pattern, p) /\ i \in Nat /\ p \in Nat
    BY <1>0, <1>1 DEF TakeChar, Scanning
  <2> HIDE DEF IInv, ConsumedMatches, ExcludesOnlyMatches, TypeOK
  <2>4. MatchesPrefix(input, i + 1, pattern, p + 1)
    BY <2>2, <2>3, ExtendByChar
  <2> USE DEF IInv, ConsumedMatches, ExcludesOnlyMatches, TypeOK
  <2> QED  BY <1>0, <1>1, <2>4 DEF TakeChar, Scanning, CharMatches
<1>2. CASE MeetStar
  <2>1. pattern[p + 1] = Star  BY <1>2 DEF MeetStar, AtStar, CharAt
  <2>2. MatchesPrefix(input, i, pattern, p + 1)
    BY <1>2, <2>1, <1>0, ExtendByStar DEF MeetStar, Scanning
  <2> QED  BY <1>0, <1>2, <2>1, <2>2 DEF MeetStar, Scanning, AtStar
<1>3. CASE Backtrack
  <2>1. starP \in Nat /\ starI \in Nat /\ starI + 1 <= Len(input) /\ starP + 1 <= Len(pattern)
    BY <1>0, <1>3 DEF Backtrack, Scanning
  <2>2. MatchesPrefix(input, starI + 1, pattern, starP + 1)
    BY <1>3, <2>1, StarGrows DEF Backtrack
  <2> QED  BY <1>0, <1>3, <2>1, <2>2 DEF Backtrack, Scanning
<1>4. CASE GiveUp  BY <1>4 DEF GiveUp, Scanning
<1>5. CASE InputDone  BY <1>5 DEF InputDone
<1>6. CASE SkipStar
  <2>1. pattern[p + 1] = Star  BY <1>6 DEF SkipStar, AtStar, CharAt
  <2>2. MatchesPrefix(input, i, pattern, p + 1)
    BY <1>6, <2>1, <1>0, ExtendByStar DEF SkipStar
  <2> QED  BY <1>0, <1>6, <2>2 DEF SkipStar, AtStar
<1>7. CASE Return  BY <1>7 DEF Return, Matches
<1>8. CASE UNCHANGED vars  BY <1>8 DEF vars
<1> QED  BY <1>1, <1>2, <1>3, <1>4, <1>5, <1>6, <1>7, <1>8 DEF Next

\* Both indices stay within their strings and the star positions behind them,
\* so no character access of the loop is out of range.
THEOREM IndicesInRange == Spec => []TypeOK
<1>1. IInv => TypeOK  BY DEF IInv
<1> QED  BY <1>1, InitInv, StepInv, PTL DEF Spec

\* GlobMatch says yes only when the whole name matches the whole pattern.
THEOREM NoFalseExclusion == Spec => []ExcludesOnlyMatches
<1>1. IInv => ExcludesOnlyMatches  BY DEF IInv
<1> QED  BY <1>1, InitInv, StepInv, PTL DEF Spec

-----------------------------------------------------------------------------
(* The other direction.                                                     *)

\* A way to read the whole name as the whole pattern, as in MatchesPrefix.
Alignment(cut) ==
    /\ cut \in [0..Len(pattern) -> 0..Len(input)]
    /\ cut[0] = 0
    /\ cut[Len(pattern)] = Len(input)
    /\ \A k \in 1..Len(pattern) :
          IF pattern[k] = Star THEN cut[k - 1] <= cut[k]
          ELSE /\ cut[k] = cut[k - 1] + 1
               /\ pattern[k] \in {Any, input[cut[k]]}

\* Every alignment goes through where the loop is, as long as there was no *;
\* from then on the last * ends in it no earlier than where the loop has it,
\* and what follows the * is as long as what the loop has matched since.
NoneMissed ==
    /\ result = "scan" /\ starP # -1 => i = starI + (p - (starP + 1))
    /\ \A cut : Alignment(cut) =>
          /\ result = "scan" /\ starP = -1 => cut[p] = i
          /\ result = "scan" /\ starP # -1 =>
                /\ starI <= cut[starP + 1]
                /\ cut[p] = cut[starP + 1] + (p - (starP + 1))
          /\ result = "tail" => cut[p] = Len(input)
          /\ result # "no"

\* A match is an alignment.
LEMMA MatchIsAlignment ==
    Matches(input, pattern) <=> \E cut : Alignment(cut)
BY DEF Matches, MatchesPrefix, Alignment

\* The cuts of an alignment are positions of the name.
LEMMA CutRange ==
    ASSUME NEW cut, Alignment(cut), NEW k \in 0..Len(pattern)
    PROVE  cut[k] \in 0..Len(input)
<1>1. cut \in [0..Len(pattern) -> 0..Len(input)]  BY DEF Alignment
<1> QED  BY ONLY <1>1, k \in 0..Len(pattern)

\* An alignment's steps, at the current position of the loop.
LEMMA NextCut ==
    ASSUME IInv, NEW cut, Alignment(cut)
    PROVE  /\ cut[p] \in 0..Len(input)
           /\ p = Len(pattern) => cut[p] = Len(input)
           /\ p < Len(pattern) => cut[p + 1] \in 0..Len(input)
           /\ AtStar => cut[p] <= cut[p + 1]
           /\ p < Len(pattern) /\ ~AtStar =>
                 /\ cut[p + 1] = cut[p] + 1
                 /\ pattern[p + 1] \in {Any, input[cut[p] + 1]}
<1>1. Len(input) \in Nat /\ Len(pattern) \in Nat  BY StringTypes DEF IInv
<1>2. p \in 0..Len(pattern)  BY DEF IInv, TypeOK
<1>3. cut[p] \in 0..Len(input)  BY <1>2, CutRange
<1>4. p = Len(pattern) => cut[p] = Len(input)  BY DEF Alignment
<1>5. ASSUME p < Len(pattern)
      PROVE  /\ cut[p + 1] \in 0..Len(input)
             /\ pattern[p + 1] = Star => cut[p] <= cut[p + 1]
             /\ pattern[p + 1] # Star =>
                   /\ cut[p + 1] = cut[p] + 1
                   /\ pattern[p + 1] \in {Any, input[cut[p] + 1]}
  <2>1. p + 1 \in 1..Len(pattern) /\ p + 1 \in 0..Len(pattern) /\ (p + 1) - 1 = p
    BY <1>1, <1>2, <1>5
  <2> QED  BY <2>1 DEF Alignment
<1> QED  BY <1>3, <1>4, <1>5 DEF AtStar, CharAt

\* Where the loop cannot go on, no alignment goes through.
LEMMA NotThroughHere ==
    ASSUME IInv, NEW cut, Alignment(cut), Scanning, ~CharMatches, ~AtStar
    PROVE  cut[p] # i
<1>1. i \in Nat /\ i < Len(input) /\ Len(input) \in Nat /\ p \in 0..Len(pattern)
  BY StringTypes DEF IInv, TypeOK, Scanning
<1>2. Len(pattern) \in Nat  BY StringTypes DEF IInv
<1>3. CASE p = Len(pattern)  BY <1>1, <1>3, NextCut
<1>4. CASE p < Len(pattern)
  <2>1. pattern[p + 1] \in {Any, input[cut[p] + 1]}  BY <1>4, NextCut
  <2>2. pattern[p + 1] \notin {Any, input[i + 1]}  BY <1>4 DEF CharMatches, CharAt
  <2> QED  BY <2>1, <2>2
<1> QED  BY <1>1, <1>2, <1>3, <1>4

\* Before the first step every alignment is at its beginning.
LEMMA InitMissed == Init => NoneMissed
BY DEF Init, NoneMissed, Alignment

\* Each branch leaves out only cuts that no alignment has.
LEMMA StepMissed == IInv /\ NoneMissed /\ [Next]_vars => NoneMissed'
<1> SUFFICES ASSUME IInv, NoneMissed, [Next]_vars PROVE NoneMissed'  OBVIOUS
<1>0. /\ Len(input) \in Nat /\ Len(pattern) \in Nat
      /\ i \in 0..Len(input) /\ p \in 0..Len(pattern)
      /\ starI \in -1..i /\ starP \in -1..(p - 1)
  BY StringTypes DEF IInv, TypeOK
<1>k. ASSUME UNCHANGED <<input, pattern>>
      PROVE  \A cut : Alignment(cut)' <=> Alignment(cut)
  BY <1>k DEF Alignment
<1>s. ASSUME starP # -1, NEW cut, Alignment(cut)
      PROVE  cut[starP + 1] \in 0..Len(input)
  <2>1. starP + 1 \in 0..Len(pattern)  BY <1>0, <1>s
  <2> QED  BY ONLY <1>s, <2>1, CutRange
<1>1. CASE TakeChar
  <2>1. input[i + 1] \notin {Star, Any}
    BY <1>0, <1>1, InputsAssumption DEF TakeChar, Scanning, IInv, TypeOK
  <2>2. p < Len(pattern) /\ ~AtStar
    BY <1>1, <2>1, WildcardsAssumption DEF TakeChar, CharMatches, CharAt, AtStar
  <2>3. \A cut : Alignment(cut) => cut[p + 1] = cut[p] + 1 /\ cut[p] \in 0..Len(input)
    BY <2>2, NextCut
  <2>4. starP # -1 => \A cut : Alignment(cut) => cut[starP + 1] \in 0..Len(input)
    BY <1>s
  <2> QED  BY <1>0, <1>1, <1>k, <2>3, <2>4 DEF TakeChar, Scanning, NoneMissed
<1>2. CASE MeetStar
  <2>1. \A cut : Alignment(cut) =>
           /\ cut[p] <= cut[p + 1]
           /\ cut[p] \in 0..Len(input) /\ cut[p + 1] \in 0..Len(input)
    BY <1>2, NextCut DEF MeetStar, AtStar
  <2>2. ASSUME NEW cut, Alignment(cut) PROVE i <= cut[p]
    <3>1. CASE starP = -1  BY <1>0, <1>2, <2>2, <3>1 DEF MeetStar, Scanning, NoneMissed
    <3>2. CASE starP # -1
      <4>1. cut[starP + 1] \in 0..Len(input)  BY <1>s, <2>2, <3>2
      <4> QED  BY <1>0, <1>2, <2>2, <3>2, <4>1 DEF MeetStar, Scanning, NoneMissed
    <3> QED  BY <3>1, <3>2
  <2> QED  BY <1>0, <1>2, <1>k, <2>1, <2>2 DEF MeetStar, Scanning, NoneMissed
<1>3. CASE Backtrack
  <2>1. starP # -1 /\ result = "scan"  BY <1>3 DEF Backtrack, Scanning
  <2>2. ASSUME NEW cut, Alignment(cut) PROVE starI + 1 <= cut[starP + 1]
    <3>1. cut[p] # i  BY <1>3, <2>2, NotThroughHere DEF Backtrack
    <3>2. cut[starP + 1] \in 0..Len(input)  BY <1>s, <2>1, <2>2
    <3> QED  BY <1>0, <2>1, <2>2, <3>1, <3>2 DEF NoneMissed
  <2>3. \A cut : Alignment(cut) => cut[starP + 1] \in 0..Len(input)
    BY <1>s, <2>1
  <2> QED  BY <1>0, <1>3, <1>k, <2>1, <2>2, <2>3 DEF Backtrack, NoneMissed
<1>4. CASE GiveUp
  <2>1. \A cut : ~Alignment(cut)
    <3> SUFFICES ASSUME NEW cut, Alignment(cut) PROVE FALSE  OBVIOUS
    <3>1. cut[p] # i  BY <1>4, NotThroughHere DEF GiveUp
    <3> QED  BY <1>4, <3>1 DEF GiveUp, Scanning, NoneMissed
  <2> QED  BY <1>4, <1>k, <2>1 DEF GiveUp, NoneMissed
<1>5. CASE InputDone
  <2>1. ASSUME NEW cut, Alignment(cut) PROVE cut[p] = Len(input)
    <3>1. cut[p] \in 0..Len(input)  BY <1>0, <2>1, CutRange
    <3>2. CASE starP = -1  BY <1>5, <2>1, <3>2 DEF InputDone, NoneMissed
    <3>3. CASE starP # -1
      <4>1. cut[starP + 1] \in 0..Len(input)  BY <1>s, <2>1, <3>3
      <4> QED  BY <1>0, <1>5, <2>1, <3>1, <3>3, <4>1 DEF InputDone, NoneMissed
    <3> QED  BY <3>2, <3>3
  <2> QED  BY <1>5, <1>k, <2>1 DEF InputDone, NoneMissed
<1>6. CASE SkipStar
  <2>1. ASSUME NEW cut, Alignment(cut) PROVE cut[p + 1] = Len(input)
    <3>1. cut[p] = Len(input)  BY <1>6, <2>1 DEF SkipStar, NoneMissed
    <3>2. cut[p] <= cut[p + 1] /\ cut[p + 1] \in 0..Len(input)
      BY <1>6, <2>1, NextCut DEF SkipStar, AtStar
    <3> QED  BY <1>0, <3>1, <3>2
  <2> QED  BY <1>6, <1>k, <2>1 DEF SkipStar, NoneMissed
<1>7. CASE Return
  <2>1. ASSUME NEW cut, Alignment(cut), p # Len(pattern) PROVE FALSE
    <3>1. cut[p] = Len(input)  BY <1>7, <2>1 DEF Return, NoneMissed
    <3>2. p < Len(pattern) /\ ~AtStar  BY <1>0, <1>7, <2>1 DEF Return
    <3>3. cut[p + 1] = cut[p] + 1 /\ cut[p + 1] \in 0..Len(input)
      BY <2>1, <3>2, NextCut
    <3> QED  BY <1>0, <3>1, <3>3
  <2> QED  BY <1>7, <1>k, <2>1 DEF Return, NoneMissed
<1>8. CASE UNCHANGED vars  BY <1>8, <1>k DEF vars, NoneMissed
<1> QED  BY <1>1, <1>2, <1>3, <1>4, <1>5, <1>6, <1>7, <1>8 DEF Next

\* GlobMatch says no only when the name does not match: giving the last *
\* one character more at a time, and never an earlier one, misses nothing.
THEOREM NoMissedExclusion == Spec => []ExcludesAllMatches
<1>1. NoneMissed => ExcludesAllMatches
  BY MatchIsAlignment DEF NoneMissed, ExcludesAllMatches
<1> QED  BY <1>1, InitInv, StepInv, InitMissed, StepMissed, PTL DEF Spec

-----------------------------------------------------------------------------
(* How long the loop can take.                                             *)

\* A number of two digits to the base B: the first digit decides.
LEMMA FirstDigit ==
    ASSUME NEW B \in Nat, NEW x \in Nat, NEW y \in Nat, NEW c \in Nat, NEW d \in Nat,
           x < y, c < B
    PROVE  x * B + c < y * B + d
<1>1. PICK k \in Nat : y = x + 1 + k
  <2>1. y - (x + 1) \in Nat /\ y = x + 1 + (y - (x + 1))  OBVIOUS
  <2> QED  BY <2>1
<1>2. y * B = x * B + B + k * B  BY <1>1
<1>3. k * B \in Nat /\ x * B \in Nat  OBVIOUS
<1> QED  BY <1>2, <1>3

\* What is left to do: stars to meet, characters for the last one to take,
\* pattern to walk through, each counting only when those before it stay.
Left(L, P, sp, si, q, stage) ==
    ((P - sp) * (L + 2) + (L - si)) * (P + 3) + ((P - q) + stage)

\* Later in that order is less left.
LEMMA LeftDecreases ==
    ASSUME NEW L \in Nat, NEW P \in Nat,
           NEW sp \in -1..P, NEW si \in -1..L, NEW q \in 0..P, NEW st \in 0..2,
           NEW tp \in -1..P, NEW ti \in -1..L, NEW r \in 0..P, NEW su \in 0..2,
           \/ sp < tp
           \/ sp = tp /\ si < ti
           \/ sp = tp /\ si = ti /\ q - st < r - su
    PROVE  /\ Left(L, P, sp, si, q, st) \in Nat
           /\ Left(L, P, tp, ti, r, su) < Left(L, P, sp, si, q, st)
<1> DEFINE B == L + 2
           C == P + 3
           c == (P - q) + st
           d == (P - r) + su
           x == (P - sp) * B + (L - si)
           y == (P - tp) * B + (L - ti)
<1>1. /\ B \in Nat /\ C \in Nat
      /\ c \in Nat /\ d \in Nat /\ d < C
      /\ P - sp \in Nat /\ P - tp \in Nat
      /\ L - si \in Nat /\ L - ti \in Nat /\ L - ti < B
  OBVIOUS
<1>2. x \in Nat /\ y \in Nat
  <2> HIDE DEF B
  <2> QED  BY <1>1
<1>3. Left(L, P, sp, si, q, st) = x * C + c /\ Left(L, P, tp, ti, r, su) = y * C + d
  BY DEF Left
<1>4. sp < tp => P - tp < P - sp  OBVIOUS
<1>5. si < ti => L - ti < L - si  OBVIOUS
<1>6. q - st < r - su => d < c  OBVIOUS
<1> HIDE DEF B, C, c, d
<1>7. sp < tp => y < x  BY <1>1, <1>4, FirstDigit
<1>8. sp = tp /\ si < ti => y < x  BY <1>1, <1>5
<1>9. sp = tp /\ si = ti => y = x  OBVIOUS
<1> HIDE DEF x, y
<1>10. x * C \in Nat /\ x * C + c \in Nat  BY <1>1, <1>2
<1>11. y < x => y * C + d < x * C + c  BY <1>1, <1>2, FirstDigit
<1>12. y = x /\ d < c => y * C + d < x * C + c  BY <1>1, <1>10
<1> QED  BY <1>3, <1>6, <1>7, <1>8, <1>9, <1>10, <1>11, <1>12

Stage == CASE result = "scan" -> 2 [] result = "tail" -> 1 [] OTHER -> 0

StepsLeft == Left(Len(input), Len(pattern), starP, starI, p, Stage)

StepCounts == StepsLeft \in Nat /\ StepsLeft' < StepsLeft

\* A star met later outweighs any character given back, and a character given
\* to the last star any part of the pattern walked through again: GlobMatch
\* returns after a number of iterations that is quadratic in the length of the
\* pattern and linear in that of the name, whatever the two are.
THEOREM EveryIterationCounts == Spec => [][StepCounts]_vars
<1>1. ASSUME TypeOK, TypeOK', Next PROVE StepCounts
  <2>1. input' = input /\ pattern' = pattern
    BY <1>1 DEF Next, TakeChar, MeetStar, Backtrack, GiveUp, InputDone, SkipStar, Return
  <2> DEFINE L == Len(input)
             P == Len(pattern)
  <2>2. L \in Nat /\ P \in Nat  BY <1>1, StringTypes
  <2>3. /\ starP \in -1..P /\ starI \in -1..L /\ p \in 0..P /\ Stage \in 0..2
        /\ starP < p
    BY <1>1, <2>2 DEF TypeOK, Stage
  <2>4. /\ starP' \in -1..P /\ starI' \in -1..L /\ p' \in 0..P /\ Stage' \in 0..2
    BY <1>1, <2>1, <2>2 DEF TypeOK, Stage
  <2>5. \/ starP < starP'
        \/ starP = starP' /\ starI < starI'
        \/ starP = starP' /\ starI = starI' /\ p - Stage < p' - Stage'
    <3>1. CASE TakeChar  BY <2>3, <3>1 DEF TakeChar, Stage
    <3>2. CASE MeetStar  BY <2>3, <3>2 DEF MeetStar
    <3>3. CASE Backtrack  BY <2>3, <3>3 DEF Backtrack
    <3>4. CASE GiveUp  BY <2>3, <3>4 DEF GiveUp, Scanning, Stage
    <3>5. CASE InputDone  BY <2>3, <3>5 DEF InputDone, Stage
    <3>6. CASE SkipStar  BY <2>3, <3>6 DEF SkipStar, Stage
    <3>7. CASE Return
      <4>1. result = "tail" /\ result' \in {"yes", "no"} /\ p' = p /\ starP' = starP /\ starI' = starI
        BY <3>7 DEF Return
      <4> QED  BY <2>3, <4>1 DEF Stage
    <3> QED  BY <1>1, <3>1, <3>2, <3>3, <3>4, <3>5, <3>6, <3>7 DEF Next
  <2> HIDE DEF L, P
  <2>6. /\ Left(L, P, starP, starI, p, Stage) \in Nat
        /\ Left(L, P, starP', starI', p', Stage') < Left(L, P, starP, starI, p, Stage)
    BY <2>2, <2>3, <2>4, <2>5, LeftDecreases
  <2> QED  BY <2>1, <2>6 DEF StepCounts, StepsLeft, L, P
<1>2. TypeOK /\ TypeOK' /\ [Next]_vars => [StepCounts]_vars
  BY <1>1
<1> QED  BY <1>2, IndicesInRange, PTL DEF Spec
=============================================================================
