---------------------------- MODULE SequenceLemmas ----------------------------
(***************************************************************************)
(* Facts about natural numbers and sequences that the proofs about the     *)
(* modules need: induction, in a form whose hypothesis is a set and not an *)
(* operator, and what FlattenSeq makes of a sequence of sequences.         *)
(***************************************************************************)
EXTENDS Integers, SequencesExt, SequenceTheorems, WellFoundedInduction, TLAPS

\* The least-number principle, of sets.
LEMMA LeastNat ==
  ASSUME NEW T, T \subseteq Nat, T # {}
  PROVE  \E m \in T : \A k \in T : m <= k
<1> DEFINE R == OpToRel(<, Nat)
<1>1. IsWellFoundedOn(R, Nat)  BY NatLessThanWellFounded
<1>2. \A x, y \in Nat : x < y => <<x, y>> \in R  BY DEF OpToRel
<1> HIDE DEF R
<1>3. PICK m \in T : \A y \in T : ~ (<<y, m>> \in R)
  BY <1>1, WFMin
<1>4. \A k \in T : k \in Nat /\ m \in Nat /\ ~ (k < m)  BY <1>2, <1>3
<1>5. \A k \in T : m <= k BY <1>4
<1> QED  BY <1>5

\* Induction: a set that 0 is in and that is closed under successor.
LEMMA SetInduction ==
  ASSUME NEW S, 0 \in S, \A n \in Nat : n \in S => n + 1 \in S
  PROVE  Nat \subseteq S
<1> DEFINE T == Nat \ S
<1> SUFFICES ASSUME T # {} PROVE FALSE  OBVIOUS
<1>1. PICK m \in T : \A k \in T : m <= k  BY LeastNat
<1>2. m \in Nat /\ m # 0 /\ m - 1 \in Nat BY <1>1
<1>3. m - 1 \in S  BY <1>1, <1>2
<1>4. (m - 1) + 1 \in S BY <1>2, <1>3
<1> QED  BY <1>1, <1>2, <1>4

\* The recursive function inside FlattenSeq exists: one for each length,
\* extended by the next position.
LEMMA FlattenStep ==
  ASSUME NEW ss, Len(ss) \in Nat \ {0}
  PROVE  \E f : /\ f = [i \in 1..Len(ss) |-> IF i = 1 THEN ss[i] ELSE f[i - 1] \o ss[i]]
                /\ FlattenSeq(ss) = f[Len(ss)]
<1> DEFINE F(f, k) == f = [i \in 1..k |-> IF i = 1 THEN ss[i] ELSE f[i - 1] \o ss[i]]
           S == {k \in Nat : \E f : F(f, k)}
<1>1. 0 \in S
  <2> DEFINE f == [i \in {} |-> 0]
  <2>1. 1..0 = {} OBVIOUS
  <2>2. F(f, 0) BY <2>1
  <2> QED BY <2>2
<1>2. ASSUME NEW k \in Nat, k \in S PROVE k + 1 \in S
  <2>1. PICK f : F(f, k) BY <1>2
  <2> DEFINE g == [i \in 1..(k+1) |-> IF i <= k THEN f[i] ELSE IF i = 1 THEN ss[i] ELSE f[i - 1] \o ss[i]]
  <2>2. \A i \in 1..(k+1) : g[i] = IF i = 1 THEN ss[i] ELSE g[i - 1] \o ss[i]
    <3> TAKE i \in 1..(k+1)
    <3>1. CASE i <= k
      <4>1. i \in 1..k /\ (i # 1 => i - 1 \in 1..(k+1) /\ i - 1 <= k) BY <3>1
      <4>2. f[i] = IF i = 1 THEN ss[i] ELSE f[i - 1] \o ss[i] BY <2>1, <4>1
      <4>3. g[i] = f[i] BY <3>1
      <4>4. i # 1 => g[i - 1] = f[i - 1] BY <4>1
      <4> HIDE DEF g
      <4> QED BY <4>2, <4>3, <4>4
    <3>2. CASE ~ (i <= k)
      <4>1. g[i] = IF i = 1 THEN ss[i] ELSE f[i - 1] \o ss[i] BY <3>2
      <4>2. i # 1 => i - 1 \in 1..(k+1) /\ i - 1 <= k BY <3>2
      <4>4. i # 1 => g[i - 1] = f[i - 1] BY <4>2
      <4> HIDE DEF g
      <4> QED BY <4>1, <4>4
    <3> QED BY <3>1, <3>2
  <2>3. F(g, k + 1)
    <3> DEFINE h == [i \in 1..(k+1) |-> IF i = 1 THEN ss[i] ELSE g[i - 1] \o ss[i]]
    <3>1. DOMAIN g = 1..(k+1) /\ g = [i \in DOMAIN g |-> g[i]] OBVIOUS
    <3> HIDE DEF g
    <3>2. g = h BY <2>2, <3>1
    <3> QED BY <3>2
  <2> HIDE DEF g, F
  <2> QED BY <2>3
<1> HIDE DEF S
<1>3. Len(ss) \in S BY <1>1, <1>2, SetInduction
<1>4. \E f : F(f, Len(ss)) BY <1>3 DEF S
<1>5. F(CHOOSE f : F(f, Len(ss)), Len(ss)) BY <1>4
<1>6. FlattenSeq(ss) = (CHOOSE f : F(f, Len(ss)))[Len(ss)]  BY DEF FlattenSeq
<1> QED BY <1>5, <1>6

\* No two elements of the sequences in ss are the same.
Distinct(ss) ==
    \A a, c \in DOMAIN ss : \A b \in DOMAIN ss[a] : \A d \in DOMAIN ss[c] :
        ss[a][b] = ss[c][d] => a = c /\ b = d

\* Each element of the flat sequence is one of the given ones, and when those
\* are all different, so are the elements of the flat sequence.
LEMMA FlattenFacts ==
  ASSUME NEW T, NEW ss \in Seq(Seq(T))
  PROVE  /\ FlattenSeq(ss) \in Seq(T)
         /\ \A j \in DOMAIN FlattenSeq(ss) :
               \E a \in DOMAIN ss : \E b \in DOMAIN ss[a] : FlattenSeq(ss)[j] = ss[a][b]
         /\ Distinct(ss) => IsInjective(FlattenSeq(ss))
<1>1. CASE ss = <<>>
  <2>1. FlattenSeq(ss) = <<>>  BY <1>1 DEF FlattenSeq
  <2> QED  BY <2>1 DEF IsInjective
<1>2. CASE ss # <<>>
  <2>1. Len(ss) \in Nat \ {0} /\ DOMAIN ss = 1..Len(ss)  BY <1>2
  <2>2. PICK f : /\ f = [i \in 1..Len(ss) |-> IF i = 1 THEN ss[i] ELSE f[i - 1] \o ss[i]]
                 /\ FlattenSeq(ss) = f[Len(ss)]
    BY <2>1, FlattenStep
  <2>f. \A i \in 1..Len(ss) : f[i] = IF i = 1 THEN ss[i] ELSE f[i - 1] \o ss[i]
    BY <2>2
  <2> DEFINE Good(q, k) ==
        /\ q \in Seq(T)
        /\ \A j \in 1..Len(q) : \E a \in 1..k : \E b \in 1..Len(ss[a]) : q[j] = ss[a][b]
        /\ Distinct(ss) => \A j, l \in 1..Len(q) : q[j] = q[l] => j = l
      S == {k \in Nat : k \in 1..Len(ss) => Good(f[k], k)}
  <2> HIDE DEF Good
  <2>3. 0 \in S  OBVIOUS
  <2>4. ASSUME NEW k \in Nat, k \in S PROVE k + 1 \in S
    <3> SUFFICES ASSUME k + 1 \in 1..Len(ss) PROVE Good(f[k + 1], k + 1)  OBVIOUS
    <3> DEFINE r == ss[k + 1]
    <3>1. r \in Seq(T) /\ Len(r) \in Nat /\ DOMAIN r = 1..Len(r)  BY <2>1
    <3>2. f[k + 1] = IF k = 0 THEN r ELSE f[k] \o r
      <4>1. f[k + 1] = IF k + 1 = 1 THEN ss[k + 1] ELSE f[k + 1 - 1] \o ss[k + 1]  BY <2>f
      <4> QED  BY <4>1
    <3>3. \A b \in 1..Len(r) : k + 1 \in 1..(k + 1) /\ b \in 1..Len(ss[k + 1]) /\ r[b] = ss[k + 1][b]
      OBVIOUS
    <3>4. Distinct(ss) => \A b, d \in 1..Len(r) : r[b] = r[d] => b = d
      BY <2>1, <3>1 DEF Distinct
    <3>5. CASE k = 0
      <4>1. f[k + 1] = r  BY <3>2, <3>5
      <4> HIDE DEF r
      <4> QED  BY <3>1, <3>3, <3>4, <3>5, <4>1 DEF Good
    <3>6. CASE k # 0
      <4> DEFINE q == f[k]
                 t == q \o r
      <4>0. k \in 1..Len(ss) /\ Good(q, k)  BY <2>4, <3>6
      <4>1. /\ k \in 1..Len(ss) /\ q \in Seq(T)
            /\ \A j \in 1..Len(q) : \E a \in 1..k : \E b \in 1..Len(ss[a]) : q[j] = ss[a][b]
            /\ Distinct(ss) => \A j, l \in 1..Len(q) : q[j] = q[l] => j = l
        BY <4>0 DEF Good
      <4>2. f[k + 1] = t  BY <3>2, <3>6
      <4>3. Distinct(ss) => \A j \in 1..Len(q), b \in 1..Len(r) : q[j] # r[b]
        <5> SUFFICES ASSUME Distinct(ss), NEW j \in 1..Len(q), NEW b \in 1..Len(r)
                     PROVE  q[j] # r[b]
          OBVIOUS
        <5>1. PICK a \in 1..k : \E d \in 1..Len(ss[a]) : q[j] = ss[a][d]  BY <4>1
        <5>2. PICK d \in 1..Len(ss[a]) : q[j] = ss[a][d]  BY <5>1
        <5>3. a \in DOMAIN ss /\ k + 1 \in DOMAIN ss /\ a # k + 1 /\ ss[a] \in Seq(T)
          BY <2>1
        <5>4. d \in DOMAIN ss[a] /\ b \in DOMAIN ss[k + 1]  BY <3>1, <5>3
        <5> QED  BY <5>2, <5>3, <5>4 DEF Distinct
      <4> HIDE DEF q, r
      <4>4. /\ t \in Seq(T) /\ Len(q) \in Nat /\ Len(t) = Len(q) + Len(r)
            /\ \A j \in 1..Len(t) : IF j <= Len(q) THEN j \in 1..Len(q) /\ t[j] = q[j]
                                    ELSE j - Len(q) \in 1..Len(r) /\ t[j] = r[j - Len(q)]
        BY <3>1, <4>1
      <4> HIDE DEF t
      <4>5. ASSUME NEW j \in 1..Len(t)
            PROVE  \E a \in 1..(k + 1) : \E b \in 1..Len(ss[a]) : t[j] = ss[a][b]
        <5>1. CASE j <= Len(q)
          <6>1. j \in 1..Len(q) /\ t[j] = q[j]  BY <4>4, <5>1
          <6>2. PICK a \in 1..k : \E b \in 1..Len(ss[a]) : q[j] = ss[a][b]  BY <4>1, <6>1
          <6>3. a \in 1..(k + 1)  OBVIOUS
          <6> QED  BY <6>1, <6>2, <6>3
        <5>2. CASE ~ (j <= Len(q))
          <6>1. j - Len(q) \in 1..Len(r) /\ t[j] = r[j - Len(q)]  BY <4>4, <5>2
          <6> QED  BY <3>3, <6>1
        <5> QED  BY <5>1, <5>2
      <4>6. Distinct(ss) => \A j, l \in 1..Len(t) : t[j] = t[l] => j = l
        <5> SUFFICES ASSUME Distinct(ss), NEW j \in 1..Len(t), NEW l \in 1..Len(t), t[j] = t[l]
                     PROVE  j = l
          OBVIOUS
        <5>1. CASE j <= Len(q) /\ l <= Len(q)  BY <4>1, <4>4, <5>1
        <5>2. CASE ~ (j <= Len(q)) /\ ~ (l <= Len(q))
          <6>1. j - Len(q) = l - Len(q)  BY <3>4, <4>4, <5>2
          <6> QED  BY <4>4, <6>1
        <5>3. CASE j <= Len(q) /\ ~ (l <= Len(q))  BY <4>3, <4>4, <5>3
        <5>4. CASE ~ (j <= Len(q)) /\ l <= Len(q)  BY <4>3, <4>4, <5>4
        <5> QED  BY <5>1, <5>2, <5>3, <5>4
      <4> QED  BY <4>2, <4>4, <4>5, <4>6 DEF Good
    <3> QED  BY <3>5, <3>6
  <2> HIDE DEF S
  <2>5. Len(ss) \in S  BY <2>1, <2>3, <2>4, SetInduction
  <2>6. Good(FlattenSeq(ss), Len(ss))  BY <2>1, <2>2, <2>5 DEF S
  <2>7. FlattenSeq(ss) \in Seq(T) /\ DOMAIN FlattenSeq(ss) = 1..Len(FlattenSeq(ss))
    BY <2>6 DEF Good
  <2>8. \A a \in 1..Len(ss) : ss[a] \in Seq(T) /\ DOMAIN ss[a] = 1..Len(ss[a])  BY <2>1
  <2> QED  BY <2>1, <2>6, <2>7, <2>8 DEF Good, IsInjective
<1> QED  BY <1>1, <1>2

\* Two sequences one after the other: where the elements come from, and that
\* they are all different if they are in each part and between the parts.
LEMMA ConcatFacts ==
  ASSUME NEW T, NEW s \in Seq(T), NEW t \in Seq(T)
  PROVE  /\ s \o t \in Seq(T)
         /\ \A k \in DOMAIN (s \o t) : \/ \E j \in DOMAIN s : (s \o t)[k] = s[j]
                                       \/ \E j \in DOMAIN t : (s \o t)[k] = t[j]
         /\ /\ IsInjective(s) /\ IsInjective(t)
            /\ \A j \in DOMAIN s, l \in DOMAIN t : s[j] # t[l]
            => IsInjective(s \o t)
<1> DEFINE u == s \o t
<1>1. /\ u \in Seq(T) /\ DOMAIN u = 1..(Len(s) + Len(t))
      /\ Len(s) \in Nat /\ Len(t) \in Nat /\ DOMAIN s = 1..Len(s) /\ DOMAIN t = 1..Len(t)
      /\ \A k \in DOMAIN u : IF k <= Len(s) THEN k \in DOMAIN s /\ u[k] = s[k]
                             ELSE k - Len(s) \in DOMAIN t /\ u[k] = t[k - Len(s)]
  OBVIOUS
<1> HIDE DEF u
<1>2. \A k \in DOMAIN u : \/ \E j \in DOMAIN s : u[k] = s[j]
                          \/ \E j \in DOMAIN t : u[k] = t[j]
  BY <1>1
<1>3. ASSUME IsInjective(s), IsInjective(t), \A j \in DOMAIN s, l \in DOMAIN t : s[j] # t[l]
      PROVE  IsInjective(u)
  <2> SUFFICES ASSUME NEW j \in DOMAIN u, NEW l \in DOMAIN u, u[j] = u[l] PROVE j = l
    BY DEF IsInjective
  <2>1. CASE j <= Len(s) /\ l <= Len(s)  BY <1>1, <1>3, <2>1 DEF IsInjective
  <2>2. CASE ~ (j <= Len(s)) /\ ~ (l <= Len(s))
    <3>1. j - Len(s) = l - Len(s)  BY <1>1, <1>3, <2>2 DEF IsInjective
    <3> QED  BY <1>1, <3>1
  <2>3. CASE j <= Len(s) /\ ~ (l <= Len(s))  BY <1>1, <1>3, <2>3
  <2>4. CASE ~ (j <= Len(s)) /\ l <= Len(s)  BY <1>1, <1>3, <2>4
  <2> QED  BY <2>1, <2>2, <2>3, <2>4
<1> QED  BY <1>1, <1>2, <1>3 DEF u

\* The parts of a sequence whose elements are all different.
LEMMA ConcatParts ==
  ASSUME NEW T, NEW s \in Seq(T), NEW t \in Seq(T), IsInjective(s \o t)
  PROVE  /\ IsInjective(s) /\ IsInjective(t)
         /\ \A j \in DOMAIN s, l \in DOMAIN t : s[j] # t[l]
<1> DEFINE u == s \o t
<1>1. /\ Len(s) \in Nat /\ Len(t) \in Nat /\ DOMAIN s = 1..Len(s) /\ DOMAIN t = 1..Len(t)
      /\ \A k \in 1..Len(s) : k \in DOMAIN u /\ u[k] = s[k]
      /\ \A k \in 1..Len(t) : Len(s) + k \in DOMAIN u /\ u[Len(s) + k] = t[k]
  OBVIOUS
<1>2. \A j, k \in DOMAIN u : u[j] = u[k] => j = k  BY DEF IsInjective
<1> HIDE DEF u
<1>3. \A j, k \in DOMAIN s : s[j] = s[k] => j = k  BY <1>1, <1>2
<1>4. \A j, k \in DOMAIN t : t[j] = t[k] => j = k
  <2> TAKE j, k \in DOMAIN t
  <2>1. t[j] = t[k] => Len(s) + j = Len(s) + k  BY <1>1, <1>2
  <2> QED  BY <1>1, <2>1
<1>5. \A j \in DOMAIN s, l \in DOMAIN t : s[j] # t[l]
  <2> TAKE j \in DOMAIN s, l \in DOMAIN t
  <2>1. j # Len(s) + l  BY <1>1
  <2> QED  BY <1>1, <1>2, <2>1
<1> QED  BY <1>3, <1>4, <1>5 DEF IsInjective

\* What comes after a common beginning can be told from the whole.
LEMMA ConcatCancel ==
  ASSUME NEW T, NEW h \in Seq(T), NEW s \in Seq(T), NEW t \in Seq(T), h \o s = h \o t
  PROVE  s = t
<1>1. Len(h \o s) = Len(h) + Len(s) /\ Len(h \o t) = Len(h) + Len(t)  OBVIOUS
<1>2. Len(s) = Len(t) /\ Len(s) \in Nat /\ Len(h) \in Nat  BY <1>1
<1>3. \A k \in 1..Len(s) : s[k] = (h \o s)[Len(h) + k] /\ t[k] = (h \o t)[Len(h) + k]
  BY <1>2
<1>4. \A k \in 1..Len(s) : s[k] = t[k]  BY <1>3
<1> QED  BY <1>2, <1>4, SeqEqual
==============================================================================
