---------------------------- MODULE ProcmonProofs ---------------------------
(***************************************************************************)
(* Proofs about Procmon, for any requests, any cuts and any chart: replies *)
(* are the deserved ones in order, a client that waits is answered, and    *)
(* the samples count no CPU time twice.  The stream and the total of the   *)
(* samples are recursive functions; what they are is shown with the least  *)
(* number at which they could be something else.                           *)
(***************************************************************************)
EXTENDS Procmon, WellFoundedInduction, TLAPS

\* Every set of numbers that is not empty has a least element.
LEMMA LeastNumber ==
    ASSUME NEW S, S \subseteq Nat, S # {}
    PROVE  \E n \in S : \A m \in S : n <= m
<1> DEFINE R == OpToRel(<, Nat)
<1>1. IsWellFoundedOn(R, Nat)
  BY NatLessThanWellFounded
<1>2. PICK x \in S : \A y \in S : ~(<<y, x>> \in R)
  <2> HIDE DEF R
  <2> QED
    BY <1>1, WFMin
<1>3. \A y \in S : y < x => <<y, x>> \in R
  BY DEF OpToRel
<1>4. \A y \in S : x \in Nat /\ y \in Nat /\ ~(y < x)
  BY <1>2, <1>3, Zenon
<1> HIDE DEF R
<1> QED
  BY <1>4

\* The least counterexample, for a set B of them below n.
LEMMA NoLeast ==
    ASSUME NEW n \in Nat, NEW B, B \subseteq 0 .. n,
           \A k \in B : k # 0 /\ k - 1 \in B
    PROVE  B = {}
<1> SUFFICES ASSUME B # {} PROVE FALSE
  OBVIOUS
<1>1. B \subseteq Nat
  OBVIOUS
<1>2. PICK k \in B : \A j \in B : k <= j
  BY <1>1, LeastNumber
<1>3. k \in Nat /\ k <= k - 1
  BY <1>1, <1>2
<1> QED
  BY <1>3

-----------------------------------------------------------------------------
(* The samples.                                                            *)

\* c counts the CPU time before and after each sample of u.
Counts(u, c) ==
    /\ c \in [0 .. Len(u) -> Nat]
    /\ \A k \in 1 .. Len(u) : c[k] = c[k - 1] + u[k]

LEMMA TotalIs ==
    ASSUME NEW u \in Seq(Nat), NEW c, Counts(u, c)
    PROVE  Total(u) = c[Len(u)] - c[0]
<1> DEFINE N == Len(u)
           g == [k \in 0 .. N |-> c[k] - c[0]]
           Def(f) == f = [k \in 0 .. N |-> IF k = 0 THEN 0 ELSE f[k - 1] + u[k]]
           h == CHOOSE f : Def(f)
<1>1. N \in Nat /\ c \in [0 .. N -> Nat] /\ \A k \in 1 .. N : c[k] = c[k - 1] + u[k]
  BY DEF Counts
<1>2. \A k \in 0 .. N : g[k] = IF k = 0 THEN 0 ELSE g[k - 1] + u[k]
  <2> SUFFICES ASSUME NEW k \in 0 .. N
               PROVE  g[k] = IF k = 0 THEN 0 ELSE g[k - 1] + u[k]
    OBVIOUS
  <2>1. c[0] \in Nat /\ 0 \in 0 .. N
    BY <1>1
  <2>2. CASE k = 0
    BY <2>1, <2>2
  <2>3. CASE k # 0
    <3>1. k - 1 \in 0 .. N /\ k \in 1 .. N
      BY <1>1, <2>3
    <3>2. c[k] = c[k - 1] + u[k] /\ c[k - 1] \in Nat /\ u[k] \in Nat
      BY <1>1, <3>1, SMTT(40)
    <3>3. g[k] = c[k] - c[0] /\ g[k - 1] = c[k - 1] - c[0]
      BY <3>1
    <3> QED
      BY <2>1, <2>3, <3>2, <3>3
  <2> QED
    BY <2>2, <2>3
<1>3. Def(g)
  <2> DEFINE g2 == [k \in 0 .. N |-> IF k = 0 THEN 0 ELSE g[k - 1] + u[k]]
  <2>1. \A k \in 0 .. N : g[k] = g2[k]
    BY <1>2
  <2>2. g = [k \in 0 .. N |-> g[k]]
    OBVIOUS
  <2> HIDE DEF g
  <2>3. g2 = [k \in 0 .. N |-> g2[k]]
    OBVIOUS
  <2> HIDE DEF g2
  <2>4. g = g2
    BY <2>1, <2>2, <2>3
  <2> QED
    BY <2>4 DEF g2
<1>4. Def(h)
  BY <1>3, Zenon
<1>5. Total(u) = h[N]
  BY DEF Total
<1> HIDE DEF h
<1>6. \A k \in 0 .. N : h[k] = IF k = 0 THEN 0 ELSE h[k - 1] + u[k]
  <2> DEFINE h2 == [k \in 0 .. N |-> IF k = 0 THEN 0 ELSE h[k - 1] + u[k]]
  <2>1. h = h2
    BY <1>4
  <2>2. \A k \in 0 .. N : h2[k] = IF k = 0 THEN 0 ELSE h[k - 1] + u[k]
    OBVIOUS
  <2> HIDE DEF h2
  <2> QED
    BY <2>1, <2>2
<1>7. g[N] = c[N] - c[0] /\ N \in 0 .. N
  BY <1>1
<1> HIDE DEF g, N, Def
<1>8. \A k \in 0 .. N : h[k] = g[k]
  <2> DEFINE B == {k \in 0 .. N : h[k] # g[k]}
  <2>1. ASSUME NEW k \in B PROVE k # 0 /\ k - 1 \in B
    <3>1. k \in 0 .. N /\ h[k] # g[k]
      OBVIOUS
    <3>2. k # 0
      BY <1>2, <1>6, <3>1
    <3>3. k - 1 \in 0 .. N
      BY <1>1, <3>1, <3>2
    <3>4. h[k - 1] # g[k - 1]
      BY <1>2, <1>6, <3>1, <3>2
    <3> QED
      BY <3>2, <3>3, <3>4
  <2>2. B \subseteq 0 .. N
    OBVIOUS
  <2> HIDE DEF B
  <2>3. B = {}
    BY <1>1, <2>1, <2>2, NoLeast
  <2> QED
    BY <2>3 DEF B
<1> QED
  BY <1>5, <1>7, <1>8 DEF N

\* A sample is added, and the oldest dropped if the chart is full.
LEMMA PushCounts ==
    ASSUME NEW u \in Seq(Nat), NEW c, Counts(u, c), NEW d \in Nat
    PROVE  /\ PushBack(u, d) \in Seq(Nat)
           /\ \E c2 : /\ Counts(PushBack(u, d), c2)
                      /\ c2[Len(PushBack(u, d))] = c[Len(u)] + d
<1>1. Len(u) \in Nat /\ c \in [0 .. Len(u) -> Nat]
      /\ \A k \in 1 .. Len(u) : c[k] = c[k - 1] + u[k]
  BY DEF Counts
<1>2. c[Len(u)] \in Nat
  BY <1>1
<1>3. CASE Len(u) < ChartSize
  <2> DEFINE w == Append(u, d)
             c2 == [k \in 0 .. Len(u) + 1 |-> IF k <= Len(u) THEN c[k] ELSE c[Len(u)] + d]
  <2>1. PushBack(u, d) = w
    BY <1>3 DEF PushBack
  <2>2. /\ w \in Seq(Nat) /\ Len(w) = Len(u) + 1 /\ w[Len(u) + 1] = d
        /\ \A k \in 1 .. Len(u) : w[k] = u[k]
    OBVIOUS
  <2>3. /\ c2 \in [0 .. Len(u) + 1 -> Nat] /\ c2[Len(u) + 1] = c[Len(u)] + d
        /\ \A k \in 0 .. Len(u) : c2[k] = c[k]
    BY <1>1, <1>2
  <2> HIDE DEF w, c2
  <2>4. ASSUME NEW k \in 1 .. Len(u) + 1 PROVE c2[k] = c2[k - 1] + w[k]
    <3>1. CASE k = Len(u) + 1
      <4>1. k - 1 = Len(u) /\ Len(u) \in 0 .. Len(u)
        BY <1>1, <3>1
      <4> QED
        BY <2>2, <2>3, <3>1, <4>1
    <3>2. CASE k \in 1 .. Len(u)
      <4>1. k - 1 \in 0 .. Len(u) /\ k \in 0 .. Len(u)
        BY <1>1, <3>2
      <4> QED
        BY <1>1, <2>2, <2>3, <3>2, <4>1
    <3> QED
      BY <1>1, <3>1, <3>2
  <2>5. Counts(w, c2)
    BY <2>2, <2>3, <2>4 DEF Counts
  <2> QED
    BY <2>1, <2>2, <2>3, <2>5
<1>4. CASE ~(Len(u) < ChartSize)
  <2> DEFINE w == Append(Tail(u), d)
             c2 == [k \in 0 .. Len(u) |-> IF k < Len(u) THEN c[k + 1] ELSE c[Len(u)] + d]
  <2>1. Len(u) >= 1 /\ Len(u) \in Nat
    BY <1>1, <1>4, ProcmonAssumption
  <2>2. PushBack(u, d) = w
    BY <1>4 DEF PushBack
  <2>3. /\ Tail(u) \in Seq(Nat) /\ Len(Tail(u)) = Len(u) - 1
        /\ \A k \in 1 .. Len(u) - 1 : Tail(u)[k] = u[k + 1]
    BY <2>1
  <2>4. /\ w \in Seq(Nat) /\ Len(w) = Len(u) /\ w[Len(u)] = d
        /\ \A k \in 1 .. Len(u) - 1 : w[k] = u[k + 1]
    BY <2>1, <2>3
  <2>5. /\ c2 \in [0 .. Len(u) -> Nat] /\ c2[Len(u)] = c[Len(u)] + d
        /\ \A k \in 0 .. Len(u) - 1 : c2[k] = c[k + 1]
    BY <1>1, <1>2, <2>1, SMTT(40)
  <2> HIDE DEF w, c2
  <2>6. ASSUME NEW k \in 1 .. Len(u) PROVE c2[k] = c2[k - 1] + w[k]
    <3>1. k - 1 \in 0 .. Len(u) - 1 /\ (k - 1) + 1 = k
      BY <2>1
    <3>2. c2[k - 1] = c[k]
      BY <2>5, <3>1
    <3>3. CASE k = Len(u)
      BY <2>4, <2>5, <3>2, <3>3
    <3>4. CASE k # Len(u)
      <4>1. k \in 1 .. Len(u) - 1 /\ k \in 0 .. Len(u) - 1 /\ k + 1 \in 1 .. Len(u)
            /\ (k + 1) - 1 = k
        BY <2>1, <3>4
      <4>2. c2[k] = c[k + 1] /\ w[k] = u[k + 1]
        BY <2>4, <2>5, <4>1
      <4>3. c[k + 1] = c[(k + 1) - 1] + u[k + 1]
        BY <1>1, <4>1
      <4> QED
        BY <3>2, <4>1, <4>2, <4>3
    <3> QED
      BY <3>3, <3>4
  <2>7. Counts(w, c2)
    BY <2>4, <2>5, <2>6 DEF Counts
  <2> QED
    BY <2>2, <2>4, <2>5, <2>7
<1> QED
  BY <1>3, <1>4

\* What was sampled and what the next sample will add has been used.
Sampled ==
    /\ usage \in Seq(Nat) /\ utime \in Nat /\ burned \in Nat /\ last \in Nat
    /\ \E c : Counts(usage, c) /\ c[Len(usage)] + Delta(utime, last) <= burned

LEMMA CountsEnd ==
    ASSUME NEW u \in Seq(Nat), NEW c, Counts(u, c)
    PROVE  c[Len(u)] \in Nat /\ c[0] \in Nat /\ Len(u) \in Nat
<1>1. Len(u) \in Nat /\ c \in [0 .. Len(u) -> Nat]
  BY DEF Counts
<1> QED
  BY <1>1

LEMMA DeltaFacts ==
    ASSUME NEW a \in Nat, NEW b \in Nat
    PROVE  Delta(a, b) \in Nat /\ Delta(a, a) = 0
  BY DEF Delta

LEMMA InitSampled == ProcmonInit => Sampled
<1> SUFFICES ASSUME ProcmonInit PROVE Sampled
  OBVIOUS
<1>1. usage = <<>> /\ utime = 0 /\ burned = 0 /\ last = 0
  BY DEF ProcmonInit
<1> DEFINE c == [k \in {0} |-> 0]
<1>2. c \in [{0} -> Nat] /\ c[0] = 0 /\ Len(<<>>) = 0 /\ 0 .. 0 = {0} /\ 1 .. 0 = {}
  OBVIOUS
<1> HIDE DEF c
<1>3. Counts(<<>>, c)
  BY <1>2 DEF Counts
<1>4. c[Len(<<>>)] + Delta(0, 0) <= 0
  BY <1>2, DeltaFacts
<1> QED
  BY <1>1, <1>3, <1>4 DEF Sampled

LEMMA NextSampled == Sampled /\ [Next]_vars => Sampled'
<1> SUFFICES ASSUME Sampled, [Next]_vars PROVE Sampled'
  OBVIOUS
<1>1. PICK c : Counts(usage, c) /\ c[Len(usage)] + Delta(utime, last) <= burned
  BY DEF Sampled
<1>2. /\ usage \in Seq(Nat) /\ utime \in Nat /\ burned \in Nat /\ last \in Nat
      /\ c[Len(usage)] \in Nat
  BY <1>1, CountsEnd DEF Sampled
<1>3. CASE UNCHANGED sampleVars
  BY <1>3 DEF Sampled, sampleVars
<1>4. CASE tick
  <2>1. utime' = utime /\ burned' = burned /\ last' = utime
    BY <1>4 DEF tick
  <2>2. Delta(utime, last) \in Nat /\ Delta(utime, utime) = 0
    BY <1>2, DeltaFacts
  <2>3. CASE ticks > 0
    <3>1. usage' = PushBack(usage, Delta(utime, last))
      BY <1>4, <2>3 DEF tick
    <3>2. /\ usage' \in Seq(Nat)
          /\ \E c2 : Counts(usage', c2)
                     /\ c2[Len(usage')] = c[Len(usage)] + Delta(utime, last)
      BY <1>1, <1>2, <2>2, <3>1, PushCounts
    <3>3. PICK c2 : Counts(usage', c2)
                    /\ c2[Len(usage')] = c[Len(usage)] + Delta(utime, last)
      BY <3>2
    <3>4. c2[Len(usage')] + Delta(utime, utime) <= burned
      BY <1>1, <1>2, <2>2, <3>3
    <3> QED
      BY <1>2, <2>1, <3>2, <3>3, <3>4 DEF Sampled
  <2>4. CASE ~(ticks > 0)
    <3>1. usage' = usage
      BY <1>4, <2>4 DEF tick
    <3>2. c[Len(usage)] + Delta(utime, utime) <= burned
      BY <1>1, <1>2, <2>2
    <3> QED
      BY <1>1, <1>2, <2>1, <3>1, <3>2 DEF Sampled
  <2> QED
    BY <2>3, <2>4
<1>5. CASE Burn
  <2>1. utime' = utime + 1 /\ burned' = burned + 1 /\ last' = last /\ usage' = usage
    BY <1>5 DEF Burn
  <2>2. /\ Delta(utime, last) \in Nat /\ Delta(utime + 1, last) \in Nat
        /\ Delta(utime + 1, last) <= Delta(utime, last) + 1 /\ utime + 1 \in Nat
    BY <1>2 DEF Delta
  <2>3. c[Len(usage)] + Delta(utime + 1, last) <= burned + 1 /\ burned + 1 \in Nat
    BY <1>1, <1>2, <2>2
  <2> QED
    BY <1>1, <1>2, <2>1, <2>2, <2>3 DEF Sampled
<1>6. CASE ReusePid
  <2>1. utime' = 0 /\ burned' = burned /\ last' = last /\ usage' = usage
    BY <1>6 DEF ReusePid
  <2>2. Delta(utime, last) \in Nat /\ Delta(0, last) = 0
    BY <1>2 DEF Delta
  <2>3. c[Len(usage)] + Delta(0, last) <= burned
    BY <1>1, <1>2, <2>2
  <2> QED
    BY <1>1, <1>2, <2>1, <2>3 DEF Sampled
<1>7. CASE Die
  BY <1>7 DEF Die, Sampled
<1>8. CASE (\E n \in 1..Len(Stream) : Segment(n)) \/ OnMessage
  <2>1. UNCHANGED sampleVars
    BY <1>8 DEF Segment, OnMessage, ParseStep, BadRequest, GotAll, Incomplete
  <2> QED
    BY <1>3, <2>1
<1>9. CASE UNCHANGED vars
  BY <1>3, <1>9 DEF vars
<1> QED
  BY <1>4, <1>5, <1>6, <1>7, <1>8, <1>9 DEF Next

\* procmon.cpp:418: for any chart, however the process ends and its pid is
\* taken over, the samples are not negative and count no CPU time twice.
THEOREM NothingCountedTwice == Spec => []CpuTimeCountedOnce
<1>1. Sampled => CpuTimeCountedOnce
  <2> SUFFICES ASSUME Sampled PROVE CpuTimeCountedOnce
    OBVIOUS
  <2>1. PICK c : Counts(usage, c) /\ c[Len(usage)] + Delta(utime, last) <= burned
    BY DEF Sampled
  <2>2. /\ usage \in Seq(Nat) /\ burned \in Nat /\ Delta(utime, last) \in Nat
        /\ c[Len(usage)] \in Nat /\ c[0] \in Nat
    BY <2>1, CountsEnd, DeltaFacts DEF Sampled
  <2>3. Total(usage) = c[Len(usage)] - c[0]
    BY <2>1, <2>2, TotalIs
  <2>4. Total(usage) <= burned
    BY <2>1, <2>2, <2>3
  <2>5. \A k \in 1 .. Len(usage) : usage[k] >= 0
    BY <2>2
  <2> QED
    BY <2>4, <2>5 DEF CpuTimeCountedOnce
<1> QED
  BY <1>1, InitSampled, NextSampled, PTL DEF Spec

-----------------------------------------------------------------------------
(* What the client sends.                                                  *)

\* The first n sequences of ss, joined.
Joined(ss, n) == FlattenSeq([k \in 1..n |-> ss[k]])

\* f is what FlattenSeq builds up, for the first n of ss.
Builds(f, ss, n) ==
    f = [i \in 1..n |-> IF i = 1 THEN ss[i] ELSE f[i - 1] \o ss[i]]

LEMMA BuildsFacts ==
    ASSUME NEW f, NEW ss, NEW n \in Nat
    PROVE  Builds(f, ss, n)
             <=> /\ f = [i \in 1..n |-> f[i]]
                 /\ \A i \in 1..n : f[i] = IF i = 1 THEN ss[i] ELSE f[i - 1] \o ss[i]
<1> DEFINE e(i) == IF i = 1 THEN ss[i] ELSE f[i - 1] \o ss[i]
           g == [i \in 1..n |-> e(i)]
<1>1. g = [i \in 1..n |-> g[i]] /\ \A i \in 1..n : g[i] = e(i)
  OBVIOUS
<1>2. ASSUME f = g PROVE f = [i \in 1..n |-> f[i]] /\ \A i \in 1..n : f[i] = e(i)
  <2> HIDE DEF g, e
  <2> QED
    BY <1>1, <1>2
<1>3. ASSUME f = [i \in 1..n |-> f[i]], \A i \in 1..n : f[i] = e(i) PROVE f = g
  <2> HIDE DEF e
  <2> QED
    BY <1>3
<1> QED
  BY <1>2, <1>3 DEF Builds

LEMMA BuildsExists ==
    ASSUME NEW ss, NEW n \in Nat
    PROVE  \E f : Builds(f, ss, n)
<1> DEFINE B == {k \in 0..n : ~\E f : Builds(f, ss, k)}
<1>1. ASSUME NEW k \in B PROVE k # 0 /\ k - 1 \in B
  <2>1. k \in 0..n /\ k \in Nat /\ ~\E f : Builds(f, ss, k)
    OBVIOUS
  <2> HIDE DEF B
  <2>2. k # 0
    <3>1. Builds(<<>>, ss, 0)
      BY DEF Builds
    <3> QED
      BY <2>1, <3>1
  <2>3. k - 1 \in 0..n /\ k - 1 \in Nat
    BY <2>1, <2>2
  <2>4. ASSUME NEW f, Builds(f, ss, k - 1) PROVE FALSE
    <3> DEFINE g == [i \in 1..k |-> IF i <= k - 1 THEN f[i]
                                    ELSE IF i = 1 THEN ss[i] ELSE f[i - 1] \o ss[i]]
    <3>1. \A i \in 1..k - 1 : f[i] = IF i = 1 THEN ss[i] ELSE f[i - 1] \o ss[i]
      BY <2>3, <2>4, BuildsFacts
    <3>2. /\ g = [i \in 1..k |-> g[i]]
          /\ \A i \in 1..k - 1 : g[i] = f[i]
          /\ g[k] = IF k = 1 THEN ss[k] ELSE f[k - 1] \o ss[k]
      <4>1. \A i \in 1..k - 1 : i \in 1..k /\ i <= k - 1
        BY <2>1
      <4>2. k \in 1..k /\ ~(k <= k - 1)
        BY <2>1, <2>2
      <4>3. g = [i \in 1..k |-> g[i]]
        OBVIOUS
      <4>4. \A i \in 1..k - 1 : g[i] = f[i]
        BY <4>1
      <4>5. g[k] = IF k = 1 THEN ss[k] ELSE f[k - 1] \o ss[k]
        BY <4>2
      <4> HIDE DEF g
      <4> QED
        BY <4>3, <4>4, <4>5
    <3> HIDE DEF g
    <3>3. ASSUME NEW i \in 1..k PROVE g[i] = IF i = 1 THEN ss[i] ELSE g[i - 1] \o ss[i]
      <4>1. CASE i = 1 /\ i = k
        BY <3>2, <4>1
      <4>2. CASE i = 1 /\ i # k
        <5>1. i \in 1..k - 1
          BY <2>1, <4>2
        <5> QED
          BY <3>1, <3>2, <4>2, <5>1
      <4>3. CASE i # 1 /\ i = k
        <5>1. k - 1 \in 1..k - 1
          BY <2>1, <2>2, <4>3
        <5> QED
          BY <3>2, <4>3, <5>1
      <4>4. CASE i # 1 /\ i # k
        <5>1. i \in 1..k - 1 /\ i - 1 \in 1..k - 1
          BY <2>1, <4>4
        <5> QED
          BY <3>1, <3>2, <4>4, <5>1
      <4> QED
        BY <4>1, <4>2, <4>3, <4>4
    <3>4. Builds(g, ss, k)
      BY <2>1, <3>2, <3>3, BuildsFacts
    <3> QED
      BY <2>1, <3>4
  <2> QED
    BY <2>2, <2>3, <2>4 DEF B
<1>2. B \subseteq 0..n
  OBVIOUS
<1>3. n \in 0..n
  OBVIOUS
<1> HIDE DEF B
<1>4. B = {}
  BY <1>1, <1>2, NoLeast
<1> QED
  BY <1>3, <1>4 DEF B

\* It does not matter how many sequences are still to come.
LEMMA BuildsAgree ==
    ASSUME NEW ss, NEW n \in Nat, NEW m \in Nat, n <= m,
           NEW f, Builds(f, ss, n), NEW g, Builds(g, ss, m)
    PROVE  \A i \in 1..n : f[i] = g[i]
<1>1. /\ \A i \in 1..n : f[i] = IF i = 1 THEN ss[i] ELSE f[i - 1] \o ss[i]
      /\ \A i \in 1..m : g[i] = IF i = 1 THEN ss[i] ELSE g[i - 1] \o ss[i]
  BY BuildsFacts
<1> DEFINE B == {k \in 0..n : \E i \in 1..k : f[i] # g[i]}
<1>2. ASSUME NEW k \in B PROVE k # 0 /\ k - 1 \in B
  <2>1. k \in 0..n /\ k \in Nat /\ k <= n
    OBVIOUS
  <2>2. PICK i \in 1..k : f[i] # g[i]
    OBVIOUS
  <2>3. k # 0 /\ k - 1 \in 0..n
    BY <2>1, <2>2
  <2>4. i # 1 /\ f[i - 1] # g[i - 1]
    <3>1. i \in 1..n /\ i \in 1..m
      BY <2>1, <2>2
    <3> HIDE DEF B
    <3> QED
      BY <1>1, <2>2, <3>1
  <2>5. i - 1 \in 1..k - 1
    BY <2>1, <2>2, <2>4
  <2> QED
    BY <2>3, <2>4, <2>5
<1>3. B \subseteq 0..n /\ n \in 0..n
  OBVIOUS
<1> HIDE DEF B
<1>4. B = {}
  BY <1>2, <1>3, NoLeast
<1> QED
  BY <1>3, <1>4 DEF B

LEMMA JoinedBuilds ==
    ASSUME NEW ss, NEW n \in Nat, n # 0, NEW f, Builds(f, ss, n)
    PROVE  Joined(ss, n) = f[n]
<1> DEFINE t == [k \in 1..n |-> ss[k]]
           D(h) == h = [i \in 1..Len(t) |-> IF i = 1 THEN t[i] ELSE h[i - 1] \o t[i]]
           g == CHOOSE h : D(h)
<1>1. Len(t) = n /\ \A k \in 1..n : t[k] = ss[k]
  OBVIOUS
<1>2. FlattenSeq(t) = g[n]
  BY <1>1 DEF FlattenSeq
<1>3. \A h : D(h) <=> Builds(h, t, n)
  BY <1>1 DEF Builds
<1>4. Builds(g, t, n)
  <2>1. \E h : Builds(h, t, n)
    BY BuildsExists
  <2> HIDE DEF D
  <2>2. D(g)
    BY <1>3, <2>1, Zenon
  <2> QED
    BY <1>3, <2>2
<1> HIDE DEF g
<1>5. Builds(g, ss, n)
  <2>1. /\ g = [i \in 1..n |-> g[i]]
        /\ \A i \in 1..n : g[i] = IF i = 1 THEN t[i] ELSE g[i - 1] \o t[i]
    BY <1>4, BuildsFacts
  <2> HIDE DEF t
  <2>2. \A i \in 1..n : g[i] = IF i = 1 THEN ss[i] ELSE g[i - 1] \o ss[i]
    BY <1>1, <2>1
  <2> QED
    BY <2>1, <2>2, BuildsFacts
<1>6. f[n] = g[n]
  <2>1. n \in 1..n /\ n <= n
    OBVIOUS
  <2> QED
    BY <1>5, <2>1, BuildsAgree
<1> QED
  BY <1>2, <1>6 DEF Joined

Unit == [t : {"line"}, path : STRING, version : STRING]
          \cup [t : {"header"}, field : Fields, value : STRING]
          \cup {Text, CR, LF, Byte}

LEMMA ConcatFacts ==
    ASSUME NEW a \in Seq(Unit), NEW b \in Seq(Unit)
    PROVE  /\ a \o b \in Seq(Unit) /\ Len(a \o b) = Len(a) + Len(b)
           /\ \A x \in 1 .. Len(a) : (a \o b)[x] = a[x]
           /\ \A x \in 1 .. Len(b) : (a \o b)[Len(a) + x] = b[x]
  OBVIOUS

LEMMA ConcatAt ==
    ASSUME NEW a \in Seq(Unit), NEW b \in Seq(Unit), NEW m, m = Len(a), NEW k, k = Len(b)
    PROVE  /\ a \o b \in Seq(Unit) /\ Len(a \o b) = m + k
           /\ \A x \in 1 .. m : (a \o b)[x] = a[x]
           /\ \A x \in 1 .. k : (a \o b)[m + x] = b[x]
  BY ConcatFacts

LEMMA JoinedStep ==
    ASSUME NEW ss \in Seq(Seq(Unit))
    PROVE  /\ Joined(ss, 0) = <<>>
           /\ \A n \in Nat : n + 1 <= Len(ss)
                 => Joined(ss, n + 1) = Joined(ss, n) \o ss[n + 1]
<1>1. Joined(ss, 0) = <<>>
  BY DEF Joined, FlattenSeq
<1>2. ASSUME NEW n \in Nat, n + 1 <= Len(ss)
      PROVE  Joined(ss, n + 1) = Joined(ss, n) \o ss[n + 1]
  <2>1. n + 1 \in Nat /\ n + 1 # 0 /\ n <= n + 1 /\ n + 1 \in 1..n + 1
        /\ (n + 1) - 1 = n
    OBVIOUS
  <2>2. PICK f : Builds(f, ss, n + 1)
    BY <2>1, BuildsExists
  <2>3. /\ Joined(ss, n + 1) = f[n + 1]
        /\ f[n + 1] = IF n + 1 = 1 THEN ss[n + 1] ELSE f[n] \o ss[n + 1]
    BY <2>1, <2>2, JoinedBuilds, BuildsFacts
  <2>4. CASE n = 0
    <3>1. ss[n + 1] \in Seq(Unit) /\ n + 1 = 1
      BY <1>2, <2>4
    <3>2. <<>> \o ss[n + 1] = ss[n + 1]
      BY <3>1
    <3>3. Joined(ss, n + 1) = ss[n + 1]
      BY <2>3, <3>1
    <3>4. Joined(ss, n) = <<>>
      BY <1>1, <2>4
    <3> QED
      BY <3>2, <3>3, <3>4
  <2>5. CASE n # 0
    <3>1. PICK g : Builds(g, ss, n)
      BY BuildsExists
    <3>2. n \in 1..n
      BY <2>5
    <3>3. Joined(ss, n) = g[n] /\ g[n] = f[n]
      BY <2>1, <2>2, <2>5, <3>1, <3>2, JoinedBuilds, BuildsAgree
    <3>4. n + 1 # 1
      BY <2>5
    <3>5. Joined(ss, n + 1) = f[n] \o ss[n + 1]
      BY <2>3, <3>4
    <3> QED
      BY <3>3, <3>5
  <2> QED
    BY <2>4, <2>5
<1> QED
  BY <1>1, <1>2

LEMMA JoinedType ==
    ASSUME NEW ss \in Seq(Seq(Unit)), NEW n \in Nat, n <= Len(ss)
    PROVE  Joined(ss, n) \in Seq(Unit)
<1> DEFINE B == {k \in 0..n : Joined(ss, k) \notin Seq(Unit)}
<1>1. ASSUME NEW k \in B PROVE k # 0 /\ k - 1 \in B
  <2>1. k \in 0..n /\ Joined(ss, k) \notin Seq(Unit)
    OBVIOUS
  <2> HIDE DEF B
  <2>2. k # 0
    <3>1. Joined(ss, 0) = <<>> /\ <<>> \in Seq(Unit)
      BY JoinedStep
    <3> QED
      BY <2>1, <3>1
  <2>3. k - 1 \in Nat /\ (k - 1) + 1 = k /\ k <= Len(ss) /\ k - 1 \in 0..n
        /\ k \in 1..Len(ss)
    BY <2>1, <2>2
  <2>4. Joined(ss, k) = Joined(ss, k - 1) \o ss[k]
    BY <2>3, JoinedStep
  <2>5. ss[k] \in Seq(Unit)
    BY <2>3
  <2>6. Joined(ss, k - 1) \notin Seq(Unit)
    BY <2>1, <2>4, <2>5, ConcatFacts
  <2> QED
    BY <2>2, <2>3, <2>6 DEF B
<1>2. B \subseteq 0..n /\ n \in 0..n
  OBVIOUS
<1> HIDE DEF B
<1>3. B = {}
  BY <1>1, <1>2, NoLeast
<1> QED
  BY <1>2, <1>3 DEF B

\* What is joined first stays where it is.
Begins(a, b) == Len(a) <= Len(b) /\ \A x \in 1..Len(a) : b[x] = a[x]

LEMMA JoinedBegins ==
    ASSUME NEW ss \in Seq(Seq(Unit)), NEW n \in Nat, NEW m \in Nat, n <= m, m <= Len(ss)
    PROVE  Begins(Joined(ss, n), Joined(ss, m))
<1> DEFINE B == {k \in 0..m - n : ~Begins(Joined(ss, n), Joined(ss, n + k))}
<1>1. ASSUME NEW k \in B PROVE k # 0 /\ k - 1 \in B
  <2>1. k \in 0..m - n /\ k \in Nat /\ ~Begins(Joined(ss, n), Joined(ss, n + k))
    OBVIOUS
  <2> HIDE DEF B
  <2>2. Joined(ss, n) \in Seq(Unit)
    BY JoinedType
  <2>3. k # 0
    <3> SUFFICES ASSUME k = 0 PROVE FALSE
      OBVIOUS
    <3>1. n + k = n /\ Len(Joined(ss, n)) \in Nat
      BY <2>2
    <3> QED
      BY <2>1, <3>1 DEF Begins
  <2> DEFINE j == n + (k - 1)
  <2>4. j \in Nat /\ j + 1 = n + k /\ j + 1 <= Len(ss) /\ j <= Len(ss)
        /\ j + 1 \in 1..Len(ss) /\ k - 1 \in 0..m - n
    BY <2>1, <2>3
  <2> HIDE DEF j
  <2>5. Joined(ss, j + 1) = Joined(ss, j) \o ss[j + 1]
    BY <2>4, JoinedStep
  <2>6. Joined(ss, j) \in Seq(Unit) /\ ss[j + 1] \in Seq(Unit)
    BY <2>4, JoinedType
  <2>7. ASSUME Begins(Joined(ss, n), Joined(ss, j)) PROVE FALSE
    <3> DEFINE a == Joined(ss, n)
               b == Joined(ss, j)
               c == Joined(ss, j + 1)
    <3>1. /\ Len(c) = Len(b) + Len(ss[j + 1]) /\ \A x \in 1..Len(b) : c[x] = b[x]
          /\ Len(a) \in Nat /\ Len(b) \in Nat /\ Len(ss[j + 1]) \in Nat
      BY <2>2, <2>5, <2>6, ConcatFacts
    <3>2. Len(a) <= Len(b) /\ \A x \in 1..Len(a) : b[x] = a[x]
      BY <2>7 DEF Begins
    <3> HIDE DEF a, b, c
    <3>3. Len(a) <= Len(c)
      BY <3>1, <3>2
    <3>4. \A x \in 1..Len(a) : x \in 1..Len(b)
      BY <3>1, <3>2
    <3>5. \A x \in 1..Len(a) : c[x] = a[x]
      BY <3>1, <3>2, <3>4
    <3>6. Begins(a, c)
      BY <3>3, <3>5 DEF Begins
    <3> QED
      BY <2>1, <2>4, <3>6 DEF a, c
  <2> QED
    BY <2>3, <2>4, <2>7 DEF B, j
<1>2. B \subseteq 0..m - n /\ m - n \in 0..m - n /\ n + (m - n) = m /\ m - n \in Nat
  OBVIOUS
<1> HIDE DEF B
<1>3. B = {}
  BY <1>1, <1>2, NoLeast
<1>4. Begins(Joined(ss, n), Joined(ss, n + (m - n)))
  BY <1>2, <1>3 DEF B
<1> QED
  BY <1>2, <1>4

\* Where the (n + 1)st sequence is, when m are joined.
LEMMA JoinedAt ==
    ASSUME NEW ss \in Seq(Seq(Unit)), NEW n \in Nat, NEW m \in Nat,
           n + 1 <= m, m <= Len(ss)
    PROVE  /\ Len(Joined(ss, n)) \in Nat /\ Len(ss[n + 1]) \in Nat
           /\ Len(Joined(ss, n + 1)) = Len(Joined(ss, n)) + Len(ss[n + 1])
           /\ Len(Joined(ss, n + 1)) <= Len(Joined(ss, m))
           /\ \A x \in 1..Len(ss[n + 1]) :
                 Joined(ss, m)[Len(Joined(ss, n)) + x] = ss[n + 1][x]
<1>1. /\ n + 1 \in Nat /\ n <= Len(ss) /\ n + 1 <= Len(ss) /\ n + 1 \in 1..Len(ss)
  OBVIOUS
<1> DEFINE a == Joined(ss, n)
           b == ss[n + 1]
           c == Joined(ss, n + 1)
           d == Joined(ss, m)
<1>2. a \in Seq(Unit) /\ b \in Seq(Unit)
  BY <1>1, JoinedType
<1>3. c = a \o b
  BY <1>1, JoinedStep
<1>4. Begins(c, d)
  BY <1>1, JoinedBegins
<1> HIDE DEF a, b, c, d
<1>5. /\ Len(c) = Len(a) + Len(b) /\ \A x \in 1..Len(b) : c[Len(a) + x] = b[x]
      /\ Len(a) \in Nat /\ Len(b) \in Nat
  BY <1>2, <1>3, ConcatFacts
<1>6. Len(c) <= Len(d) /\ \A x \in 1..Len(c) : d[x] = c[x]
  BY <1>4 DEF Begins
<1>7. \A x \in 1..Len(b) : Len(a) + x \in 1..Len(c)
  BY <1>5
<1>8. \A x \in 1..Len(b) : d[Len(a) + x] = b[x]
  BY <1>5, <1>6, <1>7
<1> QED
  BY <1>5, <1>6, <1>8 DEF a, b, c, d

\* The lines of the headers hs.
HeaderLines(hs) == [k \in 1..Len(hs) |-> <<hs[k], CR, LF>>]

LEMMA HeaderLinesFacts ==
    ASSUME NEW hs \in Seq([t : {"header"}, field : Fields, value : STRING])
    PROVE  LET j == FlattenSeq(HeaderLines(hs))
           IN  /\ j \in Seq(Unit) /\ Len(j) = 3 * Len(hs) /\ Len(hs) \in Nat
               /\ \A h \in Nat : h + 1 <= Len(hs)
                    => /\ hs[h + 1] \in Unit /\ j[3 * h + 1] = hs[h + 1]
                       /\ j[3 * h + 2] = CR /\ j[3 * h + 3] = LF
<1> DEFINE ss == HeaderLines(hs)
           N == Len(hs)
<1>1. N \in Nat /\ \A k \in 1..N : hs[k] \in Unit
  <2> DEFINE HS == [t : {"header"}, field : Fields, value : STRING]
  <2>1. HS \subseteq Unit /\ hs \in Seq(HS)
    BY DEF Unit
  <2> HIDE DEF HS
  <2> QED
    BY <2>1
<1>2. CR \in Unit /\ LF \in Unit
  BY DEF Unit
<1>3. \A k \in 1..N : ss[k] = <<hs[k], CR, LF>>
  BY DEF HeaderLines
<1>4. \A k \in 1..N : /\ ss[k] \in Seq(Unit) /\ Len(ss[k]) = 3
                      /\ ss[k][1] = hs[k] /\ ss[k][2] = CR /\ ss[k][3] = LF
  <2> SUFFICES ASSUME NEW k \in 1..N
               PROVE  /\ ss[k] \in Seq(Unit) /\ Len(ss[k]) = 3
                      /\ ss[k][1] = hs[k] /\ ss[k][2] = CR /\ ss[k][3] = LF
    OBVIOUS
  <2> DEFINE a == hs[k]
  <2>1. a \in Unit
    BY <1>1
  <2> HIDE DEF a
  <2>2. LET w == <<a, CR, LF>>
        IN  w \in Seq(Unit) /\ Len(w) = 3 /\ w[1] = a /\ w[2] = CR /\ w[3] = LF
    BY <1>2, <2>1
  <2> QED
    BY <1>3, <2>2 DEF a
<1>5. ss \in Seq(Seq(Unit)) /\ Len(ss) = N
  BY <1>1, <1>4 DEF HeaderLines
<1>6. FlattenSeq(ss) = Joined(ss, N)
  <2>1. ss = [k \in 1..N |-> ss[k]]
    BY DEF HeaderLines
  <2> QED
    BY <2>1 DEF Joined
<1> HIDE DEF ss, N
<1>7. \A n \in 0..N : Len(Joined(ss, n)) = 3 * n
  <2> DEFINE B == {n \in 0..N : Len(Joined(ss, n)) # 3 * n}
  <2>1. ASSUME NEW k \in B PROVE k # 0 /\ k - 1 \in B
    <3>1. k \in 0..N /\ Len(Joined(ss, k)) # 3 * k
      OBVIOUS
    <3> HIDE DEF B
    <3>2. k # 0
      <4>1. Joined(ss, 0) = <<>> /\ Len(<<>>) = 3 * 0
        BY <1>5, JoinedStep
      <4> QED
        BY <3>1, <4>1
    <3> DEFINE n == k - 1
    <3>3. n \in Nat /\ n + 1 = k /\ n + 1 \in 1..N /\ n \in 0..N /\ N <= Len(ss) /\ n + 1 <= N
      BY <1>1, <1>5, <3>1, <3>2
    <3> HIDE DEF n
    <3>4. /\ Len(Joined(ss, n + 1)) = Len(Joined(ss, n)) + Len(ss[n + 1])
          /\ Len(Joined(ss, n)) \in Nat
      BY <1>1, <1>5, <3>3, JoinedAt
    <3>5. Len(ss[n + 1]) = 3
      BY <1>4, <3>3
    <3>6. Len(Joined(ss, n)) # 3 * n
      BY <3>1, <3>3, <3>4, <3>5
    <3> QED
      BY <3>2, <3>3, <3>6 DEF B, n
  <2>2. B \subseteq 0..N
    OBVIOUS
  <2> HIDE DEF B
  <2>3. B = {}
    BY <1>1, <2>1, <2>2, NoLeast
  <2> QED
    BY <2>3 DEF B
<1>8. Joined(ss, N) \in Seq(Unit) /\ Len(Joined(ss, N)) = 3 * N
  <2>1. N \in 0..N /\ N <= Len(ss)
    BY <1>1, <1>5
  <2> QED
    BY <1>1, <1>5, <1>7, <2>1, JoinedType
<1>9. ASSUME NEW h \in Nat, h + 1 <= N
      PROVE  /\ hs[h + 1] \in Unit /\ Joined(ss, N)[3 * h + 1] = hs[h + 1]
             /\ Joined(ss, N)[3 * h + 2] = CR /\ Joined(ss, N)[3 * h + 3] = LF
  <2>1. h + 1 \in 1..N /\ h \in 0..N /\ N <= Len(ss)
    BY <1>1, <1>5, <1>9
  <2>2. Len(Joined(ss, h)) = 3 * h
    BY <1>7, <2>1
  <2>3. \A x \in 1..Len(ss[h + 1]) :
           Joined(ss, N)[Len(Joined(ss, h)) + x] = ss[h + 1][x]
    BY <1>1, <1>5, <1>9, <2>1, JoinedAt
  <2>4. /\ Len(ss[h + 1]) = 3 /\ ss[h + 1][1] = hs[h + 1]
        /\ ss[h + 1][2] = CR /\ ss[h + 1][3] = LF /\ hs[h + 1] \in Unit
    BY <1>1, <1>4, <2>1
  <2>5. 1 \in 1..3 /\ 2 \in 1..3 /\ 3 \in 1..3
    OBVIOUS
  <2> QED
    BY <2>2, <2>3, <2>4, <2>5
<1> QED
  BY <1>1, <1>6, <1>8, <1>9 DEF ss, N

\* The units of the head of a request, after h headers and at its end.
HeaderAt(h) == 3 + 3 * h
HeadEnd(r) == 3 + 3 * Len(r.headers) + Len(r.end) + 2

LEMMA EncodeFacts ==
    ASSUME NEW r \in Request
    PROVE  LET e == Encode(r)
               n == Len(r.headers)
               l == Len(r.end)
           IN  /\ e \in Seq(Unit) /\ n \in Nat /\ l \in {0, 1} /\ r.body \in Nat
               /\ Len(e) = HeadEnd(r) + r.body /\ HeadEnd(r) \in Nat
               /\ e[1] = r.line /\ e[2] = CR /\ e[3] = LF /\ r.line \in Unit
               /\ \A h \in Nat : h + 1 <= n
                    => /\ e[HeaderAt(h) + 1] = r.headers[h + 1]
                       /\ e[HeaderAt(h) + 2] = CR /\ e[HeaderAt(h) + 3] = LF
               /\ l = 1 => e[HeaderAt(n) + 1] = Text
               /\ e[HeaderAt(n) + l + 1] = CR /\ e[HeaderAt(n) + l + 2] = LF
               /\ \A x \in 1..r.body : e[HeadEnd(r) + x] = Byte
<1> DEFINE n == Len(r.headers)
           l == Len(r.end)
           hs == r.headers
           a1 == <<r.line, CR, LF>>
           j == FlattenSeq(HeaderLines(hs))
           a2 == a1 \o j
           a3 == a2 \o r.end
           a4 == a3 \o <<CR, LF>>
           b == [k \in 1..r.body |-> Byte]
           e == a4 \o b
<1>1. /\ r.line \in Unit /\ r.body \in Nat
      /\ hs \in Seq([t : {"header"}, field : Fields, value : STRING])
      /\ r.end = <<>> \/ r.end = <<Text>>
  BY DEF Request, Unit
<1>2. CR \in Unit /\ LF \in Unit /\ Text \in Unit /\ Byte \in Unit
  BY DEF Unit
<1>3. a1 \in Seq(Unit) /\ Len(a1) = 3 /\ a1[1] = r.line /\ a1[2] = CR /\ a1[3] = LF
  <2> DEFINE u == r.line
  <2>1. u \in Unit
    BY <1>1
  <2> HIDE DEF u
  <2>2. LET w == <<u, CR, LF>>
        IN  w \in Seq(Unit) /\ Len(w) = 3 /\ w[1] = u /\ w[2] = CR /\ w[3] = LF
    BY <1>2, <2>1
  <2> QED
    BY <2>2 DEF u
<1>4. /\ j \in Seq(Unit) /\ Len(j) = 3 * n /\ n \in Nat
      /\ \A h \in Nat : h + 1 <= n
            => j[3 * h + 1] = hs[h + 1] /\ j[3 * h + 2] = CR /\ j[3 * h + 3] = LF
  BY <1>1, HeaderLinesFacts
<1>5. Encode(r) = e
  BY DEF Encode, HeaderLines
<1>6. r.end \in Seq(Unit) /\ l \in {0, 1} /\ (l = 1 => r.end[1] = Text)
  <2> DEFINE w == r.end
  <2>1. w = <<>> \/ w = <<Text>>
    BY <1>1
  <2> HIDE DEF w
  <2>2. w = <<>> => w \in Seq(Unit) /\ Len(w) = 0
    OBVIOUS
  <2>3. w = <<Text>> => w \in Seq(Unit) /\ Len(w) = 1 /\ w[1] = Text
    BY <1>2
  <2>4. w \in Seq(Unit) /\ Len(w) \in {0, 1} /\ (Len(w) = 1 => w[1] = Text)
    BY <2>1, <2>2, <2>3
  <2> QED
    BY <2>4 DEF w
<1>7. LET w == <<CR, LF>>
      IN  w \in Seq(Unit) /\ Len(w) = 2 /\ w[1] = CR /\ w[2] = LF
  BY <1>2
<1>8. b \in Seq(Unit) /\ Len(b) = r.body /\ \A x \in 1..r.body : b[x] = Byte
  BY <1>1, <1>2
<1> DEFINE w == <<CR, LF>>
           f == r.end
<1>9. f \in Seq(Unit) /\ Len(f) = l /\ (l = 1 => f[1] = Text)
      /\ w \in Seq(Unit) /\ Len(w) = 2 /\ w[1] = CR /\ w[2] = LF
  BY <1>6, <1>7
<1> HIDE DEF a1, j, b, w, f, l, n, hs
<1>10. /\ a2 \in Seq(Unit) /\ Len(a2) = 3 + 3 * n
       /\ \A x \in 1..3 : a2[x] = a1[x]
       /\ \A x \in 1..3 * n : a2[3 + x] = j[x]
  <2>1. a1 \in Seq(Unit) /\ j \in Seq(Unit) /\ 3 = Len(a1) /\ 3 * n = Len(j)
    BY <1>3, <1>4
  <2>2. /\ a2 \in Seq(Unit) /\ Len(a2) = Len(a1) + Len(j)
        /\ \A x \in 1..Len(a1) : a2[x] = a1[x]
        /\ \A x \in 1..Len(j) : a2[Len(a1) + x] = j[x]
    BY <2>1, ConcatFacts
  <2> HIDE DEF a2
  <2> QED
    BY <2>1, <2>2
<1> HIDE DEF a2
<1>11. /\ a3 \in Seq(Unit) /\ Len(a3) = 3 + 3 * n + l
       /\ \A x \in 1..3 + 3 * n : a3[x] = a2[x]
       /\ \A x \in 1..l : a3[3 + 3 * n + x] = f[x]
  <2>1. a2 \in Seq(Unit) /\ f \in Seq(Unit) /\ 3 + 3 * n = Len(a2) /\ l = Len(f)
    BY <1>9, <1>10
  <2> QED
    BY <2>1, ConcatAt, SMTT(40) DEF f
<1> HIDE DEF a3
<1>12. /\ a4 \in Seq(Unit) /\ Len(a4) = 3 + 3 * n + l + 2
       /\ \A x \in 1..3 + 3 * n + l : a4[x] = a3[x]
       /\ \A x \in 1..2 : a4[3 + 3 * n + l + x] = w[x]
  <2>1. a3 \in Seq(Unit) /\ w \in Seq(Unit) /\ 3 + 3 * n + l = Len(a3) /\ 2 = Len(w)
    BY <1>9, <1>11
  <2> QED
    BY <2>1, ConcatAt DEF w
<1> HIDE DEF a4
<1>13. /\ e \in Seq(Unit) /\ Len(e) = 3 + 3 * n + l + 2 + r.body
       /\ \A x \in 1..3 + 3 * n + l + 2 : e[x] = a4[x]
       /\ \A x \in 1..r.body : e[3 + 3 * n + l + 2 + x] = b[x]
  <2>1. /\ a4 \in Seq(Unit) /\ b \in Seq(Unit)
        /\ 3 + 3 * n + l + 2 = Len(a4) /\ r.body = Len(b)
    BY <1>8, <1>12
  <2>2. /\ e \in Seq(Unit) /\ Len(e) = Len(a4) + Len(b)
        /\ \A x \in 1..Len(a4) : e[x] = a4[x]
        /\ \A x \in 1..Len(b) : e[Len(a4) + x] = b[x]
    BY <2>1, ConcatFacts
  <2> HIDE DEF e
  <2> QED
    BY <2>1, <2>2
<1> HIDE DEF e
<1>14. n \in Nat /\ l \in {0, 1} /\ r.body \in Nat
  BY <1>1, <1>4, <1>6
<1>15. e[1] = r.line /\ e[2] = CR /\ e[3] = LF
  <2>1. \A x \in 1..3 : /\ x \in 1..3 + 3 * n /\ x \in 1..3 + 3 * n + l
                        /\ x \in 1..3 + 3 * n + l + 2
    BY <1>14
  <2>2. \A x \in 1..3 : e[x] = a1[x]
    BY <1>10, <1>11, <1>12, <1>13, <2>1
  <2>3. 1 \in 1..3 /\ 2 \in 1..3 /\ 3 \in 1..3
    OBVIOUS
  <2> QED
    BY <1>3, <2>2, <2>3
<1>16. ASSUME NEW h \in Nat, h + 1 <= n
       PROVE  /\ e[HeaderAt(h) + 1] = hs[h + 1]
              /\ e[HeaderAt(h) + 2] = CR /\ e[HeaderAt(h) + 3] = LF
  <2>1. ASSUME NEW y \in 1..3 PROVE e[HeaderAt(h) + y] = j[3 * h + y]
    <3>1. /\ 3 * h + y \in 1..3 * n /\ HeaderAt(h) + y = 3 + (3 * h + y)
          /\ 3 + (3 * h + y) \in 1..3 + 3 * n
          /\ 3 + (3 * h + y) \in 1..3 + 3 * n + l
          /\ 3 + (3 * h + y) \in 1..3 + 3 * n + l + 2
      BY <1>14, <1>16 DEF HeaderAt
    <3> QED
      BY <1>10, <1>11, <1>12, <1>13, <3>1, SMTT(40)
  <2>2. 1 \in 1..3 /\ 2 \in 1..3 /\ 3 \in 1..3
    OBVIOUS
  <2> QED
    BY <1>4, <1>16, <2>1, <2>2
<1>17. l = 1 => e[HeaderAt(n) + 1] = Text
  <2> SUFFICES ASSUME l = 1 PROVE e[HeaderAt(n) + 1] = Text
    OBVIOUS
  <2>1. /\ 1 \in 1..l /\ HeaderAt(n) + 1 = 3 + 3 * n + 1
        /\ 3 + 3 * n + 1 \in 1..3 + 3 * n + l
        /\ 3 + 3 * n + 1 \in 1..3 + 3 * n + l + 2
    BY <1>14 DEF HeaderAt
  <2>2. e[3 + 3 * n + 1] = a4[3 + 3 * n + 1] /\ a4[3 + 3 * n + 1] = a3[3 + 3 * n + 1]
    BY <1>12, <1>13, <2>1
  <2>3. a3[3 + 3 * n + 1] = f[1] /\ f[1] = Text
    BY <1>9, <1>11, <2>1
  <2> QED
    BY <2>1, <2>2, <2>3
<1>18. e[HeaderAt(n) + l + 1] = CR /\ e[HeaderAt(n) + l + 2] = LF
  <2>1. /\ 1 \in 1..2 /\ 2 \in 1..2
        /\ HeaderAt(n) + l + 1 = 3 + 3 * n + l + 1
        /\ HeaderAt(n) + l + 2 = 3 + 3 * n + l + 2
        /\ 3 + 3 * n + l + 1 \in 1..3 + 3 * n + l + 2
        /\ 3 + 3 * n + l + 2 \in 1..3 + 3 * n + l + 2
    BY <1>14 DEF HeaderAt
  <2> QED
    BY <1>9, <1>12, <1>13, <2>1
<1>19. /\ HeadEnd(r) = 3 + 3 * n + l + 2 /\ HeadEnd(r) \in Nat
       /\ \A x \in 1..r.body : e[HeadEnd(r) + x] = Byte
  <2>1. HeadEnd(r) = 3 + 3 * n + l + 2
    BY DEF HeadEnd, n, l
  <2>2. HeadEnd(r) \in Nat
    BY <1>14, <2>1
  <2> QED
    BY <1>8, <1>13, <2>1, <2>2
<1>20. Encode(r) = e /\ e \in Seq(Unit) /\ Len(e) = HeadEnd(r) + r.body
  BY <1>5, <1>13, <1>19 DEF e, a4, a3, a2, a1, j, b, hs
<1> QED
  BY <1>1, <1>14, <1>15, <1>16, <1>17, <1>18, <1>19, <1>20 DEF n, l, hs

-----------------------------------------------------------------------------
(* Where the parser is.  While the connection is kept, the buffer holds    *)
(* the part of the stream that begins where the parser stands in the       *)
(* request after as many as were answered, and ends with what has arrived. *)

Str(s) == FlattenSeq([k \in 1..Len(s) |-> Encode(s[k])])

Until(s, n) == Len(FlattenSeq([k \in 1..n |-> Encode(s[k])]))

\* b is what the stream of s holds after place q, as far as place w.
Holds(s, q, b, w) ==
    /\ q \in Nat /\ b \in Seq(Unit) /\ q + Len(b) = w /\ w <= Len(Str(s))
    /\ \A x \in 1..Len(b) : b[x] = Str(s)[q + x]

\* v is the value of field f after the first h of the headers hs.
Said(hs, h, f, v) ==
    \/ v = "" /\ \A i \in 1..h : hs[i].field # f
    \/ \E i \in 1..h : /\ hs[i].field = f /\ hs[i].value = v
                       /\ \A j \in 1..h : hs[j].field = f => j <= i

\* The provers do not know that the literal "" is in STRING.
Word == STRING \cup {""}

Parsing == [path : Word, version : Word, headers : [Fields -> Word], body : Seq({Byte})]

Parsed(r, h) ==
    /\ request \in Parsing
    /\ r.line # Text /\ request.path = r.line.path /\ request.version = r.line.version
    /\ h \in 0..Len(r.headers)
    /\ \A f \in Fields : Said(r.headers, h, f, request.headers[f])

AtLine(n) ==
    /\ state = "kExpectRequestLine" /\ request = EmptyRequest
    /\ Holds(script, Until(script, n), buf, wire)

AtHeader(n, r, h) ==
    /\ state = "kExpectHeaders" /\ Parsed(r, h) /\ request.body = <<>>
    /\ Holds(script, Until(script, n) + HeaderAt(h), buf, wire)

AtBody(n, r) ==
    /\ state = "kExpectBody" /\ Parsed(r, Len(r.headers)) /\ Len(request.body) <= r.body
    /\ Holds(script, Until(script, n) + HeadEnd(r) + Len(request.body), buf, wire)

AllRead(n, r) ==
    /\ state = "kGotAll" /\ pc = "true"
    /\ Parsed(r, Len(r.headers)) /\ Len(request.body) = r.body
    /\ Holds(script, Until(script, n + 1), buf, wire)

\* The parser is in request n + 1.
Place(n) ==
    \/ AtLine(n)
    \/ /\ n < Len(script)
       /\ LET r == script[n + 1]
          IN  (\E h \in Nat : AtHeader(n, r, h)) \/ AtBody(n, r) \/ AllRead(n, r)

\* A client that waits has sent no more than the next request, and not all of
\* it if the server is done with what has arrived.
Waiting(n) ==
    ~pipelining /\ n < Len(script) =>
        /\ wire <= Until(script, n + 1)
        /\ pc \in {"idle", "true"} /\ state # "kGotAll" => wire < Until(script, n + 1)

Reply == [code : Nat, close : BOOLEAN, path : Word, received : Seq({Byte})]

Talk ==
    /\ script \in Scripts /\ replies \in Seq(Reply) /\ connected \in BOOLEAN
    /\ pc \in {"idle", "parse", "true", "false"}
    /\ RepliesInOrder
    /\ connected =>
         LET n == Len(replies)
         IN  /\ \A k \in 1..n : ~replies[k].close
             /\ Place(n) /\ Waiting(n)
             /\ pc = "false" => /\ state = "kExpectRequestLine"
                                /\ n < Len(script) /\ script[n + 1].line = Text

\* The stream of a script, request by request.
LEMMA StreamFacts ==
    ASSUME NEW s \in Scripts
    PROVE  /\ Str(s) \in Seq(Unit) /\ Len(s) \in Nat /\ Len(Str(s)) \in Nat
           /\ Until(s, 0) = 0 /\ Until(s, Len(s)) = Len(Str(s))
           /\ \A n \in Nat : n <= Len(s) => Until(s, n) \in Nat /\ Until(s, n) <= Len(Str(s))
           /\ \A n \in Nat : n + 1 <= Len(s) =>
                 /\ s[n + 1] \in Request /\ Reasonable(s[n + 1])
                 /\ Until(s, n + 1) = Until(s, n) + Len(Encode(s[n + 1]))
                 /\ \A x \in 1..Len(Encode(s[n + 1])) :
                       Str(s)[Until(s, n) + x] = Encode(s[n + 1])[x]
<1> DEFINE N == Len(s)
           ss == [k \in 1..N |-> Encode(s[k])]
<1>1. s \in Seq(Request) /\ \A k \in 1..N : Reasonable(s[k])
  BY ProcmonAssumption
<1>2. N \in Nat /\ \A k \in 1..N : s[k] \in Request
  BY <1>1
<1>3. \A k \in 1..N : Encode(s[k]) \in Seq(Unit)
  BY <1>2, EncodeFacts
<1>4. /\ ss \in Seq(Seq(Unit)) /\ Len(ss) = N /\ \A k \in 1..N : ss[k] = Encode(s[k])
  BY <1>2, <1>3
<1>5. Str(s) = Joined(ss, N)
  <2>1. [k \in 1..N |-> ss[k]] = ss
    OBVIOUS
  <2> QED
    BY <2>1 DEF Str, Joined
<1>6. \A n \in Nat : n <= N => Until(s, n) = Len(Joined(ss, n))
  <2> SUFFICES ASSUME NEW n \in Nat, n <= N PROVE Until(s, n) = Len(Joined(ss, n))
    OBVIOUS
  <2>1. \A k \in 1..n : k \in 1..N
    BY <1>2
  <2>2. [k \in 1..n |-> ss[k]] = [k \in 1..n |-> Encode(s[k])]
    BY <1>4, <2>1
  <2> HIDE DEF ss
  <2> QED
    BY <2>2 DEF Until, Joined
<1> HIDE DEF ss, N
<1>7. N <= N /\ N <= Len(ss) /\ 0 <= N /\ 0 \in Nat
  BY <1>2, <1>4
<1>8. Joined(ss, N) \in Seq(Unit) /\ Len(Joined(ss, N)) \in Nat
  BY <1>2, <1>4, <1>7, JoinedType
<1>9. Until(s, 0) = 0
  <2>1. Joined(ss, 0) = <<>> /\ Len(<<>>) = 0
    BY <1>4, JoinedStep
  <2> QED
    BY <1>6, <1>7, <2>1
<1>10. ASSUME NEW n \in Nat, n <= N
       PROVE  Until(s, n) \in Nat /\ Until(s, n) <= Len(Str(s))
  <2>1. n <= Len(ss)
    BY <1>4, <1>10
  <2>2. Joined(ss, n) \in Seq(Unit)
    BY <1>4, <2>1, JoinedType
  <2>3. Begins(Joined(ss, n), Joined(ss, N))
    BY <1>2, <1>4, <1>7, <1>10, JoinedBegins
  <2> QED
    BY <1>5, <1>6, <1>10, <2>2, <2>3 DEF Begins
<1>11. ASSUME NEW n \in Nat, n + 1 <= N
       PROVE  /\ s[n + 1] \in Request /\ Reasonable(s[n + 1])
              /\ Until(s, n + 1) = Until(s, n) + Len(Encode(s[n + 1]))
              /\ \A x \in 1..Len(Encode(s[n + 1])) :
                    Str(s)[Until(s, n) + x] = Encode(s[n + 1])[x]
  <2>1. n + 1 \in 1..N /\ n + 1 \in Nat /\ n <= N
    BY <1>2, <1>11
  <2>2. /\ Len(Joined(ss, n + 1)) = Len(Joined(ss, n)) + Len(ss[n + 1])
        /\ \A x \in 1..Len(ss[n + 1]) :
              Joined(ss, N)[Len(Joined(ss, n)) + x] = ss[n + 1][x]
    BY <1>2, <1>4, <1>7, <1>11, JoinedAt, ZenonT(40)
  <2>3. /\ ss[n + 1] = Encode(s[n + 1]) /\ Until(s, n) = Len(Joined(ss, n))
        /\ Until(s, n + 1) = Len(Joined(ss, n + 1))
    BY <1>4, <1>6, <1>11, <2>1
  <2>4. s[n + 1] \in Request /\ Reasonable(s[n + 1])
    BY <1>1, <1>2, <2>1
  <2> QED
    BY <1>5, <2>2, <2>3, <2>4
<1>12. Until(s, N) = Len(Str(s))
  BY <1>2, <1>5, <1>6, <1>7
<1> QED
  BY <1>2, <1>5, <1>8, <1>9, <1>10, <1>11, <1>12 DEF N

\* What the stream holds from the beginning of request n + 1 on.
LEMMA RequestAt ==
    ASSUME NEW s \in Scripts, NEW n \in Nat, n + 1 <= Len(s)
    PROVE  LET r == s[n + 1]
               p == Until(s, n)
               l == Len(r.end)
               z == Len(r.headers)
           IN  /\ r \in Request /\ Reasonable(r) /\ p \in Nat /\ z \in Nat /\ l \in {0, 1}
               /\ r.body \in Nat /\ HeadEnd(r) \in Nat
               /\ Until(s, n + 1) = p + HeadEnd(r) + r.body
               /\ Until(s, n + 1) \in Nat /\ Until(s, n + 1) <= Len(Str(s))
               /\ Str(s)[p + 1] = r.line /\ Str(s)[p + 2] = CR /\ Str(s)[p + 3] = LF
               /\ \A h \in Nat : h + 1 <= z
                    => /\ Str(s)[p + HeaderAt(h) + 1] = r.headers[h + 1]
                       /\ Str(s)[p + HeaderAt(h) + 2] = CR
                       /\ Str(s)[p + HeaderAt(h) + 3] = LF
               /\ l = 1 => Str(s)[p + HeaderAt(z) + 1] = Text
               /\ Str(s)[p + HeaderAt(z) + l + 1] = CR
               /\ Str(s)[p + HeaderAt(z) + l + 2] = LF
               /\ \A x \in 1..r.body : Str(s)[p + HeadEnd(r) + x] = Byte
<1> DEFINE r == s[n + 1]
           p == Until(s, n)
           l == Len(r.end)
           z == Len(r.headers)
           e == Encode(r)
<1>1. /\ r \in Request /\ Reasonable(r) /\ Until(s, n + 1) = p + Len(e)
      /\ \A x \in 1..Len(e) : Str(s)[p + x] = e[x]
  BY StreamFacts
<1>2. /\ p \in Nat /\ Until(s, n + 1) \in Nat /\ Until(s, n + 1) <= Len(Str(s))
  <2>1. n <= Len(s) /\ n + 1 \in Nat
    BY StreamFacts
  <2> QED
    BY <2>1, StreamFacts
<1> HIDE DEF r, p
<1>3. /\ z \in Nat /\ l \in {0, 1} /\ r.body \in Nat
      /\ Len(e) = HeadEnd(r) + r.body /\ HeadEnd(r) \in Nat
      /\ e[1] = r.line /\ e[2] = CR /\ e[3] = LF
      /\ \A h \in Nat : h + 1 <= z
           => /\ e[HeaderAt(h) + 1] = r.headers[h + 1]
              /\ e[HeaderAt(h) + 2] = CR /\ e[HeaderAt(h) + 3] = LF
      /\ l = 1 => e[HeaderAt(z) + 1] = Text
      /\ e[HeaderAt(z) + l + 1] = CR /\ e[HeaderAt(z) + l + 2] = LF
      /\ \A x \in 1..r.body : e[HeadEnd(r) + x] = Byte
  BY <1>1, EncodeFacts
<1> DEFINE b == r.body
           y == HeadEnd(r)
<1>4. /\ z \in Nat /\ l \in {0, 1} /\ b \in Nat /\ y \in Nat
      /\ Len(e) = y + b /\ y = 3 + 3 * z + l + 2
  BY <1>3 DEF HeadEnd
<1> HIDE DEF e, l, z, b, y
<1>5. Until(s, n + 1) = p + y + b
  BY <1>1, <1>2, <1>4
<1>6. 1 \in 1..Len(e) /\ 2 \in 1..Len(e) /\ 3 \in 1..Len(e)
  BY <1>4
<1>7. Str(s)[p + 1] = r.line /\ Str(s)[p + 2] = CR /\ Str(s)[p + 3] = LF
  BY <1>1, <1>3, <1>6
<1>8. ASSUME NEW h \in Nat, h + 1 <= z
      PROVE  /\ Str(s)[p + HeaderAt(h) + 1] = r.headers[h + 1]
             /\ Str(s)[p + HeaderAt(h) + 2] = CR
             /\ Str(s)[p + HeaderAt(h) + 3] = LF
  <2>1. ASSUME NEW x \in 1..3
        PROVE  Str(s)[p + HeaderAt(h) + x] = e[HeaderAt(h) + x]
    <3>1. HeaderAt(h) + x \in 1..Len(e) /\ p + (HeaderAt(h) + x) = p + HeaderAt(h) + x
      BY <1>2, <1>4, <1>8 DEF HeaderAt
    <3>2. Str(s)[p + (HeaderAt(h) + x)] = e[HeaderAt(h) + x]
      BY <1>1, <3>1
    <3> QED
      BY <3>1, <3>2
  <2>2. 1 \in 1..3 /\ 2 \in 1..3 /\ 3 \in 1..3
    OBVIOUS
  <2>3. /\ e[HeaderAt(h) + 1] = r.headers[h + 1]
        /\ e[HeaderAt(h) + 2] = CR /\ e[HeaderAt(h) + 3] = LF
    BY <1>3, <1>8 DEF z
  <2> QED
    BY <2>1, <2>2, <2>3
<1>9. l = 1 => Str(s)[p + HeaderAt(z) + 1] = Text
  <2> SUFFICES ASSUME l = 1 PROVE Str(s)[p + HeaderAt(z) + 1] = Text
    OBVIOUS
  <2>1. HeaderAt(z) + 1 \in 1..Len(e) /\ p + (HeaderAt(z) + 1) = p + HeaderAt(z) + 1
    BY <1>2, <1>4 DEF HeaderAt
  <2>2. Str(s)[p + (HeaderAt(z) + 1)] = e[HeaderAt(z) + 1]
    BY <1>1, <2>1
  <2> QED
    BY <1>3, <2>1, <2>2
<1>10. Str(s)[p + HeaderAt(z) + l + 1] = CR /\ Str(s)[p + HeaderAt(z) + l + 2] = LF
  <2>1. /\ HeaderAt(z) + l + 1 \in 1..Len(e) /\ HeaderAt(z) + l + 2 \in 1..Len(e)
        /\ p + (HeaderAt(z) + l + 1) = p + HeaderAt(z) + l + 1
        /\ p + (HeaderAt(z) + l + 2) = p + HeaderAt(z) + l + 2
    BY <1>2, <1>4 DEF HeaderAt
  <2>2. /\ Str(s)[p + (HeaderAt(z) + l + 1)] = e[HeaderAt(z) + l + 1]
        /\ Str(s)[p + (HeaderAt(z) + l + 2)] = e[HeaderAt(z) + l + 2]
    BY <1>1, <2>1
  <2> QED
    BY <1>3, <2>1, <2>2
<1>11. ASSUME NEW x \in 1..b PROVE Str(s)[p + y + x] = Byte
  <2>1. y + x \in 1..Len(e) /\ p + (y + x) = p + y + x
    BY <1>2, <1>4
  <2>2. Str(s)[p + (y + x)] = e[y + x]
    BY <1>1, <2>1
  <2> QED
    BY <1>3, <2>1, <2>2 DEF y, b
<1> QED
  BY <1>1, <1>2, <1>3, <1>5, <1>7, <1>8, <1>9, <1>10, <1>11 DEF r, p, l, z, b, y

-----------------------------------------------------------------------------
(* The buffer.                                                             *)

LEMMA HoldsFacts ==
    ASSUME NEW s, NEW q, NEW b, NEW w, Holds(s, q, b, w)
    PROVE  /\ q \in Nat /\ b \in Seq(Unit) /\ Len(b) \in Nat /\ q + Len(b) = w /\ w \in Nat
           /\ w <= Len(Str(s)) /\ q <= w
           /\ \A x \in Nat : 1 <= x /\ x <= Len(b) => b[x] = Str(s)[q + x]
<1>1. q \in Nat /\ b \in Seq(Unit) /\ q + Len(b) = w /\ w <= Len(Str(s))
      /\ \A x \in 1..Len(b) : b[x] = Str(s)[q + x]
  BY DEF Holds
<1>2. Len(b) \in Nat
  BY <1>1
<1> QED
  BY <1>1, <1>2

\* Units are retrieved.
LEMMA HoldsRetrieve ==
    ASSUME NEW s, NEW q, NEW b, NEW w, Holds(s, q, b, w), NEW n \in Nat, n <= Len(b),
           NEW q2, q2 = q + n, NEW i, i = n + 1
    PROVE  Holds(s, q2, SubSeq(b, i, Len(b)), w)
<1>1. /\ q \in Nat /\ b \in Seq(Unit) /\ Len(b) \in Nat /\ q + Len(b) = w
      /\ w <= Len(Str(s)) /\ \A x \in Nat : 1 <= x /\ x <= Len(b) => b[x] = Str(s)[q + x]
  BY HoldsFacts
<1> DEFINE c == SubSeq(b, n + 1, Len(b))
<1>2. c \in Seq(Unit) /\ Len(c) = Len(b) - n /\ \A x \in 1..Len(b) - n : c[x] = b[n + x]
  BY <1>1
<1> HIDE DEF c
<1>3. q + n \in Nat /\ (q + n) + Len(c) = w
  BY <1>1, <1>2, SMTT(60)
<1>4. ASSUME NEW x \in 1..Len(c) PROVE c[x] = Str(s)[(q + n) + x]
  <2>1. /\ x \in 1..Len(b) - n /\ n + x \in Nat /\ 1 <= n + x /\ n + x <= Len(b)
        /\ q + (n + x) = (q + n) + x
    BY <1>1, <1>2
  <2>2. c[x] = b[n + x] /\ b[n + x] = Str(s)[q + (n + x)]
    BY <1>1, <1>2, <2>1
  <2> QED
    BY <2>1, <2>2
<1>5. Holds(s, q + n, c, w)
  BY <1>1, <1>2, <1>3, <1>4 DEF Holds
<1> QED
  BY <1>5 DEF c

\* A segment arrives.
LEMMA HoldsArrive ==
    ASSUME NEW s \in Scripts, NEW q, NEW b, NEW w, Holds(s, q, b, w),
           NEW n \in Nat, w < n, n <= Len(Str(s))
    PROVE  Holds(s, q, b \o SubSeq(Str(s), w + 1, n), n)
<1>1. /\ q \in Nat /\ b \in Seq(Unit) /\ Len(b) \in Nat /\ q + Len(b) = w /\ w \in Nat
      /\ \A x \in Nat : 1 <= x /\ x <= Len(b) => b[x] = Str(s)[q + x]
  BY HoldsFacts
<1> DEFINE t == Str(s)
           u == SubSeq(t, w + 1, n)
           c == b \o u
<1>2. t \in Seq(Unit) /\ Len(t) \in Nat
  BY StreamFacts
<1> HIDE DEF t
<1>3. n <= Len(t)
  BY DEF t
<1>4. u \in Seq(Unit) /\ Len(u) = n - w /\ \A x \in 1..n - w : u[x] = t[w + x]
  BY <1>1, <1>2, <1>3
<1> HIDE DEF u
<1>5. /\ c \in Seq(Unit) /\ Len(c) = Len(b) + Len(u)
      /\ \A x \in 1..Len(b) : c[x] = b[x]
      /\ \A x \in 1..Len(u) : c[Len(b) + x] = u[x]
  BY <1>1, <1>4, ConcatFacts
<1> HIDE DEF c
<1> DEFINE lb == Len(b)
           lu == Len(u)
           lc == Len(c)
<1>a. /\ q \in Nat /\ lb \in Nat /\ q + lb = w /\ w \in Nat /\ lu = n - w
      /\ lc = lb + lu
  BY <1>1, <1>4, <1>5
<1> HIDE DEF lb, lu, lc
<1>6. q + lc = n
  BY <1>a
<1>7. ASSUME NEW x \in 1..Len(c) PROVE c[x] = t[q + x]
  <2>1. x \in Nat /\ 1 <= x
    BY <1>7
  <2>a. x \in Nat /\ 1 <= x /\ x <= lb + lu
    BY <1>a, <1>7 DEF lc
  <2>2. CASE x <= Len(b)
    <3>1. x \in 1..Len(b)
      BY <1>1, <2>1, <2>2
    <3>2. c[x] = b[x] /\ b[x] = t[q + x]
      BY <1>1, <1>5, <2>1, <2>2, <3>1 DEF t
    <3> QED
      BY <3>2
  <2>3. CASE ~(x <= Len(b))
    <3> DEFINE y == x - Len(b)
    <3>1. y \in 1..lu /\ y \in 1..n - w /\ x = lb + y /\ w + y = q + x
      BY <1>a, <2>a, <2>3 DEF lb
    <3> HIDE DEF y
    <3>2. c[lb + y] = u[y] /\ u[y] = t[w + y]
      BY <1>4, <1>5, <3>1 DEF lb, lu
    <3> QED
      BY <3>1, <3>2
  <2> QED
    BY <2>2, <2>3
<1>8. Holds(s, q, c, n)
  BY <1>1, <1>3, <1>5, <1>6, <1>7 DEF Holds, t, lc
<1> QED
  BY <1>8 DEF c, u, t

LineEndsOf(b) == {k \in 1..(Len(b) - 1) : b[k] = CR /\ b[k + 1] = LF}

LEMMA LeastOfEnds ==
    ASSUME NEW S, NEW m \in Nat, m \in S, \A k \in S : k \in Nat /\ m <= k
    PROVE  Min(S) = m
<1>1. \E x \in S : \A y \in S : x =< y
  OBVIOUS
<1>2. Min(S) \in S /\ \A y \in S : Min(S) =< y
  BY <1>1, Zenon DEF Min
<1>3. Min(S) <= m /\ m <= Min(S) /\ Min(S) \in Nat
  BY <1>2
<1> QED
  BY <1>3

\* A line of one unit u: found when its CR LF is there, and not before.
LEMMA UnitLine ==
    ASSUME NEW s, NEW q, NEW b, NEW w, Holds(s, q, b, w), NEW u, u # CR,
           Str(s)[q + 1] = u, Str(s)[q + 2] = CR, Str(s)[q + 3] = LF
    PROVE  /\ LineEndsOf(b) = {} => w < q + 3
           /\ LineEndsOf(b) # {} =>
                /\ Min(LineEndsOf(b)) = 2 /\ 3 <= Len(b) /\ SubSeq(b, 1, 1) = <<u>>
<1>1. /\ q \in Nat /\ b \in Seq(Unit) /\ Len(b) \in Nat /\ q + Len(b) = w
      /\ \A x \in Nat : 1 <= x /\ x <= Len(b) => b[x] = Str(s)[q + x]
  BY HoldsFacts
<1>2. CASE 3 <= Len(b)
  <2>1. b[1] = u /\ b[2] = CR /\ b[3] = LF
    BY <1>1, <1>2
  <2>2. 2 \in LineEndsOf(b) /\ 1 \notin LineEndsOf(b)
    BY <1>1, <1>2, <2>1 DEF LineEndsOf
  <2>3. \A k \in LineEndsOf(b) : k \in Nat /\ 1 <= k
    BY <1>1 DEF LineEndsOf
  <2>4. \A k \in LineEndsOf(b) : k \in Nat /\ 2 <= k
    BY <2>2, <2>3
  <2>5. Min(LineEndsOf(b)) = 2
    BY <2>2, <2>4, LeastOfEnds
  <2>6. SubSeq(b, 1, 1) = <<u>>
    <3> DEFINE c == SubSeq(b, 1, 1)
    <3>1. c \in Seq(Unit) /\ Len(c) = 1 /\ c[1] = b[1]
      BY <1>1, <1>2
    <3> HIDE DEF c
    <3>2. c = <<u>>
      BY <2>1, <3>1
    <3> QED
      BY <3>2 DEF c
  <2> QED
    BY <1>2, <2>2, <2>5, <2>6
<1>3. CASE ~(3 <= Len(b))
  <2>1. w < q + 3
    BY <1>1, <1>3
  <2>2. LineEndsOf(b) = {}
    <3> SUFFICES ASSUME NEW k \in LineEndsOf(b) PROVE FALSE
      OBVIOUS
    <3>1. k \in Nat /\ 1 <= k /\ k <= Len(b) - 1 /\ b[k] = CR
      BY <1>1 DEF LineEndsOf
    <3>2. k = 1 /\ 1 <= Len(b)
      BY <1>1, <1>3, <3>1
    <3>3. b[1] = u
      BY <1>1, <3>2
    <3> QED
      BY <3>1, <3>2, <3>3
  <2> QED
    BY <2>1, <2>2
<1> QED
  BY <1>2, <1>3

\* The empty line.
LEMMA EmptyLine ==
    ASSUME NEW s, NEW q, NEW b, NEW w, Holds(s, q, b, w),
           Str(s)[q + 1] = CR, Str(s)[q + 2] = LF
    PROVE  /\ LineEndsOf(b) = {} => w < q + 2
           /\ LineEndsOf(b) # {} =>
                Min(LineEndsOf(b)) = 1 /\ 2 <= Len(b) /\ SubSeq(b, 1, 0) = <<>>
<1>1. /\ q \in Nat /\ b \in Seq(Unit) /\ Len(b) \in Nat /\ q + Len(b) = w
      /\ \A x \in Nat : 1 <= x /\ x <= Len(b) => b[x] = Str(s)[q + x]
  BY HoldsFacts
<1>2. CASE 2 <= Len(b)
  <2>1. b[1] = CR /\ b[2] = LF
    BY <1>1, <1>2
  <2>2. 1 \in LineEndsOf(b)
    BY <1>1, <1>2, <2>1 DEF LineEndsOf
  <2>3. \A k \in LineEndsOf(b) : k \in Nat /\ 1 <= k
    BY <1>1 DEF LineEndsOf
  <2>4. Min(LineEndsOf(b)) = 1
    BY <2>2, <2>3, LeastOfEnds
  <2>5. SubSeq(b, 1, 0) = <<>>
    BY <1>1
  <2> QED
    BY <1>2, <2>2, <2>4, <2>5
<1>3. CASE ~(2 <= Len(b))
  <2>1. w < q + 2
    BY <1>1, <1>3
  <2>2. LineEndsOf(b) = {}
    BY <1>1, <1>3 DEF LineEndsOf
  <2> QED
    BY <2>1, <2>2
<1> QED
  BY <1>2, <1>3

-----------------------------------------------------------------------------
(* The steps.                                                              *)

LEMMA TalkFacts ==
    ASSUME Talk
    PROVE  /\ Len(replies) \in Nat /\ Len(script) \in Nat /\ Len(replies) <= Len(script)
           /\ Crlfs = LineEndsOf(buf) /\ Stream = Str(script)
           /\ \A n : EndOf(n) = Until(script, n)
<1>1. script \in Scripts /\ replies \in Seq(Reply) /\ Len(replies) <= Len(script)
  BY DEF Talk, RepliesInOrder
<1> QED
  BY <1>1, StreamFacts DEF Crlfs, LineEndsOf, Stream, Str, EndOf, Until

\* After the connection was closed nothing is said.
LEMMA ClosedTalk ==
    ASSUME Talk, connected' = FALSE, connected = FALSE, replies' = replies,
           script' = script, pc' \in {"idle", "parse", "true", "false"}
    PROVE  Talk'
  BY DEF Talk, RepliesInOrder

\* A step that answers nothing.
LEMMA SilentTalk ==
    ASSUME Talk, connected' = connected, replies' = replies, script' = script,
           connected, pc' \in {"idle", "parse", "true", "false"},
           NEW n, n = Len(replies), Place(n)', Waiting(n)',
           pc' = "false" => /\ state' = "kExpectRequestLine"
                            /\ n < Len(script) /\ script[n + 1].line = Text
    PROVE  Talk'
<1>1. /\ script' \in Scripts /\ replies' \in Seq(Reply) /\ connected' \in BOOLEAN
      /\ RepliesInOrder'
  BY DEF Talk, RepliesInOrder
<1>2. n = Len(replies') /\ \A k \in 1..n : ~replies'[k].close
  BY DEF Talk
<1>3. Place(Len(replies))' /\ Waiting(Len(replies))'
  BY <1>2 DEF Place, Waiting, AtLine, AtHeader, AtBody, AllRead, Parsed
<1> QED
  BY <1>1, <1>2, <1>3 DEF Talk

LEMMA SegmentTalk ==
    ASSUME Talk, NEW m \in 1..Len(Stream), Segment(m)
    PROVE  Talk'
<1>1. /\ pc = "idle" /\ wire < m /\ m <= MayArrive /\ wire' = m /\ pc' = "parse"
      /\ buf' = buf \o SubSeq(Str(script), wire + 1, m)
      /\ state' = state /\ request' = request /\ script' = script
      /\ pipelining' = pipelining /\ connected' = connected /\ replies' = replies
  BY TalkFacts DEF Segment, connVars
<1>2. CASE connected = FALSE
  BY <1>1, <1>2, ClosedTalk
<1>3. CASE connected
  <2>0. PICK n : n = Len(replies)
    OBVIOUS
  <2>1. /\ n \in Nat /\ Len(script) \in Nat /\ n <= Len(script) /\ Stream = Str(script)
        /\ script \in Scripts
    BY <2>0, TalkFacts DEF Talk
  <2>2. m \in Nat /\ m <= Len(Str(script))
    BY <2>1, StreamFacts
  <2>3. Place(n) /\ Waiting(n)
    BY <1>3, <2>0 DEF Talk
  <2>4. \A q : Holds(script, q, buf, wire) => Holds(script, q, buf', wire')
    <3> SUFFICES ASSUME NEW q, Holds(script, q, buf, wire)
                 PROVE  Holds(script, q, buf', wire')
      OBVIOUS
    <3> QED
      BY <1>1, <2>1, <2>2, HoldsArrive
  <2>5. Place(n)'
    <3>1. CASE AtLine(n)
      BY <1>1, <2>4, <3>1 DEF Place, AtLine
    <3>2. CASE n < Len(script) /\ \E h \in Nat : AtHeader(n, script[n + 1], h)
      <4>1. PICK h \in Nat : AtHeader(n, script[n + 1], h)
        BY <3>2
      <4>2. AtHeader(n, script[n + 1], h)'
        BY <1>1, <2>4, <4>1 DEF AtHeader, Parsed
      <4> QED
        BY <1>1, <3>2, <4>2 DEF Place
    <3>3. CASE n < Len(script) /\ AtBody(n, script[n + 1])
      <4>1. AtBody(n, script[n + 1])'
        BY <1>1, <2>4, <3>3 DEF AtBody, Parsed
      <4> QED
        BY <1>1, <3>3, <4>1 DEF Place
    <3> QED
      BY <1>1, <2>3, <3>1, <3>2, <3>3 DEF Place, AllRead
  <2>6. Waiting(n)'
    <3> SUFFICES ASSUME ~pipelining, n < Len(script)
                 PROVE  m <= Until(script, n + 1)
      BY <1>1 DEF Waiting
    <3>1. MayArrive = Until(script, n + 1)
      BY <2>0, <2>1, TalkFacts DEF MayArrive
    <3> QED
      BY <1>1, <3>1
  <2> QED
    BY <1>1, <1>3, <2>0, <2>5, <2>6, SilentTalk
<1> QED
  BY <1>2, <1>3 DEF Talk

-----------------------------------------------------------------------------
(* The lines of a request, as the parser finds them.                       *)

LEMMA UnitsDiffer ==
    ASSUME NEW r \in Request
    PROVE  /\ r.line # CR /\ Text # CR /\ Len(r.headers) \in Nat
           /\ \A h \in Nat : h + 1 <= Len(r.headers) =>
                 /\ r.headers[h + 1] # CR /\ r.headers[h + 1].t = "header"
                 /\ r.headers[h + 1].field \in Fields /\ r.headers[h + 1].value \in STRING
<1> DEFINE L == [t : {"line"}, path : STRING, version : STRING]
           H == [t : {"header"}, field : Fields, value : STRING]
<1>1. r.line \in L \cup {Text} /\ r.headers \in Seq(H)
  BY DEF Request
<1>2. CR.t = "CR" /\ Text.t = "text" /\ Text # CR
  BY DEF CR, Text
<1>3. \A x \in L : x.t = "line"
  OBVIOUS
<1>4. \A x \in H : x.t = "header" /\ x.field \in Fields /\ x.value \in STRING
  OBVIOUS
<1> HIDE DEF L, H
<1>5. r.line # CR
  BY <1>1, <1>2, <1>3
<1>6. Len(r.headers) \in Nat /\ \A h \in Nat : h + 1 <= Len(r.headers) => r.headers[h + 1] \in H
  BY <1>1
<1> QED
  BY <1>2, <1>4, <1>5, <1>6

LEMMA LineAt ==
    ASSUME NEW s \in Scripts, NEW n \in Nat, n + 1 <= Len(s), NEW b, NEW w,
           Holds(s, Until(s, n), b, w)
    PROVE  /\ LineEndsOf(b) = {} => w < Until(s, n) + 3
           /\ LineEndsOf(b) # {} => /\ Min(LineEndsOf(b)) = 2 /\ 3 <= Len(b)
                                    /\ SubSeq(b, 1, 1) = <<s[n + 1].line>>
<1> DEFINE u == s[n + 1].line
           q == Until(s, n)
<1>1. s[n + 1] \in Request /\ Str(s)[q + 1] = u /\ Str(s)[q + 2] = CR /\ Str(s)[q + 3] = LF
  BY RequestAt
<1>2. u # CR
  BY <1>1, UnitsDiffer
<1> HIDE DEF u, q
<1>3. Holds(s, q, b, w)
  BY DEF q
<1>4. /\ LineEndsOf(b) = {} => w < q + 3
      /\ LineEndsOf(b) # {} =>
           /\ Min(LineEndsOf(b)) = 2 /\ 3 <= Len(b) /\ SubSeq(b, 1, 1) = <<u>>
  BY <1>1, <1>2, <1>3, UnitLine
<1> QED
  BY <1>4 DEF u, q

LEMMA HeaderLineAt ==
    ASSUME NEW s \in Scripts, NEW n \in Nat, n + 1 <= Len(s), NEW b, NEW w,
           NEW h \in Nat, h + 1 <= Len(s[n + 1].headers),
           Holds(s, Until(s, n) + HeaderAt(h), b, w)
    PROVE  /\ LineEndsOf(b) = {} => w < Until(s, n) + HeaderAt(h) + 3
           /\ LineEndsOf(b) # {} => /\ Min(LineEndsOf(b)) = 2 /\ 3 <= Len(b)
                                    /\ SubSeq(b, 1, 1) = <<s[n + 1].headers[h + 1]>>
<1> DEFINE u == s[n + 1].headers[h + 1]
           q == Until(s, n) + HeaderAt(h)
<1>1. s[n + 1] \in Request /\ Str(s)[q + 1] = u /\ Str(s)[q + 2] = CR /\ Str(s)[q + 3] = LF
  BY RequestAt
<1>2. u # CR
  BY <1>1, UnitsDiffer
<1> HIDE DEF u, q
<1>3. Holds(s, q, b, w)
  BY DEF q
<1>4. /\ LineEndsOf(b) = {} => w < q + 3
      /\ LineEndsOf(b) # {} =>
           /\ Min(LineEndsOf(b)) = 2 /\ 3 <= Len(b) /\ SubSeq(b, 1, 1) = <<u>>
  BY <1>1, <1>2, <1>3, UnitLine
<1> QED
  BY <1>4 DEF u, q

\* The line that ends the headers, empty or without a colon, ends before e.
EndLine(b, r, e) ==
    /\ e \in Nat /\ e + 1 <= Len(b) /\ HeaderAt(Len(r.headers)) + e + 1 = HeadEnd(r)
    /\ SubSeq(b, 1, e - 1) = <<>> \/ SubSeq(b, 1, e - 1) = <<Text>>

LEMMA EndLineAt ==
    ASSUME NEW s \in Scripts, NEW n \in Nat, n + 1 <= Len(s), NEW b, NEW w,
           NEW r, r = s[n + 1],
           Holds(s, Until(s, n) + HeaderAt(Len(r.headers)), b, w)
    PROVE  /\ LineEndsOf(b) = {} => w < Until(s, n) + HeadEnd(r)
           /\ LineEndsOf(b) # {} => EndLine(b, r, Min(LineEndsOf(b)))
<1> DEFINE z == Len(r.headers)
           q == Until(s, n) + HeaderAt(z)
           l == Len(r.end)
<1>1. /\ z \in Nat /\ l \in {0, 1} /\ Until(s, n) \in Nat /\ r \in Request
      /\ l = 1 => Str(s)[Until(s, n) + HeaderAt(z) + 1] = Text
      /\ Str(s)[Until(s, n) + HeaderAt(z) + l + 1] = CR
      /\ Str(s)[Until(s, n) + HeaderAt(z) + l + 2] = LF
  BY RequestAt
<1>2. HeadEnd(r) = HeaderAt(z) + l + 2 /\ HeaderAt(z) \in Nat
  BY <1>1 DEF HeadEnd, HeaderAt
<1>3. Holds(s, q, b, w) /\ q \in Nat
  BY <1>1, <1>2, SMTT(40)
<1> HIDE DEF z, l
<1>4. CASE l = 0
  <2>1. Str(s)[q + 1] = CR /\ Str(s)[q + 2] = LF
    BY <1>1, <1>2, <1>3, <1>4
  <2>a. Until(s, n) + HeadEnd(r) = q + 2 /\ HeaderAt(z) + 1 + 1 = HeadEnd(r)
    BY <1>1, <1>2, <1>4, SMTT(60)
  <2> HIDE DEF q
  <2>2. /\ LineEndsOf(b) = {} => w < q + 2
        /\ LineEndsOf(b) # {} =>
                Min(LineEndsOf(b)) = 1 /\ 2 <= Len(b) /\ SubSeq(b, 1, 0) = <<>>
    BY <1>3, <2>1, EmptyLine
  <2>3. CASE LineEndsOf(b) = {}
    BY <2>a, <2>2, <2>3
  <2>4. CASE LineEndsOf(b) # {}
    <3>1. Min(LineEndsOf(b)) = 1 /\ 2 <= Len(b) /\ SubSeq(b, 1, 1 - 1) = <<>>
      BY <2>2, <2>4
    <3>2. Min(LineEndsOf(b)) \in Nat /\ Min(LineEndsOf(b)) + 1 <= Len(b)
      BY <3>1
    <3>3. HeaderAt(z) + Min(LineEndsOf(b)) + 1 = HeadEnd(r)
      BY <2>a, <3>1
    <3>4. SubSeq(b, 1, Min(LineEndsOf(b)) - 1) = <<>>
      BY <3>1
    <3> QED
      BY <2>4, <3>2, <3>3, <3>4 DEF z, EndLine
  <2> QED
    BY <2>3, <2>4
<1>5. CASE l = 1
  <2>1. Str(s)[q + 1] = Text /\ Str(s)[q + 2] = CR /\ Str(s)[q + 3] = LF /\ Text # CR
    <3>1. /\ Until(s, n) + HeaderAt(z) + l + 1 = q + 2
          /\ Until(s, n) + HeaderAt(z) + l + 2 = q + 3
      BY <1>1, <1>2, <1>5, SMTT(60)
    <3> QED
      BY <1>1, <1>5, <3>1, UnitsDiffer
  <2>a. Until(s, n) + HeadEnd(r) = q + 3 /\ HeaderAt(z) + 2 + 1 = HeadEnd(r)
    BY <1>1, <1>2, <1>5, SMTT(40)
  <2> HIDE DEF q
  <2>2. /\ LineEndsOf(b) = {} => w < q + 3
        /\ LineEndsOf(b) # {} =>
                Min(LineEndsOf(b)) = 2 /\ 3 <= Len(b) /\ SubSeq(b, 1, 1) = <<Text>>
    BY <1>3, <2>1, UnitLine
  <2>3. CASE LineEndsOf(b) = {}
    BY <2>a, <2>2, <2>3
  <2>4. CASE LineEndsOf(b) # {}
    <3>1. Min(LineEndsOf(b)) = 2 /\ 3 <= Len(b) /\ SubSeq(b, 1, 2 - 1) = <<Text>>
      BY <2>2, <2>4
    <3>2. Min(LineEndsOf(b)) \in Nat /\ Min(LineEndsOf(b)) + 1 <= Len(b)
      BY <3>1
    <3>3. HeaderAt(z) + Min(LineEndsOf(b)) + 1 = HeadEnd(r)
      BY <2>a, <3>1
    <3>4. SubSeq(b, 1, Min(LineEndsOf(b)) - 1) = <<Text>>
      BY <3>1
    <3> QED
      BY <2>4, <3>2, <3>3, <3>4 DEF z, EndLine
  <2> QED
    BY <2>3, <2>4
<1> QED
  BY <1>1, <1>4, <1>5

\* All of the script was parsed: there is nothing left.
LEMMA NothingLeft ==
    ASSUME NEW s \in Scripts, NEW b, NEW w, Holds(s, Until(s, Len(s)), b, w)
    PROVE  LineEndsOf(b) = {}
<1>1. Len(b) \in Nat /\ Until(s, Len(s)) + Len(b) = w /\ w <= Len(Str(s))
  BY HoldsFacts
<1>2. Until(s, Len(s)) = Len(Str(s)) /\ Len(Str(s)) \in Nat
  BY StreamFacts
<1>3. Len(b) = 0
  BY <1>1, <1>2
<1> QED
  BY <1>3 DEF LineEndsOf

-----------------------------------------------------------------------------
(* The steps of parse_request().                                           *)

\* What is known before a step of an open connection.
LEMMA OpenTalk ==
    ASSUME Talk, connected, NEW n, n = Len(replies)
    PROVE  /\ n \in Nat /\ Len(script) \in Nat /\ n <= Len(script) /\ script \in Scripts
           /\ Crlfs = LineEndsOf(buf) /\ Place(n) /\ Waiting(n)
           /\ pc = "false" => /\ state = "kExpectRequestLine" /\ n < Len(script)
                              /\ script[n + 1].line = Text
           /\ n < Len(script) => n + 1 <= Len(script) /\ script[n + 1] \in Request
<1>1. n \in Nat /\ Len(script) \in Nat /\ n <= Len(script) /\ script \in Scripts
  BY TalkFacts DEF Talk
<1>2. Crlfs = LineEndsOf(buf)
  BY TalkFacts
<1>3. /\ Place(n) /\ Waiting(n)
      /\ pc = "false" => /\ state = "kExpectRequestLine" /\ n < Len(script)
                         /\ script[n + 1].line = Text
  BY DEF Talk
<1>4. n < Len(script) => n + 1 <= Len(script) /\ script[n + 1] \in Request
  BY <1>1, StreamFacts
<1> QED
  BY <1>1, <1>2, <1>3, <1>4

LEMMA NeedMoreTalk ==
    ASSUME Talk, NeedMore, UNCHANGED <<connVars, clientVars>>
    PROVE  Talk'
<1>1. /\ pc = "parse" /\ state \in {"kExpectRequestLine", "kExpectHeaders"}
      /\ Crlfs = {} /\ pc' = "true" /\ buf' = buf /\ state' = state
      /\ request' = request /\ connected' = connected /\ replies' = replies
      /\ script' = script /\ wire' = wire /\ pipelining' = pipelining
  BY DEF NeedMore, Return, connVars, clientVars
<1>2. CASE connected = FALSE
  BY <1>1, <1>2, ClosedTalk
<1>3. CASE connected
  <2>0. PICK n : n = Len(replies)
    OBVIOUS
  <2>1. /\ n \in Nat /\ Len(script) \in Nat /\ n <= Len(script) /\ script \in Scripts
        /\ LineEndsOf(buf) = {} /\ Place(n) /\ Waiting(n)
        /\ n < Len(script) => n + 1 <= Len(script)
    BY <1>1, <1>3, <2>0, OpenTalk
  <2>2. AtLine(n) \/ (n < Len(script) /\ \E h \in Nat : AtHeader(n, script[n + 1], h))
    BY <1>1, <2>1 DEF Place, AllRead, AtBody
  <2>3. Place(n)'
    <3>1. CASE AtLine(n)
      BY <1>1, <3>1 DEF Place, AtLine
    <3>2. CASE n < Len(script) /\ \E h \in Nat : AtHeader(n, script[n + 1], h)
      <4>1. PICK h \in Nat : AtHeader(n, script[n + 1], h)
        BY <3>2
      <4>2. AtHeader(n, script[n + 1], h)'
        BY <1>1, <4>1 DEF AtHeader, Parsed
      <4> QED
        BY <1>1, <3>2, <4>2 DEF Place
    <3> QED
      BY <2>2, <3>1, <3>2
  <2>4. ASSUME n < Len(script) PROVE wire < Until(script, n + 1)
    <3> DEFINE r == script[n + 1]
               z == Len(r.headers)
    <3>1. n + 1 <= Len(script)
      BY <2>1, <2>4
    <3>2. /\ Until(script, n) \in Nat /\ z \in Nat /\ r.body \in Nat /\ HeadEnd(r) \in Nat
          /\ Until(script, n + 1) = Until(script, n) + HeadEnd(r) + r.body
          /\ Len(r.end) \in {0, 1}
      BY <2>1, <3>1, RequestAt
    <3>3. HeadEnd(r) >= 3 * z + 5
      <4> DEFINE l == Len(r.end)
                 y == HeadEnd(r)
      <4>1. y = 3 + 3 * z + l + 2 /\ l \in {0, 1} /\ z \in Nat
        BY <3>2 DEF HeadEnd
      <4> HIDE DEF l, z, y
      <4>2. y >= 3 * z + 5
        BY <4>1
      <4> QED
        BY <4>2 DEF y
    <3>4. CASE AtLine(n)
      <4>1. Holds(script, Until(script, n), buf, wire)
        BY <3>4 DEF AtLine
      <4>2. wire < Until(script, n) + 3 /\ wire \in Nat
        BY <2>1, <3>1, <4>1, LineAt, HoldsFacts
      <4> QED
        BY <3>2, <3>3, <4>2, SMTT(60)
    <3>5. CASE \E h \in Nat : AtHeader(n, r, h)
      <4>1. PICK h \in Nat : AtHeader(n, r, h)
        BY <3>5
      <4>2. Holds(script, Until(script, n) + HeaderAt(h), buf, wire) /\ h <= z
        BY <3>2, <4>1 DEF AtHeader, Parsed
      <4>3. wire \in Nat
        BY <4>2, HoldsFacts
      <4>4. CASE h + 1 <= z
        <5>1. wire < Until(script, n) + HeaderAt(h) + 3
          BY <2>1, <3>1, <4>2, <4>4, HeaderLineAt
        <5> QED
          BY <3>2, <3>3, <4>3, <4>4, <5>1, SMTT(40) DEF HeaderAt
      <4>5. CASE h = z
        <5>1. wire < Until(script, n) + HeadEnd(r)
          BY <2>1, <3>1, <4>2, <4>5, EndLineAt
        <5> QED
          BY <3>2, <4>3, <5>1
      <4> QED
        BY <3>2, <4>2, <4>4, <4>5
    <3> QED
      BY <2>2, <3>4, <3>5
  <2>5. Waiting(n)'
    BY <1>1, <2>1, <2>4 DEF Waiting
  <2> QED
    BY <1>1, <1>3, <2>0, <2>3, <2>5, SilentTalk
<1> QED
  BY <1>2, <1>3 DEF Talk

NoHeaders == [f \in Fields |-> ""]
NoBody == <<>>
OnlyLine(q, p, v) ==
    q = [path |-> p, version |-> v, headers |-> NoHeaders, body |-> NoBody]

Fresh(q, p, v) ==
    /\ q \in Parsing /\ q.path = p /\ q.version = v /\ q.body = <<>>
    /\ \A f \in Fields : q.headers[f] = ""

LEMMA FirstLineIs ==
    ASSUME NEW p, NEW v, NEW q, q = [EmptyRequest EXCEPT !.path = p, !.version = v]
    PROVE  OnlyLine(q, p, v)
<1> DEFINE none == [path |-> "", version |-> "kUnKnown", headers |-> NoHeaders,
                    body |-> NoBody]
<1>1. q = [none EXCEPT !.path = p, !.version = v]
  BY DEF EmptyRequest, NoHeaders, NoBody
<1> QED
  BY <1>1 DEF OnlyLine

LEMMA NothingYet ==
    /\ NoHeaders \in [Fields -> Word] /\ \A f \in Fields : NoHeaders[f] = ""
    /\ NoBody \in Seq({Byte}) /\ NoBody = <<>>
<1> DEFINE e == ""
<1>1. e \in Word
  BY DEF Word
<1> HIDE DEF e
<1>2. /\ [f \in Fields |-> e] \in [Fields -> Word]
      /\ \A f \in Fields : [g \in Fields |-> e][f] = e
  BY <1>1
<1>3. [f \in Fields |-> e] = NoHeaders
  BY DEF NoHeaders, e
<1> HIDE DEF NoHeaders
<1>4. NoHeaders \in [Fields -> Word] /\ \A f \in Fields : NoHeaders[f] = e
  BY <1>2, <1>3
<1>5. NoBody \in Seq({Byte}) /\ NoBody = <<>>
  BY DEF NoBody
<1> QED
  BY <1>4, <1>5 DEF e

LEMMA FirstLine ==
    ASSUME NEW p \in Word, NEW v \in Word, NEW q, OnlyLine(q, p, v)
    PROVE  Fresh(q, p, v)
<1>0. NoHeaders \in [Fields -> Word] /\ NoBody \in Seq({Byte})
  BY NothingYet
<1>1. /\ q \in Parsing
      /\ q.path = p /\ q.version = v /\ q.body = NoBody /\ q.headers = NoHeaders
  BY <1>0 DEF Parsing, OnlyLine
<1> QED
  BY <1>1, NothingYet DEF Fresh

LEMMA LineKinds ==
    ASSUME NEW r \in Request
    PROVE  /\ r.line = Text => ~IsRequestLine(<<r.line>>)
           /\ r.line # Text => /\ IsRequestLine(<<r.line>>)
                               /\ r.line.path \in Word /\ r.line.version \in Word
<1> DEFINE L == [t : {"line"}, path : STRING, version : STRING]
           u == r.line
<1>1. u \in L \cup {Text}
  BY DEF Request
<1>2. Text.t = "text"
  BY DEF Text
<1>3. \A x \in L : x.t = "line" /\ x.path \in Word /\ x.version \in Word
  BY DEF Word
<1> HIDE DEF L, u
<1>4. IsRequestLine(<<u>>) <=> u.t = "line"
  BY DEF IsRequestLine
<1>5. u = Text => ~(u.t = "line")
  BY <1>2
<1>6. u # Text => u.t = "line" /\ u.path \in Word /\ u.version \in Word
  BY <1>1, <1>3
<1> QED
  BY <1>4, <1>5, <1>6 DEF u

LEMMA RequestLineTalk ==
    ASSUME Talk, ExpectRequestLine, UNCHANGED <<connVars, clientVars>>
    PROVE  Talk'
<1>1. /\ pc = "parse" /\ state = "kExpectRequestLine" /\ Crlfs # {}
      /\ connected' = connected /\ replies' = replies
      /\ script' = script /\ wire' = wire /\ pipelining' = pipelining
  BY DEF ExpectRequestLine, connVars, clientVars
<1>2. pc' \in {"idle", "parse", "true", "false"}
  BY DEF ExpectRequestLine, Return
<1>3. CASE connected = FALSE
  BY <1>1, <1>2, <1>3, ClosedTalk
<1>4. CASE connected
  <2>0. PICK n : n = Len(replies)
    OBVIOUS
  <2>1. /\ n \in Nat /\ Len(script) \in Nat /\ n <= Len(script) /\ script \in Scripts
        /\ Crlfs = LineEndsOf(buf) /\ Place(n) /\ Waiting(n)
        /\ n < Len(script) => n + 1 <= Len(script) /\ script[n + 1] \in Request
    BY <1>4, <2>0, OpenTalk
  <2>2. /\ request = EmptyRequest /\ AtLine(n)
        /\ Holds(script, Until(script, n), buf, wire)
    BY <1>1, <2>1 DEF Place, AtLine, AtHeader, AtBody, AllRead
  <2>3. n < Len(script)
    <3> SUFFICES ASSUME n = Len(script) PROVE FALSE
      BY <2>1
    <3> QED
      BY <1>1, <2>1, <2>2, NothingLeft
  <2>4. PICK r : r = script[n + 1] /\ r \in Request
    BY <2>1, <2>3
  <2>5. /\ Min(Crlfs) = 2 /\ 3 <= Len(buf) /\ SubSeq(buf, 1, 1) = <<r.line>>
    BY <1>1, <2>1, <2>2, <2>3, <2>4, LineAt
  <2>6. Line = <<r.line>>
    BY <2>5 DEF Line
  <2>7. CASE r.line = Text
    <3>1. ~IsRequestLine(Line)
      BY <2>4, <2>6, <2>7, LineKinds
    <3>2. pc' = "false" /\ buf' = buf /\ state' = state /\ request' = request
      BY <3>1 DEF ExpectRequestLine, Return
    <3>3. Place(n)'
      BY <1>1, <2>2, <3>2 DEF Place, AtLine
    <3>4. Waiting(n)'
      BY <1>1, <2>1, <3>2 DEF Waiting
    <3> QED
      BY <1>1, <1>4, <2>0, <2>3, <2>4, <2>7, <3>2, <3>3, <3>4, SilentTalk
  <2>8. CASE r.line # Text
    <3>1. IsRequestLine(Line) /\ r.line.path \in Word /\ r.line.version \in Word
      BY <2>4, <2>6, <2>8, LineKinds
    <3>2. /\ request' = [request EXCEPT !.path = Line[1].path, !.version = Line[1].version]
          /\ RetrieveLine /\ state' = "kExpectHeaders" /\ pc' = pc
      BY <3>1 DEF ExpectRequestLine
    <3>3. Line[1] = r.line
      BY <2>6
    <3>4. request' = [EmptyRequest EXCEPT !.path = r.line.path, !.version = r.line.version]
      BY <2>2, <3>2, <3>3
    <3>5. PICK p, v, q : p = r.line.path /\ v = r.line.version /\ q = request'
      OBVIOUS
    <3>6. p \in Word /\ v \in Word /\ q = [EmptyRequest EXCEPT !.path = p, !.version = v]
      BY <3>1, <3>4, <3>5
    <3>7. OnlyLine(q, p, v)
      BY <3>6, FirstLineIs
    <3>a. p \in Word /\ v \in Word
      BY <3>6
    <3>8. /\ q \in Parsing /\ q.path = p /\ q.version = v /\ q.body = <<>>
          /\ \A f \in Fields : q.headers[f] = ""
      <4>1. Fresh(q, p, v)
        BY <3>a, <3>7, FirstLine
      <4> QED
        BY <4>1 DEF Fresh
    <3>9. Len(r.headers) \in Nat
      BY <2>4, UnitsDiffer
    <3>10. Parsed(r, 0)'
      <4>1. 0 \in 0..Len(r.headers)
        BY <3>9
      <4>2. \A f \in Fields : Said(r.headers, 0, f, q.headers[f])
        <5>1. \A f \in Fields : q.headers[f] = ""
          BY <3>8
        <5>2. \A i \in 1..0 : FALSE
          OBVIOUS
        <5> QED
          BY <5>1, <5>2 DEF Said
      <4> QED
        BY <2>8, <3>5, <3>8, <4>1, <4>2 DEF Parsed
    <3>11. Holds(script, Until(script, n) + HeaderAt(0), buf', wire)
      <4>1. buf' = SubSeq(buf, 4, Len(buf))
        BY <2>5, <3>2 DEF RetrieveLine
      <4>2. 3 \in Nat /\ 4 = 3 + 1 /\ Until(script, n) + HeaderAt(0) = Until(script, n) + 3
        BY DEF HeaderAt
      <4> QED
        BY <2>2, <2>5, <4>1, <4>2, HoldsRetrieve
    <3>12. AtHeader(n, r, 0)'
      BY <1>1, <3>2, <3>5, <3>8, <3>10, <3>11 DEF AtHeader
    <3>13. Place(n)'
      BY <1>1, <2>3, <2>4, <3>12 DEF Place
    <3>14. Waiting(n)'
      BY <1>1, <2>1, <3>2 DEF Waiting
    <3> QED
      BY <1>1, <1>2, <1>4, <2>0, <3>2, <3>13, <3>14, SilentTalk
  <2> QED
    BY <2>7, <2>8
<1> QED
  BY <1>3, <1>4 DEF Talk

-----------------------------------------------------------------------------
(* The headers.                                                            *)

LEMMA SaidNext ==
    ASSUME NEW hs, NEW h \in Nat, NEW f, NEW v, Said(hs, h, f, v), NEW i, i = h + 1
    PROVE  /\ hs[i].field = f => Said(hs, i, f, hs[i].value)
           /\ hs[i].field # f => Said(hs, i, f, v)
<1>1. /\ i \in Nat /\ i \in 1..i /\ \A j \in 1..h : j \in 1..i
      /\ \A j \in 1..i : j <= i /\ (j = i \/ j \in 1..h)
  OBVIOUS
<1>2. ASSUME hs[i].field = f PROVE Said(hs, i, f, hs[i].value)
  BY <1>1, <1>2 DEF Said
<1>3. ASSUME hs[i].field # f PROVE Said(hs, i, f, v)
  <2>1. CASE v = "" /\ \A k \in 1..h : hs[k].field # f
    <3>1. \A k \in 1..i : hs[k].field # f
      BY <1>1, <1>3, <2>1
    <3> QED
      BY <2>1, <3>1 DEF Said
  <2>2. CASE \E k \in 1..h : /\ hs[k].field = f /\ hs[k].value = v
                             /\ \A j \in 1..h : hs[j].field = f => j <= k
    <3>1. PICK k \in 1..h : /\ hs[k].field = f /\ hs[k].value = v
                            /\ \A j \in 1..h : hs[j].field = f => j <= k
      BY <2>2
    <3>2. \A j \in 1..i : hs[j].field = f => j <= k
      BY <1>1, <1>3, <3>1
    <3>3. k \in 1..i
      BY <1>1
    <3> QED
      BY <3>1, <3>2, <3>3 DEF Said
  <2> QED
    BY <2>1, <2>2 DEF Said
<1> QED
  BY <1>2, <1>3

\* What was heard after all headers is what the last one says.
LEMMA SaidLast ==
    ASSUME NEW r \in Request, NEW f, NEW v, Said(r.headers, Len(r.headers), f, v)
    PROVE  LastHeader(r, f) = v
<1> DEFINE hs == r.headers
           z == Len(hs)
           K == {k \in 1..z : hs[k].field = f}
<1>0. z \in Nat
  BY UnitsDiffer
<1>1. LastHeader(r, f) = IF K = {} THEN "" ELSE hs[Max(K)].value
  BY DEF LastHeader
<1> HIDE DEF hs, z
<1>2. CASE v = "" /\ \A k \in 1..z : hs[k].field # f
  <2>1. K = {}
    BY <1>2
  <2> QED
    BY <1>1, <1>2, <2>1
<1>3. CASE \E k \in 1..z : /\ hs[k].field = f /\ hs[k].value = v
                           /\ \A j \in 1..z : hs[j].field = f => j <= k
  <2>1. PICK k \in 1..z : /\ hs[k].field = f /\ hs[k].value = v
                          /\ \A j \in 1..z : hs[j].field = f => j <= k
    BY <1>3
  <2>2. k \in K /\ \A j \in K : j \in Nat /\ j <= k /\ k \in Nat
    BY <1>0, <2>1
  <2> HIDE DEF K
  <2>3. \E x \in K : \A y \in K : x >= y
    BY <2>2
  <2>4. Max(K) \in K /\ \A y \in K : Max(K) >= y
    BY <2>3, Zenon DEF Max
  <2>5. Max(K) = k
    <3>1. Max(K) \in Nat /\ k \in Nat /\ Max(K) <= k
      BY <2>2, <2>4
    <3>2. Max(K) >= k
      BY <2>2, <2>4
    <3> QED
      BY <3>1, <3>2
  <2> QED
    BY <1>1, <2>1, <2>2, <2>5
<1> QED
  BY <1>2, <1>3 DEF Said, hs, z

\* add_header().
Heard(q, q2, u) ==
    /\ q2 \in Parsing /\ q2.path = q.path /\ q2.version = q.version
    /\ q2.body = q.body
    /\ \A f \in Fields : q2.headers[f] = IF f = u.field THEN u.value ELSE q.headers[f]

LEMMA HeardHeader ==
    ASSUME NEW q \in Parsing, NEW u, u.field \in Fields, u.value \in STRING, NEW q2,
           q2 = [q EXCEPT !.headers[u.field] = u.value]
    PROVE  Heard(q, q2, u)
<1> DEFINE g == u.field
           x == u.value
           hs == [q.headers EXCEPT ![g] = x]
<1>1. /\ q.headers \in [Fields -> Word] /\ q.path \in Word /\ q.version \in Word
      /\ q.body \in Seq({Byte})
  BY DEF Parsing
<1>2. x \in Word /\ g \in Fields /\ q2 = [q EXCEPT !.headers = hs]
  BY DEF Word
<1> HIDE DEF g, x
<1>3. /\ hs \in [Fields -> Word]
      /\ \A f \in Fields : hs[f] = IF f = g THEN x ELSE q.headers[f]
  BY <1>1, <1>2
<1> HIDE DEF hs
<1>4. /\ q2 \in Parsing /\ q2.path = q.path /\ q2.version = q.version
      /\ q2.body = q.body /\ q2.headers = hs
  BY <1>1, <1>2, <1>3 DEF Parsing
<1> QED
  BY <1>3, <1>4 DEF Heard, g, x

\* The body that is announced is the body that comes.
LEMMA BodyAnnounced ==
    ASSUME NEW r \in Request, Reasonable(r), r.line # Text, NEW v,
           Said(r.headers, Len(r.headers), "Content-Length", v)
    PROVE  r.body = BodyLen(v) /\ (v = "" => r.body = 0)
<1>1. LastHeader(r, "Content-Length") = v
  BY SaidLast
<1>2. r.body = BodyLen(v)
  BY <1>1 DEF Reasonable
<1>3. BodyLen("") = 0
  BY NumberAssumption DEF BodyLen
<1> QED
  BY <1>2, <1>3

LEMMA HeadersTalk ==
    ASSUME Talk, ExpectHeaders, UNCHANGED <<connVars, clientVars>>
    PROVE  Talk'
<1>1. /\ pc = "parse" /\ state = "kExpectHeaders" /\ Crlfs # {} /\ RetrieveLine
      /\ connected' = connected /\ replies' = replies
      /\ script' = script /\ wire' = wire /\ pipelining' = pipelining
  BY DEF ExpectHeaders, connVars, clientVars
<1>2. pc' \in {"parse", "true"} /\ pc' \in {"idle", "parse", "true", "false"}
  BY DEF ExpectHeaders, Return
<1>3. CASE connected = FALSE
  BY <1>1, <1>2, <1>3, ClosedTalk
<1>4. CASE connected
  <2>0. PICK n : n = Len(replies)
    OBVIOUS
  <2>1. /\ n \in Nat /\ Len(script) \in Nat /\ n <= Len(script) /\ script \in Scripts
        /\ Crlfs = LineEndsOf(buf) /\ Place(n) /\ Waiting(n)
        /\ n < Len(script) => n + 1 <= Len(script) /\ script[n + 1] \in Request
    BY <1>4, <2>0, OpenTalk
  <2>2. n < Len(script) /\ \E h \in Nat : AtHeader(n, script[n + 1], h)
    BY <1>1, <2>1 DEF Place, AtLine, AtHeader, AtBody, AllRead
  <2>3. PICK r : r = script[n + 1] /\ r \in Request
    BY <2>1, <2>2
  <2>4. PICK h \in Nat : AtHeader(n, r, h)
    BY <2>2, <2>3
  <2>5. /\ Parsed(r, h) /\ request.body = <<>> /\ Len(r.headers) \in Nat
        /\ Holds(script, Until(script, n) + HeaderAt(h), buf, wire)
    BY <2>3, <2>4, UnitsDiffer DEF AtHeader
  <2>6. h <= Len(r.headers) /\ request \in Parsing
    BY <2>5 DEF Parsed
  <2>7. CASE h + 1 <= Len(r.headers)
    <3>0. PICK u : u = r.headers[h + 1]
      OBVIOUS
    <3>1. /\ Min(Crlfs) = 2 /\ 3 <= Len(buf) /\ SubSeq(buf, 1, 1) = <<u>>
      BY <1>1, <2>1, <2>2, <2>3, <2>5, <2>7, <3>0, HeaderLineAt
    <3>2. u.t = "header" /\ u.field \in Fields /\ u.value \in STRING
      BY <2>3, <2>7, <3>0, UnitsDiffer
    <3>3. Line = <<u>>
      BY <3>1 DEF Line
    <3>4. HasColon(Line) /\ add_header(Line) = [request EXCEPT !.headers[u.field] = u.value]
      <4>1. Len(<<u>>) = 1 /\ <<u>>[1] = u
        OBVIOUS
      <4> QED
        BY <3>2, <3>3, <4>1 DEF HasColon, add_header
    <3>5. request' = add_header(Line) /\ state' = state /\ pc' = pc
      BY <3>4 DEF ExpectHeaders
    <3>6. PICK q, q2 : q = request /\ q2 = request'
      OBVIOUS
    <3>7. Heard(q, q2, u)
      <4>1. q \in Parsing /\ q2 = [q EXCEPT !.headers[u.field] = u.value]
        BY <2>6, <3>4, <3>5, <3>6
      <4> QED
        BY <3>2, <4>1, HeardHeader
    <3>8. Parsed(r, h + 1)'
      <4>1. /\ q2 \in Parsing /\ q2.path = r.line.path /\ q2.version = r.line.version
            /\ r.line # Text
        BY <2>5, <3>6, <3>7 DEF Parsed, Heard
      <4>2. h + 1 \in 0..Len(r.headers)
        BY <2>5, <2>7
      <4>3. ASSUME NEW f \in Fields PROVE Said(r.headers, h + 1, f, q2.headers[f])
        <5>1. Said(r.headers, h, f, q.headers[f])
          BY <2>5, <3>6 DEF Parsed
        <5>2. q2.headers[f] = IF f = u.field THEN u.value ELSE q.headers[f]
          BY <3>7 DEF Heard
        <5>3. /\ u.field = f => Said(r.headers, h + 1, f, u.value)
              /\ u.field # f => Said(r.headers, h + 1, f, q.headers[f])
          BY <3>0, <5>1, SaidNext
        <5> QED
          BY <5>2, <5>3
      <4> QED
        BY <3>6, <4>1, <4>2, <4>3 DEF Parsed
    <3>9. Holds(script, Until(script, n) + HeaderAt(h + 1), buf', wire)
      <4>1. buf' = SubSeq(buf, 4, Len(buf))
        BY <1>1, <3>1 DEF RetrieveLine
      <4>2. Until(script, n) \in Nat
        BY <2>1, StreamFacts
      <4>3. /\ 3 \in Nat /\ 4 = 3 + 1
            /\ Until(script, n) + HeaderAt(h + 1) = Until(script, n) + HeaderAt(h) + 3
        BY <4>2 DEF HeaderAt
      <4> QED
        BY <2>5, <3>1, <4>1, <4>3, HoldsRetrieve
    <3>10. AtHeader(n, r, h + 1)'
      <4>1. request'.body = <<>>
        BY <2>5, <3>6, <3>7 DEF Heard
      <4> QED
        BY <1>1, <3>5, <3>8, <3>9, <4>1 DEF AtHeader
    <3>11. Place(n)'
      <4>1. h + 1 \in Nat
        OBVIOUS
      <4> QED
        BY <1>1, <2>2, <2>3, <3>10, <4>1 DEF Place
    <3>12. Waiting(n)'
      BY <1>1, <2>1, <3>5 DEF Waiting
    <3> QED
      BY <1>1, <1>2, <1>4, <2>0, <3>11, <3>12, SilentTalk
  <2>8. CASE h = Len(r.headers)
    <3>0. PICK e : e = Min(Crlfs)
      OBVIOUS
    <3>1. /\ e \in Nat /\ e + 1 <= Len(buf) /\ HeaderAt(h) + e + 1 = HeadEnd(r)
          /\ SubSeq(buf, 1, e - 1) = <<>> \/ SubSeq(buf, 1, e - 1) = <<Text>>
      <4>1. EndLine(buf, r, Min(LineEndsOf(buf)))
        <5>1. /\ n \in Nat /\ n + 1 <= Len(script) /\ script \in Scripts
              /\ LineEndsOf(buf) # {} /\ r = script[n + 1]
              /\ Holds(script, Until(script, n) + HeaderAt(Len(r.headers)), buf, wire)
          BY <1>1, <2>1, <2>2, <2>3, <2>5, <2>8
        <5> QED
          BY <5>1, EndLineAt
      <4>2. e = Min(LineEndsOf(buf))
        BY <2>1, <3>0
      <4> QED
        BY <2>8, <4>1, <4>2 DEF EndLine
    <3>2. Line = <<>> \/ Line = <<Text>>
      BY <3>0, <3>1 DEF Line
    <3>3. ~HasColon(Line)
      <4>1. CASE Line = <<>>
        BY <4>1 DEF HasColon
      <4>2. CASE Line = <<Text>>
        <5>1. Len(<<Text>>) = 1 /\ <<Text>>[1] = Text /\ Text.t # "header"
          BY DEF Text
        <5> QED
          BY <4>2, <5>1 DEF HasColon
      <4> QED
        BY <3>2, <4>1, <4>2
    <3>4. request' = request
      BY <3>3 DEF ExpectHeaders
    <3>5. /\ Until(script, n) \in Nat /\ HeadEnd(r) \in Nat /\ r.body \in Nat
          /\ Reasonable(r) /\ Until(script, n + 1) = Until(script, n) + HeadEnd(r) + r.body
      BY <2>1, <2>2, <2>3, RequestAt
    <3>6. Holds(script, Until(script, n) + HeadEnd(r), buf', wire)
      <4>1. buf' = SubSeq(buf, e + 2, Len(buf))
        BY <1>1, <3>0 DEF RetrieveLine
      <4>2. /\ e + 1 \in Nat /\ e + 2 = (e + 1) + 1 /\ HeaderAt(h) \in Nat
        BY <3>1 DEF HeaderAt
      <4>3. Until(script, n) + HeadEnd(r) = Until(script, n) + HeaderAt(h) + (e + 1)
        BY <3>1, <3>5, <4>2
      <4> QED
        BY <2>5, <3>1, <4>1, <4>2, <4>3, HoldsRetrieve
    <3>7. PICK v : v = request.headers["Content-Length"]
      OBVIOUS
    <3>8. r.line # Text /\ Said(r.headers, Len(r.headers), "Content-Length", v)
      BY <2>5, <2>8, <3>7 DEF Parsed, Fields
    <3>9. r.body = BodyLen(v) /\ (v = "" => r.body = 0)
      BY <2>3, <3>5, <3>8, BodyAnnounced
    <3>10. Parsed(r, Len(r.headers))'
      BY <2>5, <2>8, <3>4 DEF Parsed
    <3>11. Len(request'.body) = 0
      BY <2>5, <3>4
    <3>12. CASE v # ""
      <4>1. state' = "kExpectBody" /\ pc' = pc
        BY <3>3, <3>7, <3>12 DEF ExpectHeaders, get_header
      <4>2. AtBody(n, r)'
        <5>1. Len(request'.body) <= r.body
          BY <3>5, <3>11
        <5>2. Holds(script, Until(script, n) + HeadEnd(r) + Len(request'.body), buf', wire)
          <6>1. Until(script, n) + HeadEnd(r) + 0 = Until(script, n) + HeadEnd(r)
            BY <3>5
          <6> QED
            BY <3>6, <3>11, <6>1
        <5> QED
          BY <1>1, <3>10, <4>1, <5>1, <5>2 DEF AtBody
      <4>3. Place(n)'
        BY <1>1, <2>2, <2>3, <4>2 DEF Place
      <4>4. Waiting(n)'
        BY <1>1, <2>1, <4>1 DEF Waiting
      <4> QED
        BY <1>1, <1>2, <1>4, <2>0, <4>3, <4>4, SilentTalk
    <3>13. CASE v = ""
      <4>1. state' = "kGotAll" /\ pc' = "true"
        BY <3>3, <3>7, <3>13 DEF ExpectHeaders, get_header, Return
      <4>2. r.body = 0
        BY <3>9, <3>13
      <4>3. AllRead(n, r)'
        <5>1. Until(script, n + 1) = Until(script, n) + HeadEnd(r)
          BY <3>5, <4>2
        <5> QED
          BY <1>1, <3>6, <3>10, <3>11, <4>1, <4>2, <5>1 DEF AllRead
      <4>4. Place(n)'
        BY <1>1, <2>2, <2>3, <4>3 DEF Place
      <4>5. Waiting(n)'
        BY <1>1, <2>1, <4>1 DEF Waiting
      <4> QED
        BY <1>1, <1>2, <1>4, <2>0, <4>4, <4>5, SilentTalk
    <3> QED
      BY <3>12, <3>13
  <2> QED
    BY <2>5, <2>6, <2>7, <2>8
<1> QED
  BY <1>3, <1>4 DEF Talk

-----------------------------------------------------------------------------
(* The body.                                                               *)

Taken(q, q2, b) ==
    /\ q2 \in Parsing /\ q2.path = q.path /\ q2.version = q.version
    /\ q2.headers = q.headers /\ q2.body = b

LEMMA TakenBody ==
    ASSUME NEW q \in Parsing, NEW b \in Seq({Byte}), NEW q2, q2 = [q EXCEPT !.body = b]
    PROVE  Taken(q, q2, b)
<1>1. /\ q.headers \in [Fields -> Word] /\ q.path \in Word /\ q.version \in Word
  BY DEF Parsing
<1> QED
  BY <1>1 DEF Parsing, Taken

Bytes(c, m) == c \in Seq({Byte}) /\ Len(c) = m

LEMMA BytesOnly ==
    ASSUME NEW c \in Seq(Unit), NEW m \in Nat, Len(c) = m, \A x \in 1..m : c[x] = Byte
    PROVE  Bytes(c, m)
<1> DEFINE BB == {Byte}
<1>1. \A x \in 1..m : c[x] \in BB
  OBVIOUS
<1> HIDE DEF BB
<1>2. c \in Seq(BB)
  BY <1>1
<1> QED
  BY <1>2 DEF BB, Bytes

\* What is taken of the buffer belongs to the body.
LEMMA PartOfBody ==
    ASSUME NEW s \in Scripts, NEW n \in Nat, n + 1 <= Len(s), NEW r, r = s[n + 1],
           NEW a \in Nat, NEW b, NEW w,
           Holds(s, Until(s, n) + HeadEnd(r) + a, b, w),
           NEW m \in Nat, m <= Len(b), a + m <= r.body, NEW c, c = SubSeq(b, 1, m)
    PROVE  Bytes(c, m)
<1> DEFINE p == Until(s, n) + HeadEnd(r)
           k == p + a
<1>0. /\ Until(s, n) \in Nat /\ HeadEnd(s[n + 1]) \in Nat /\ s[n + 1].body \in Nat
      /\ \A x \in 1..s[n + 1].body : Str(s)[Until(s, n) + HeadEnd(s[n + 1]) + x] = Byte
  BY RequestAt
<1>1. /\ p \in Nat /\ r.body \in Nat /\ \A x \in 1..r.body : Str(s)[p + x] = Byte
  BY <1>0
<1> HIDE DEF p
<1>2. Holds(s, k, b, w)
  BY DEF p
<1> HIDE DEF k
<1>3. /\ b \in Seq(Unit) /\ Len(b) \in Nat
      /\ \A x \in Nat : 1 <= x /\ x <= Len(b) => b[x] = Str(s)[k + x]
  BY <1>2, HoldsFacts
<1>4. c \in Seq(Unit) /\ Len(c) = m /\ \A x \in 1..m : c[x] = b[x]
  BY <1>3
<1>5. ASSUME NEW x \in 1..m PROVE c[x] = Byte
  <2>1. /\ x \in Nat /\ 1 <= x /\ x <= Len(b) /\ k + x = p + (a + x)
        /\ a + x \in 1..r.body
    BY <1>1, <1>3 DEF k
  <2>2. c[x] = Str(s)[p + (a + x)]
    BY <1>3, <1>4, <2>1
  <2> QED
    BY <1>1, <2>1, <2>2
<1> QED
  BY <1>4, <1>5, BytesOnly

LEMMA SeqConcat ==
    ASSUME NEW S, NEW x \in Seq(S), NEW y \in Seq(S)
    PROVE  x \o y \in Seq(S) /\ Len(x \o y) = Len(x) + Len(y)
  OBVIOUS

LEMMA BodyTalk ==
    ASSUME Talk, ExpectBody, UNCHANGED <<connVars, clientVars>>
    PROVE  Talk'
<1>1. /\ pc = "parse" /\ state = "kExpectBody" /\ pc' = "true"
      /\ request' = [request EXCEPT !.body = request.body \o SubSeq(buf, 1, BodyPart)]
      /\ buf' = SubSeq(buf, BodyPart + 1, Len(buf))
      /\ state' = IF get_remain_body_len = BodyPart THEN "kGotAll" ELSE state
      /\ connected' = connected /\ replies' = replies
      /\ script' = script /\ wire' = wire /\ pipelining' = pipelining
  BY DEF ExpectBody, Return, connVars, clientVars
<1>3. CASE connected = FALSE
  BY <1>1, <1>3, ClosedTalk
<1>4. CASE connected
  <2>0. PICK n : n = Len(replies)
    OBVIOUS
  <2>1. /\ n \in Nat /\ Len(script) \in Nat /\ n <= Len(script) /\ script \in Scripts
        /\ Place(n) /\ Waiting(n)
        /\ n < Len(script) => n + 1 <= Len(script) /\ script[n + 1] \in Request
    BY <1>4, <2>0, OpenTalk
  <2>2. n < Len(script) /\ AtBody(n, script[n + 1])
    BY <1>1, <2>1 DEF Place, AtLine, AtHeader, AtBody, AllRead
  <2>3. PICK r : r = script[n + 1] /\ r \in Request
    BY <2>1, <2>2
  <2>4. PICK q, q2 : q = request /\ q2 = request'
    OBVIOUS
  <2>5. PICK a : a = Len(q.body)
    OBVIOUS
  <2>6. /\ Parsed(r, Len(r.headers)) /\ a <= r.body
        /\ Holds(script, Until(script, n) + HeadEnd(r) + a, buf, wire)
    BY <2>2, <2>3, <2>4, <2>5 DEF AtBody
  <2>7. q \in Parsing /\ q.body \in Seq({Byte}) /\ a \in Nat
    <3>1. q \in Parsing
      BY <2>4, <2>6 DEF Parsed
    <3>2. q.body \in Seq({Byte})
      BY <3>1 DEF Parsing
    <3> QED
      BY <2>5, <3>1, <3>2
  <2>8. /\ Until(script, n) \in Nat /\ HeadEnd(r) \in Nat /\ r.body \in Nat
        /\ Reasonable(r) /\ Until(script, n + 1) = Until(script, n) + HeadEnd(r) + r.body
    BY <2>1, <2>2, <2>3, RequestAt
  <2>9. get_remain_body_len = r.body - a
    <3>1. PICK v : v = request.headers["Content-Length"]
      OBVIOUS
    <3>2. r.line # Text /\ Said(r.headers, Len(r.headers), "Content-Length", v)
      BY <2>6, <3>1 DEF Parsed, Fields
    <3>3. r.body = BodyLen(v)
      BY <2>3, <2>8, <3>2, BodyAnnounced
    <3> QED
      BY <2>4, <2>5, <3>1, <3>3 DEF get_remain_body_len, get_expect_body_len, get_header
  <2>10. PICK l, m, w : l = Len(buf) /\ m = BodyPart /\ w = wire
    OBVIOUS
  <2>11. /\ l \in Nat /\ w \in Nat /\ Until(script, n) + HeadEnd(r) + a + l = w
    BY <2>6, <2>10, HoldsFacts
  <2>12. m = IF l > r.body - a THEN r.body - a ELSE l
    BY <2>9, <2>10 DEF BodyPart
  <2>13. m \in Nat /\ m <= l /\ a + m <= r.body /\ (m # r.body - a => m = l /\ l < r.body - a)
    <3>1. PICK y : y = r.body
      OBVIOUS
    <3>2. a \in Nat /\ y \in Nat /\ a <= y /\ l \in Nat /\ m = IF l > y - a THEN y - a ELSE l
      BY <2>6, <2>7, <2>8, <2>11, <2>12, <3>1
    <3>3. m \in Nat /\ m <= l /\ a + m <= y /\ (m # y - a => m = l /\ l < y - a)
      BY <3>2
    <3> QED
      BY <3>1, <3>3
  <2>14. PICK c : c = SubSeq(buf, 1, m)
    OBVIOUS
  <2>15. c \in Seq({Byte}) /\ Len(c) = m
    <3>1. n \in Nat /\ n + 1 <= Len(script) /\ script \in Scripts /\ m <= Len(buf)
      BY <2>1, <2>2, <2>10, <2>13
    <3>2. m \in Nat /\ a \in Nat /\ a + m <= r.body
      BY <2>7, <2>13
    <3>3. Bytes(c, m)
      BY <2>3, <2>6, <2>14, <3>1, <3>2, PartOfBody
    <3> QED
      BY <3>3 DEF Bytes
  <2>16. PICK d : d = q.body \o c
    OBVIOUS
  <2>17. d \in Seq({Byte}) /\ Len(d) = a + m
    <3> DEFINE BB == {Byte}
    <3>1. q.body \in Seq(BB) /\ c \in Seq(BB)
      BY <2>7, <2>15
    <3> HIDE DEF BB
    <3>2. q.body \o c \in Seq(BB) /\ Len(q.body \o c) = Len(q.body) + Len(c)
      BY <3>1, SeqConcat
    <3> QED
      BY <2>5, <2>15, <2>16, <3>2 DEF BB
  <2>18. Taken(q, q2, d)
    <3>1. q2 = [q EXCEPT !.body = d]
      BY <1>1, <2>4, <2>10, <2>14, <2>16
    <3> QED
      BY <2>7, <2>17, <3>1, TakenBody
  <2>19. Parsed(r, Len(r.headers))'
    BY <2>4, <2>6, <2>18 DEF Parsed, Taken
  <2>20. Len(request'.body) = a + m
    BY <2>4, <2>17, <2>18 DEF Taken
  <2>21. Holds(script, Until(script, n) + HeadEnd(r) + (a + m), buf', wire)
    <3>1. buf' = SubSeq(buf, m + 1, Len(buf))
      BY <1>1, <2>10
    <3>2. Until(script, n) + HeadEnd(r) + (a + m) = (Until(script, n) + HeadEnd(r) + a) + m
      BY <2>7, <2>8, <2>13
    <3> QED
      BY <2>6, <2>10, <2>13, <3>1, <3>2, HoldsRetrieve
  <2>22. CASE m = r.body - a
    <3>1. state' = "kGotAll"
      BY <1>1, <2>9, <2>10, <2>22
    <3>2. a + m = r.body
      BY <2>7, <2>8, <2>22
    <3>3. AllRead(n, r)'
      BY <1>1, <2>8, <2>19, <2>20, <2>21, <3>1, <3>2 DEF AllRead
    <3>4. Place(n)'
      BY <1>1, <2>2, <2>3, <3>3 DEF Place
    <3>5. Waiting(n)'
      BY <1>1, <2>1, <3>1 DEF Waiting
    <3> QED
      BY <1>1, <1>4, <2>0, <3>4, <3>5, SilentTalk
  <2>23. CASE m # r.body - a
    <3>1. state' = state
      BY <1>1, <2>9, <2>10, <2>23
    <3>2. AtBody(n, r)'
      BY <1>1, <2>13, <2>19, <2>20, <2>21, <3>1 DEF AtBody
    <3>3. Place(n)'
      BY <1>1, <2>2, <2>3, <3>2 DEF Place
    <3>4. wire < Until(script, n + 1)
      <4>1. w < Until(script, n) + HeadEnd(r) + r.body
        BY <2>7, <2>8, <2>11, <2>13, <2>23
      <4> QED
        BY <2>8, <2>10, <4>1
    <3>5. Waiting(n)'
      BY <1>1, <2>1, <3>4 DEF Waiting
    <3> QED
      BY <1>1, <1>4, <2>0, <3>3, <3>5, SilentTalk
  <2> QED
    BY <2>22, <2>23
<1> QED
  BY <1>3, <1>4 DEF Talk

-----------------------------------------------------------------------------
(* The replies.                                                            *)

\* A reply is added.
LEMMA Answer ==
    ASSUME NEW s, NEW ss \in Seq(Reply), NEW x \in Reply, NEW n, n = Len(ss), NEW m, m = n + 1,
           NEW us, us = Append(ss, x),
           \A k \in 1..n : ss[k] = Deserved(s[k]) /\ ~ss[k].close, x = Deserved(s[m])
    PROVE  /\ us \in Seq(Reply) /\ Len(us) = m /\ us[m] = x
           /\ \A k \in 1..m : us[k] = Deserved(s[k]) /\ (us[k].close => k = m /\ x.close)
<1>1. n \in Nat /\ m \in Nat /\ us \in Seq(Reply) /\ Len(us) = m
  OBVIOUS
<1>2. us[m] = x /\ \A k \in 1..n : us[k] = ss[k]
  OBVIOUS
<1>3. \A k \in 1..m : k \in 1..n \/ k = m
  BY <1>1
<1> HIDE DEF Deserved
<1>4. ASSUME NEW k \in 1..m
      PROVE  us[k] = Deserved(s[k]) /\ (us[k].close => k = m /\ x.close)
  BY <1>2, <1>3
<1> QED
  BY <1>1, <1>2, <1>4

LEMMA AnswerTalk ==
    ASSUME Talk, connected, NEW n, n = Len(replies), n < Len(script), NEW m, m = n + 1,
           NEW x \in Reply, x = Deserved(script[m]),
           replies' = Append(replies, x), connected' = (connected /\ ~x.close),
           script' = script, pc' = "idle",
           connected' => Place(m)' /\ Waiting(m)'
    PROVE  Talk'
<1>1. /\ n \in Nat /\ Len(script) \in Nat /\ m <= Len(script) /\ script \in Scripts
      /\ replies \in Seq(Reply)
  BY OpenTalk DEF Talk
<1>2. \A k \in 1..n : replies[k] = Deserved(script[k]) /\ ~replies[k].close
  BY DEF Talk, RepliesInOrder
<1>3. PICK us, c : us = replies' /\ c = connected'
  OBVIOUS
<1>4. /\ us \in Seq(Reply) /\ Len(us) = m /\ us[m] = x
      /\ \A k \in 1..m : us[k] = Deserved(script[k]) /\ (us[k].close => k = m /\ x.close)
  BY <1>1, <1>2, <1>3, Answer
<1>5. c \in BOOLEAN /\ (c => ~x.close) /\ (x.close => ~c)
  BY <1>3
<1>6. RepliesInOrder'
  <2>1. Len(us) <= Len(script)
    BY <1>1, <1>4
  <2>2. \A k \in 1..Len(us) : us[k] = Deserved(script[k]) /\ (us[k].close => k = Len(us) /\ ~c)
    BY <1>4, <1>5
  <2> QED
    BY <1>3, <2>1, <2>2 DEF RepliesInOrder
<1>7. c => \A k \in 1..m : ~us[k].close
  BY <1>4, <1>5
<1>8. Len(replies') = m
  BY <1>3, <1>4
<1>9. c => Place(Len(replies))' /\ Waiting(Len(replies))'
  BY <1>3, <1>8 DEF Place, Waiting, AtLine, AtHeader, AtBody, AllRead, Parsed
<1> QED
  BY <1>1, <1>3, <1>4, <1>5, <1>6, <1>7, <1>8, <1>9 DEF Talk

\* The answer to what is no request.
LEMMA BadDeserved ==
    ASSUME NEW r, Reasonable(r), r.line = Text
    PROVE  /\ Response(400, TRUE, "", <<>>) = Deserved(r)
           /\ Response(400, TRUE, "", <<>>) \in Reply
           /\ Response(400, TRUE, "", <<>>).close = TRUE
<1>1. r.code = 400
  BY DEF Reasonable
<1>2. Response(400, TRUE, "", <<>>) = Deserved(r)
  BY <1>1 DEF Deserved
<1> DEFINE e == ""
           b == <<>>
           y == TRUE
<1>3. e \in Word /\ b \in Seq({Byte}) /\ y \in BOOLEAN
  BY DEF Word
<1> HIDE DEF e, b, y
<1>4. Response(400, y, e, b) \in Reply /\ Response(400, y, e, b).close = y
  BY <1>3 DEF Response, Reply
<1> QED
  BY <1>2, <1>4 DEF e, b, y

\* The answer to a request that was read.
Replied(q, c, x) ==
    x = Response(IF q.path \in Pages THEN 200 ELSE 404,
                 q.path \notin Pages \/ WantsClose(q.version, c), q.path, q.body)

Right(x, r) == x = Deserved(r) /\ x \in Reply

LEMMA GoodDeserved ==
    ASSUME NEW r \in Request, Reasonable(r), r.line # Text, NEW q \in Parsing,
           q.path = r.line.path, q.version = r.line.version, Len(q.body) = r.body,
           NEW c, c = LastHeader(r, "Connection"), NEW x, Replied(q, c, x)
    PROVE  Right(x, r)
<1> DEFINE code == IF q.path \in Pages THEN 200 ELSE 404
           y == q.path \notin Pages \/ WantsClose(q.version, c)
<1>1. q.path \in Word /\ q.body \in Seq({Byte})
  BY DEF Parsing
<1>2. code = r.code /\ code # 400 /\ code \in Nat
  BY DEF Reasonable
<1>3. /\ r.keep \in BOOLEAN
      /\ r.keep <=> /\ r.line.path \in Pages /\ c # "close"
                    /\ r.line.version = "kHttp10" => c = "Keep-Alive"
  BY DEF Reasonable, Request
<1>4. y \in BOOLEAN
  OBVIOUS
<1>5. y <=> ~r.keep
  BY <1>3 DEF WantsClose
<1>6. y = ~r.keep
  BY <1>3, <1>4, <1>5
<1>7. q.body = [k \in 1..r.body |-> Byte]
  <2>1. \A k \in 1..Len(q.body) : q.body[k] = Byte
    BY <1>1
  <2> QED
    BY <1>1, <2>1
<1>a. x = Response(code, y, q.path, q.body)
  BY DEF Replied
<1> DEFINE p == q.path
           b == q.body
<1> HIDE DEF code, y
<1>8. Deserved(r) = Response(code, y, p, b)
  BY <1>2, <1>6, <1>7 DEF Deserved
<1>9. x = Response(code, y, p, b) /\ p \in Word /\ b \in Seq({Byte})
  BY <1>1, <1>a
<1> HIDE DEF p, b
<1>10. x \in Reply
  BY <1>2, <1>4, <1>9 DEF Response, Reply
<1> QED
  BY <1>8, <1>9, <1>10 DEF Right

\* Every request has a length.
LEMMA UntilGrows ==
    ASSUME NEW s \in Scripts, NEW n \in Nat, n + 1 <= Len(s)
    PROVE  /\ Until(s, n) \in Nat /\ Until(s, n + 1) \in Nat
           /\ Until(s, n) < Until(s, n + 1)
<1> DEFINE r == s[n + 1]
           z == Len(r.headers)
           l == Len(r.end)
           y == HeadEnd(r)
           b == r.body
           p == Until(s, n)
           p2 == Until(s, n + 1)
<1>1. /\ p \in Nat /\ z \in Nat /\ b \in Nat /\ y \in Nat /\ l \in {0, 1}
      /\ p2 = p + y + b
  BY RequestAt
<1>2. y = 3 + 3 * z + l + 2
  BY DEF HeadEnd
<1> HIDE DEF z, l, y, b, p, p2
<1>3. p \in Nat /\ p2 \in Nat /\ p < p2
  BY <1>1, <1>2
<1> QED
  BY <1>3 DEF p, p2

LEMMA BadRequestTalk ==
    ASSUME Talk, BadRequest
    PROVE  Talk'
<1>1. /\ pc = "false" /\ pc' = "idle" /\ script' = script
      /\ Send(Response(400, TRUE, "", <<>>))
  BY DEF BadRequest, clientVars
<1>2. CASE connected = FALSE
  <2>1. replies' = replies /\ connected' = FALSE
    BY <1>1, <1>2 DEF Send
  <2> QED
    BY <1>1, <1>2, <2>1, ClosedTalk
<1>3. CASE connected
  <2>0. PICK n : n = Len(replies)
    OBVIOUS
  <2>1. /\ n \in Nat /\ script \in Scripts /\ n < Len(script)
        /\ script[n + 1].line = Text /\ n + 1 <= Len(script)
    BY <1>1, <1>3, <2>0, OpenTalk
  <2>2. PICK x : x = Response(400, TRUE, "", <<>>)
    OBVIOUS
  <2>3. x = Deserved(script[n + 1]) /\ x \in Reply /\ x.close = TRUE
    <3>1. Reasonable(script[n + 1])
      BY <2>1, StreamFacts
    <3> QED
      BY <2>1, <2>2, <3>1, BadDeserved, ZenonT(40)
  <2>4. replies' = Append(replies, x) /\ connected' = (connected /\ ~x.close)
    BY <1>1, <1>3, <2>2 DEF Send
  <2>5. connected' = FALSE
    BY <2>3, <2>4
  <2> QED
    BY <1>1, <1>3, <2>0, <2>1, <2>3, <2>4, <2>5, AnswerTalk
<1> QED
  BY <1>2, <1>3 DEF Talk

LEMMA GotAllTalk ==
    ASSUME Talk, GotAll
    PROVE  Talk'
<1>1. /\ pc = "true" /\ state = "kGotAll" /\ pc' = "idle" /\ buf' = buf
      /\ script' = script /\ wire' = wire /\ pipelining' = pipelining
      /\ Send(on_request) /\ state' = "kExpectRequestLine" /\ request' = EmptyRequest
  BY DEF GotAll, clientVars, reset
<1>2. CASE connected = FALSE
  <2>1. replies' = replies /\ connected' = FALSE
    BY <1>1, <1>2 DEF Send
  <2> QED
    BY <1>1, <1>2, <2>1, ClosedTalk
<1>3. CASE connected
  <2>0. PICK n : n = Len(replies)
    OBVIOUS
  <2>1. /\ n \in Nat /\ Len(script) \in Nat /\ script \in Scripts /\ Place(n) /\ Waiting(n)
        /\ n < Len(script) => n + 1 <= Len(script) /\ script[n + 1] \in Request
    BY <1>3, <2>0, OpenTalk
  <2>2. n < Len(script) /\ AllRead(n, script[n + 1])
    BY <1>1, <2>1 DEF Place, AtLine, AtHeader, AtBody, AllRead
  <2>3. PICK r, m : r = script[n + 1] /\ m = n + 1
    OBVIOUS
  <2>4. /\ r \in Request /\ Reasonable(r) /\ m \in Nat /\ m <= Len(script)
        /\ r = script[m]
    BY <2>1, <2>2, <2>3, StreamFacts
  <2>5. /\ Parsed(r, Len(r.headers)) /\ Len(request.body) = r.body
        /\ Holds(script, Until(script, m), buf, wire)
    BY <2>2, <2>3 DEF AllRead
  <2>6. PICK x : x = on_request
    OBVIOUS
  <2>7. x = Deserved(script[m]) /\ x \in Reply
    <3>1. PICK q, c : q = request /\ c = request.headers["Connection"]
      OBVIOUS
    <3>2. /\ r.line # Text /\ q \in Parsing
          /\ q.path = r.line.path /\ q.version = r.line.version /\ Len(q.body) = r.body
      BY <2>5, <3>1 DEF Parsed
    <3>3. Said(r.headers, Len(r.headers), "Connection", c)
      BY <2>5, <3>1 DEF Parsed, Fields
    <3>4. c = LastHeader(r, "Connection")
      BY <2>4, <3>3, SaidLast
    <3>5. Replied(q, c, x)
      BY <2>6, <3>1 DEF on_request, get_header, Replied
    <3>6. Right(x, r)
      BY <2>4, <3>2, <3>4, <3>5, GoodDeserved
    <3> QED
      BY <2>4, <3>6 DEF Right
  <2>8. replies' = Append(replies, x) /\ connected' = (connected /\ ~x.close)
    BY <1>1, <1>3, <2>6 DEF Send
  <2>9. Place(m)'
    BY <1>1, <2>5 DEF Place, AtLine
  <2>10. Waiting(m)'
    <3> SUFFICES ASSUME ~pipelining, m < Len(script)
                 PROVE  wire <= Until(script, m + 1) /\ wire < Until(script, m + 1)
      BY <1>1 DEF Waiting
    <3>1. wire <= Until(script, m)
      BY <2>1, <2>2, <2>3 DEF Waiting
    <3>2. m + 1 <= Len(script)
      BY <2>1, <2>4
    <3>3. Until(script, m) \in Nat /\ Until(script, m) < Until(script, m + 1)
          /\ Until(script, m + 1) \in Nat
      BY <2>1, <2>4, <3>2, UntilGrows
    <3>4. wire \in Nat
      BY <2>5, HoldsFacts
    <3> QED
      BY <3>1, <3>3, <3>4
  <2> QED
    BY <1>1, <1>3, <2>0, <2>2, <2>3, <2>7, <2>8, <2>9, <2>10, AnswerTalk
<1> QED
  BY <1>2, <1>3 DEF Talk

\* Steps that leave the connection alone, or only go back to the event loop.
LEMMA OtherTalk ==
    ASSUME Talk, UNCHANGED <<buf, state, request, connVars, clientVars>>,
           pc' = pc \/ (pc' = "idle" /\ pc = "true" /\ state # "kGotAll")
    PROVE  Talk'
<1>1. /\ buf' = buf /\ state' = state /\ request' = request
      /\ connected' = connected /\ replies' = replies
      /\ script' = script /\ wire' = wire /\ pipelining' = pipelining
  BY DEF connVars, clientVars
<1>2. pc' \in {"idle", "parse", "true", "false"}
  BY DEF Talk
<1>3. CASE connected = FALSE
  BY <1>1, <1>2, <1>3, ClosedTalk
<1>4. CASE connected
  <2>0. PICK n : n = Len(replies)
    OBVIOUS
  <2>1. /\ Place(n) /\ Waiting(n)
        /\ pc = "false" => /\ state = "kExpectRequestLine" /\ n < Len(script)
                           /\ script[n + 1].line = Text
    BY <1>4, <2>0, OpenTalk
  <2>2. Place(n)'
    BY <1>1, <2>1 DEF Place, AtLine, AtHeader, AtBody, AllRead, Parsed
  <2>3. Waiting(n)'
    BY <1>1, <2>1 DEF Waiting
  <2> QED
    BY <1>1, <1>2, <1>4, <2>0, <2>1, <2>2, <2>3, SilentTalk
<1> QED
  BY <1>3, <1>4 DEF Talk

LEMMA InitTalk == ProcmonInit => Talk
<1> SUFFICES ASSUME ProcmonInit PROVE Talk
  OBVIOUS
<1>1. /\ script \in Scripts /\ wire = 0 /\ connected = TRUE /\ replies = <<>>
      /\ buf = <<>> /\ state = "kExpectRequestLine" /\ request = EmptyRequest
      /\ pc = "idle"
  BY DEF ProcmonInit, Init
<1>2. /\ Len(script) \in Nat /\ Until(script, 0) = 0 /\ Len(Str(script)) \in Nat
  BY <1>1, StreamFacts
<1>3. replies \in Seq(Reply) /\ Len(replies) = 0 /\ buf \in Seq(Unit) /\ Len(buf) = 0
  BY <1>1
<1>4. RepliesInOrder
  BY <1>2, <1>3 DEF RepliesInOrder
<1>5. AtLine(0)
  <2>1. Holds(script, 0, buf, 0)
    BY <1>2, <1>3 DEF Holds
  <2> QED
    BY <1>1, <1>2, <2>1 DEF AtLine
<1>6. Waiting(0)
  <2> SUFFICES ASSUME 0 < Len(script)
               PROVE  0 <= Until(script, 0 + 1) /\ 0 < Until(script, 0 + 1)
    BY <1>1 DEF Waiting
  <2>1. 0 + 1 <= Len(script) /\ 0 \in Nat
    BY <1>2
  <2>2. Until(script, 0) < Until(script, 0 + 1) /\ Until(script, 0 + 1) \in Nat
    BY <1>1, <2>1, UntilGrows
  <2> QED
    BY <1>2, <2>2
<1>7. Place(0) /\ \A k \in 1..0 : ~replies[k].close
  BY <1>5 DEF Place
<1> QED
  BY <1>1, <1>3, <1>4, <1>6, <1>7 DEF Talk

LEMMA NextTalk ==
    ASSUME Talk, [Next]_vars
    PROVE  Talk'
<1>1. CASE \E n \in 1..Len(Stream) : Segment(n)
  BY <1>1, SegmentTalk
<1>2. CASE ParseStep
  <2>1. UNCHANGED <<connVars, clientVars>>
    BY <1>2 DEF ParseStep
  <2> QED
    BY <1>2, <2>1, NeedMoreTalk, RequestLineTalk, HeadersTalk, BodyTalk
       DEF ParseStep, ParseRequest
<1>3. CASE BadRequest
  BY <1>3, BadRequestTalk
<1>4. CASE GotAll
  BY <1>4, GotAllTalk
<1>5. CASE Incomplete
  <2>1. /\ UNCHANGED <<buf, state, request, connVars, clientVars>>
        /\ pc' = "idle" /\ pc = "true" /\ state # "kGotAll"
    BY <1>5 DEF Incomplete
  <2> QED
    BY <2>1, OtherTalk
<1>6. CASE tick \/ Burn \/ Die \/ ReusePid \/ UNCHANGED vars
  <2>1. UNCHANGED <<buf, state, request, connVars, clientVars>> /\ pc' = pc
    BY <1>6 DEF tick, Burn, Die, ReusePid, vars, contextVars
  <2> QED
    BY <2>1, OtherTalk
<1> QED
  BY <1>1, <1>2, <1>3, <1>4, <1>5, <1>6 DEF Next, OnMessage

LEMMA UntilGrowsOn ==
    ASSUME NEW s \in Scripts, NEW m \in Nat, NEW n \in Nat, m <= n, n <= Len(s)
    PROVE  Until(s, m) <= Until(s, n)
<1> DEFINE d == n - m
           B == {k \in 0..d : ~(Until(s, m) <= Until(s, m + k))}
<1>0. d \in Nat /\ Len(s) \in Nat /\ m + d = n
  BY StreamFacts
<1>1. ASSUME NEW k \in B PROVE k # 0 /\ k - 1 \in B
  <2>1. k \in Nat /\ k <= d /\ ~(Until(s, m) <= Until(s, m + k)) /\ m + k <= Len(s)
    BY <1>0
  <2>2. Until(s, m) \in Nat
    BY <1>0, StreamFacts
  <2>3. k # 0
    <3> SUFFICES ASSUME k = 0 PROVE FALSE
      OBVIOUS
    <3>1. m + k = m
      OBVIOUS
    <3> QED
      BY <2>1, <2>2, <3>1
  <2>4. PICK j \in Nat : j = m + k - 1
    BY <2>1, <2>3
  <2>5. j + 1 = m + k /\ m + (k - 1) = j /\ k - 1 \in 0..d
    BY <1>0, <2>1, <2>3, <2>4
  <2>6. Until(s, j) \in Nat /\ Until(s, j + 1) \in Nat /\ Until(s, j) < Until(s, j + 1)
    BY <2>1, <2>5, UntilGrows
  <2>7. ~(Until(s, m) <= Until(s, j))
    BY <2>1, <2>2, <2>5, <2>6
  <2> QED
    BY <2>3, <2>5, <2>7
<1>2. B \subseteq 0..d
  OBVIOUS
<1>3. d \in 0..d
  BY <1>0
<1> HIDE DEF d
<1>4. B = {}
  <2> HIDE DEF B
  <2> QED
    BY <1>0, <1>1, <1>2, NoLeast
<1>5. Until(s, m) <= Until(s, m + d)
  BY <1>3, <1>4
<1> QED
  BY <1>0, <1>5

LEMMA TalkAlways == Spec => []Talk
<1>1. Talk /\ [Next]_vars => Talk'
  BY NextTalk
<1> QED
  BY <1>1, InitTalk, PTL DEF Spec

\* procmon.cpp:107 and http_context.cpp:68: for any requests, cut into segments
\* anywhere and piled up behind each other, the replies are the ones that the
\* requests deserve, one each, in order, and none follows one that closes.
THEOREM RepliesDeserved == Spec => []RepliesInOrder
<1>1. Talk => RepliesInOrder
  BY DEF Talk
<1> QED
  BY <1>1, TalkAlways, PTL

\* procmon.cpp:107: whenever the server has gone back to its event loop, a
\* client that waits for each reply has one to every request that has arrived
\* completely, unless a reply closed the connection.
THEOREM WaitingAnswered == Spec => []Answered
<1>1. Talk => Answered
  <2> SUFFICES ASSUME Talk, pc = "idle", ~pipelining, NEW n \in 1..Len(script),
                      wire >= EndOf(n), ~(Len(replies) >= n), connected
               PROVE  FALSE
    BY DEF Answered, Talk
  <2>0. PICK k : k = Len(replies)
    OBVIOUS
  <2>1. /\ k \in Nat /\ Len(script) \in Nat /\ script \in Scripts /\ Place(k) /\ Waiting(k)
    BY <2>0, OpenTalk
  <2>2. n \in Nat /\ n <= Len(script) /\ k + 1 <= n /\ k < Len(script) /\ k + 1 \in Nat
    BY <2>0, <2>1
  <2>3. state # "kGotAll"
    BY <2>1 DEF Place, AtLine, AtHeader, AtBody, AllRead
  <2>4. wire < Until(script, k + 1)
    BY <2>1, <2>2, <2>3 DEF Waiting
  <2>5. EndOf(n) = Until(script, n)
    BY TalkFacts
  <2>6. Until(script, k + 1) <= Until(script, n)
    BY <2>1, <2>2, UntilGrowsOn
  <2>7. Until(script, k + 1) \in Nat /\ Until(script, n) \in Nat
    <3>1. k + 1 <= Len(script)
      BY <2>1, <2>2
    <3> QED
      BY <2>1, <2>2, <3>1, StreamFacts
  <2>8. wire \in Nat
    <3>1. \E q : Holds(script, q, buf, wire)
      BY <2>1 DEF Place, AtLine, AtHeader, AtBody, AllRead
    <3> QED
      BY <3>1, HoldsFacts
  <2> QED
    BY <2>4, <2>5, <2>6, <2>7, <2>8
<1> QED
  BY <1>1, TalkAlways, PTL
=============================================================================
