----------------------- MODULE TimerContainersProofs -----------------------
(***************************************************************************)
(* Proofs about TimerContainers, for any timers, delays, capacity, number  *)
(* of slots and interval: the list stays well linked and the heap in       *)
(* order, whatever the program calls, and either does what TimerQueue      *)
(* says; the wheel's lists stay well linked and it is punctual.            *)
(***************************************************************************)
EXTENDS TimerContainers, WellFoundedInduction, TLAPS

-----------------------------------------------------------------------------
(* Chains.  That prev undoes next and that expire does not descend from    *)
(* one timer to the next does not say that the list holds every timer: a   *)
(* ring of timers beside it would pass too.  The invariant therefore ranks *)
(* the timers: next is the timer with the next higher rank.                *)

\* The timers S have the ranks r, the head h the first and the tail tl the
\* last, and their expire x does not descend.
Ranked(S, h, tl, x, r) ==
    /\ h = NULL <=> S = {}
    /\ S # {} => h \in S /\ tl \in S
    /\ \A t, u \in S : r[t] = r[u] => t = u
    /\ \A t \in S : r[h] <= r[t] /\ r[t] <= r[tl]
    /\ \A t, u \in S : r[t] < r[u] => x[t] <= x[u]

\* Every timer but the tail is followed by the one with the next rank.
Forth(S, tl, nx, r) ==
    \A t \in S :
        /\ t = tl => nx[t] = NULL
        /\ t # tl => /\ nx[t] \in S /\ r[t] < r[nx[t]]
                     /\ \A u \in S : r[u] <= r[t] \/ r[nx[t]] <= r[u]

\* pv leads back to where nx came from.
Back(S, h, tl, nx, pv) ==
    \A t \in S :
        /\ t = h => pv[t] = NULL
        /\ t # h => pv[t] \in S /\ pv[t] # tl /\ nx[pv[t]] = t
        /\ t # tl => pv[nx[t]] = t

Chain(S, h, tl, nx, pv, x, r) ==
    Ranked(S, h, tl, x, r) /\ Forth(S, tl, nx, r) /\ Back(S, h, tl, nx, pv)

Links == [ListTimers -> ListTimers \cup {NULL}]
Ranks == [ListTimers -> Int]
Expires == [ListTimers -> Nat]

LEMMA ChainEmpty ==
    ASSUME NEW tl, NEW nx, NEW pv, NEW x, NEW r
    PROVE  Chain({}, NULL, tl, nx, pv, x, r)
BY DEF Chain, Ranked, Forth, Back

\* The first timer of an empty list.
LEMMA ChainOne ==
    ASSUME NEW t \in ListTimers, NEW nx \in Links, NEW pv \in Links,
           NEW x \in Expires, NEW r \in Ranks, nx[t] = NULL, pv[t] = NULL
    PROVE  Chain({t}, t, t, nx, pv, x, r)
<1>1. r[t] \in Int /\ t # NULL
  BY TimerContainersAssumption DEF Ranks
<1> QED
  BY <1>1 DEF Chain, Ranked, Forth, Back

\* Only what belongs to the linked timers matters.
LEMMA ChainSame ==
    ASSUME NEW S \in SUBSET ListTimers, NEW h, NEW tl, NEW nx, NEW pv, NEW x,
           NEW my, NEW qv, NEW y, NEW r,
           Chain(S, h, tl, nx, pv, x, r),
           \A t \in S : my[t] = nx[t] /\ qv[t] = pv[t] /\ y[t] = x[t]
    PROVE  Chain(S, h, tl, my, qv, y, r)
BY DEF Chain, Ranked, Forth, Back

\* A timer that expires before all others becomes the head.
Topped(S, t, h, nx, pv, my, qv) ==
    /\ my[t] = h /\ \A u \in S : my[u] = nx[u]
    /\ qv[t] = NULL /\ \A u \in S : qv[u] = IF u = h THEN t ELSE pv[u]

LEMMA ChainHead ==
    ASSUME NEW S \in SUBSET ListTimers, S # {}, NEW h, NEW tl,
           NEW nx \in Links, NEW pv \in Links, NEW x \in Expires, NEW r \in Ranks,
           Chain(S, h, tl, nx, pv, x, r),
           NEW t \in ListTimers \ S, \A u \in S : x[t] <= x[u],
           NEW my, NEW qv, Topped(S, t, h, nx, pv, my, qv)
    PROVE  \E q \in Ranks : Chain(S \cup {t}, t, tl, my, qv, x, q)
<1> DEFINE q == [r EXCEPT ![t] = r[h] - 1]
<1>1. h \in S /\ tl \in S /\ t # NULL /\ h # t
  BY TimerContainersAssumption DEF Chain, Ranked
<1>2. q \in Ranks /\ q[t] = r[h] - 1 /\ \A u \in S : q[u] = r[u] /\ r[u] \in Int
  BY <1>1 DEF Ranks
<1>3. /\ my[t] = h /\ \A u \in S : my[u] = nx[u]
      /\ qv[t] = NULL /\ qv[h] = t /\ \A u \in S : u # h => qv[u] = pv[u]
  BY <1>1 DEF Topped
<1>4. \A u \in S : q[t] < q[u]
  BY <1>1, <1>2 DEF Chain, Ranked
<1> HIDE DEF q
<1>5. Ranked(S \cup {t}, t, tl, x, q)
  BY <1>1, <1>2, <1>4 DEF Chain, Ranked, Expires
<1>6. Forth(S \cup {t}, tl, my, q)
  BY <1>1, <1>2, <1>3, <1>4 DEF Chain, Ranked, Forth
<1>7. \A u \in S : u # tl => nx[u] \in S /\ nx[u] # h
  BY <1>1, TimerContainersAssumption DEF Chain, Forth, Back
<1>8. Back(S \cup {t}, t, tl, my, qv)
  <2>1. ASSUME NEW u \in S
        PROVE  /\ u # t /\ qv[u] \in S \cup {t} /\ qv[u] # tl /\ my[qv[u]] = u
               /\ u # tl => qv[my[u]] = u
    <3>1. CASE u = h
      BY <1>1, <1>3, <1>7, <2>1, <3>1 DEF Chain, Back
    <3>2. CASE u # h
      BY <1>1, <1>3, <1>7, <2>1, <3>2 DEF Chain, Back
    <3> QED
      BY <3>1, <3>2
  <2>2. qv[t] = NULL /\ t # tl /\ qv[my[t]] = t
    BY <1>1, <1>3
  <2> QED
    BY <2>1, <2>2 DEF Back
<1> QED
  BY <1>2, <1>5, <1>6, <1>8 DEF Chain

\* The timer t expires no earlier than p and earlier than what follows p.
Fits(t, p, nx, x) == x[p] <= x[t] /\ (nx[p] # NULL => x[t] <= x[nx[p]])

\* The links my and qv are nx and pv with t put in behind p.
Spliced(S, t, p, nx, pv, my, qv) ==
    /\ my[t] = nx[p] /\ \A u \in S : my[u] = IF u = p THEN t ELSE nx[u]
    /\ qv[t] = p /\ \A u \in S : qv[u] = IF u = nx[p] THEN t ELSE pv[u]

LEMMA ChainInsert ==
    ASSUME NEW S \in SUBSET ListTimers, NEW h, NEW tl,
           NEW nx \in Links, NEW pv \in Links, NEW x \in Expires, NEW r \in Ranks,
           Chain(S, h, tl, nx, pv, x, r),
           NEW t \in ListTimers \ S, NEW p \in S, Fits(t, p, nx, x),
           NEW my, NEW qv, Spliced(S, t, p, nx, pv, my, qv)
    PROVE  \E q \in Ranks :
              Chain(S \cup {t}, h, IF nx[p] = NULL THEN t ELSE tl, my, qv, x, q)
<1> DEFINE q == [u \in ListTimers |-> IF u = t THEN 2 * r[p] + 1 ELSE 2 * r[u]]
           n == nx[p]
<1>0. /\ x[p] <= x[t] /\ (nx[p] # NULL => x[t] <= x[nx[p]])
      /\ my[t] = nx[p] /\ \A u \in S : my[u] = IF u = p THEN t ELSE nx[u]
      /\ qv[t] = p /\ \A u \in S : qv[u] = IF u = nx[p] THEN t ELSE pv[u]
  BY DEF Fits, Spliced
<1>1. /\ h \in S /\ tl \in S /\ t # NULL /\ p # t /\ h # NULL /\ t \notin S
      /\ NULL \notin S
  BY TimerContainersAssumption DEF Chain, Ranked
<1>2. /\ q \in Ranks /\ q[t] = 2 * r[p] + 1
      /\ \A u \in S : q[u] = 2 * r[u] /\ r[u] \in Int
  <2>1. \A u \in ListTimers : r[u] \in Int
    BY DEF Ranks
  <2>2. q \in Ranks
    BY <2>1 DEF Ranks
  <2> QED
    BY <1>1, <2>1, <2>2
<1>3. /\ my[t] = n /\ my[p] = t /\ \A u \in S : u # p => my[u] = nx[u]
      /\ qv[t] = p /\ \A u \in S : u # n => qv[u] = pv[u]
      /\ n # NULL => qv[n] = t
  <2>1. n # NULL => n \in S
    BY DEF Chain, Forth
  <2> QED
    BY <1>0, <2>1
<1>4. n = NULL <=> p = tl
  BY <1>1 DEF Chain, Forth
<1>5. n # NULL => /\ n \in S /\ r[p] < r[n] /\ n # h /\ pv[n] = p
                  /\ \A u \in S : r[u] <= r[p] \/ r[n] <= r[u]
  <2>1. n # NULL => /\ n \in S /\ r[p] < r[n]
                    /\ \A u \in S : r[u] <= r[p] \/ r[n] <= r[u]
    BY <1>4 DEF Chain, Forth
  <2>2. n # NULL => pv[n] = p
    BY <1>4 DEF Chain, Back
  <2>3. n # NULL => n # h
    <3>1. r[h] <= r[p] /\ r[h] \in Int /\ r[p] \in Int
      BY <1>1, <1>2 DEF Chain, Ranked
    <3> QED
      BY <2>1, <3>1
  <2> QED
    BY <2>1, <2>2, <2>3
<1> HIDE DEF q
<1>6. \A u \in S : /\ r[u] <= r[p] => q[u] < q[t] /\ x[u] <= x[t]
                   /\ r[u] > r[p] => q[u] > q[t] /\ x[u] >= x[t] /\ n # NULL
  <2> SUFFICES ASSUME NEW u \in S
               PROVE  /\ r[u] <= r[p] => q[u] < q[t] /\ x[u] <= x[t]
                      /\ r[u] > r[p] => q[u] > q[t] /\ x[u] >= x[t] /\ n # NULL
    OBVIOUS
  <2>1. r[u] \in Int /\ r[p] \in Int /\ x[u] \in Nat /\ x[p] \in Nat /\ x[t] \in Nat
    BY DEF Ranks, Expires
  <2>2. CASE r[u] <= r[p]
    <3>1. u = p \/ r[u] < r[p]
      BY <2>1, <2>2 DEF Chain, Ranked
    <3>2. x[u] <= x[p]
      BY <2>1, <3>1 DEF Chain, Ranked
    <3> QED
      BY <1>0, <1>2, <2>1, <2>2, <3>2
  <2>3. CASE r[u] > r[p]
    <3>1. n # NULL
      BY <1>4, <2>1, <2>3 DEF Chain, Ranked
    <3>2. n \in S /\ r[n] <= r[u] /\ r[n] \in Int /\ x[n] \in Nat
      BY <1>2, <1>5, <2>1, <2>3, <3>1 DEF Expires
    <3>3. u = n \/ r[n] < r[u]
      BY <2>1, <3>2 DEF Chain, Ranked
    <3>4. x[n] <= x[u]
      BY <2>1, <3>2, <3>3 DEF Chain, Ranked
    <3> QED
      BY <1>0, <1>2, <2>1, <2>3, <3>1, <3>2, <3>4
  <2> QED
    BY <2>1, <2>2, <2>3
<1> DEFINE tm == IF n = NULL THEN t ELSE tl
<1>7. Ranked(S \cup {t}, h, tm, x, q)
  BY <1>1, <1>2, <1>4, <1>5, <1>6 DEF Chain, Ranked, Expires
<1>8. Forth(S \cup {t}, tm, my, q)
  <2>1. /\ t = tm => my[t] = NULL
        /\ t # tm => /\ my[t] \in S /\ q[t] < q[my[t]]
                     /\ \A u \in S : q[u] <= q[t] \/ q[my[t]] <= q[u]
    BY <1>1, <1>2, <1>3, <1>4, <1>5, <1>6
  <2>2. /\ p # tm /\ my[p] = t /\ q[p] < q[t]
        /\ \A u \in S : q[u] <= q[p] \/ q[t] <= q[u]
    BY <1>1, <1>2, <1>3, <1>4, <1>6
  <2>3. ASSUME NEW u \in S, u # p
        PROVE  /\ u = tm => my[u] = NULL
               /\ u # tm => /\ my[u] \in S /\ q[u] < q[my[u]]
                            /\ \A v \in S \cup {t} : q[v] <= q[u] \/ q[my[u]] <= q[v]
    <3>1. my[u] = nx[u] /\ (u = tm => u = tl)
      BY <1>1, <1>3, <2>3
    <3>2. CASE u = tl
      BY <1>1, <1>3, <1>4, <1>6, <2>3, <3>1, <3>2 DEF Chain, Ranked, Forth
    <3>3. CASE u # tl
      <4>1. /\ nx[u] \in S /\ r[u] < r[nx[u]]
            /\ \A v \in S : r[v] <= r[u] \/ r[nx[u]] <= r[v]
        BY <3>3 DEF Chain, Forth
      <4>2. q[nx[u]] = 2 * r[nx[u]] /\ q[u] = 2 * r[u]
        BY <1>2, <4>1
      <4>3. \A v \in S : q[v] <= q[u] \/ q[nx[u]] <= q[v]
        BY <1>2, <4>1, <4>2
      <4>4. q[t] <= q[u] \/ q[nx[u]] <= q[t]
        <5>1. r[u] > r[p] \/ r[nx[u]] <= r[p]
          BY <1>2, <2>3, <4>1 DEF Chain, Ranked
        <5> QED
          BY <1>2, <1>6, <4>1, <4>2, <5>1
      <4> QED
        BY <1>2, <3>1, <3>3, <4>1, <4>2, <4>3, <4>4
    <3> QED
      BY <3>2, <3>3
  <2>4. q[t] <= q[t] /\ q[p] <= q[t]
    BY <1>2
  <2>5. ASSUME NEW u \in S \cup {t}
        PROVE  /\ u = tm => my[u] = NULL
               /\ u # tm => /\ my[u] \in S \cup {t} /\ q[u] < q[my[u]]
                            /\ \A v \in S \cup {t} : q[v] <= q[u] \/ q[my[u]] <= q[v]
    <3>1. CASE u = t
      BY <2>1, <2>4, <3>1
    <3>2. CASE u = p
      BY <2>2, <2>4, <3>2
    <3>3. CASE u \in S /\ u # p
      BY <2>3, <3>3
    <3> QED
      BY <3>1, <3>2, <3>3
  <2> QED
    BY <2>5 DEF Forth
<1>9. \A u \in S : u # tl /\ u # p => nx[u] \in S /\ nx[u] # n
  BY <1>1, <1>5 DEF Chain, Forth, Back
<1>10. Back(S \cup {t}, h, tm, my, qv)
  <2>1. /\ t # h /\ qv[t] = p /\ p # tm /\ my[p] = t
        /\ t # tm => qv[my[t]] = t
    BY <1>1, <1>3, <1>4
  <2>2. ASSUME NEW u \in S
        PROVE  /\ u = h => qv[u] = NULL
               /\ u # h => /\ qv[u] \in S \cup {t} /\ qv[u] # tm
                           /\ my[qv[u]] = u
    <3>1. CASE u = n
      BY <1>1, <1>3, <1>4, <1>5, <2>2, <3>1
    <3>2. CASE u # n
      BY <1>1, <1>3, <1>5, <2>2, <3>2 DEF Chain, Back
    <3> QED
      BY <3>1, <3>2
  <2>3. ASSUME NEW u \in S, u # tm PROVE qv[my[u]] = u
    <3>1. CASE u = p
      BY <1>3, <3>1
    <3>2. CASE u # p /\ u # tl
      BY <1>3, <1>9, <2>3, <3>2 DEF Chain, Back
    <3>3. CASE u # p /\ u = tl
      BY <1>1, <1>4, <2>3, <3>3 DEF Chain, Ranked
    <3> QED
      BY <3>1, <3>2, <3>3
  <2> QED
    BY <2>1, <2>2, <2>3 DEF Back
<1> QED
  BY <1>2, <1>7, <1>8, <1>10 DEF Chain

\* With head g, tail sl and the links my and qv, what pointed to t points past
\* it.
Removed(S, t, h, tl, nx, pv, g, sl, my, qv) ==
    /\ g = IF t = h THEN nx[t] ELSE h
    /\ S # {t} => sl = IF t = tl THEN pv[t] ELSE tl
    /\ \A u \in S \ {t} : /\ my[u] = IF nx[u] = t THEN nx[t] ELSE nx[u]
                          /\ qv[u] = IF pv[u] = t THEN pv[t] ELSE pv[u]

LEMMA ChainRemove ==
    ASSUME NEW S \in SUBSET ListTimers, NEW h, NEW tl,
           NEW nx \in Links, NEW pv \in Links, NEW x \in Expires, NEW r \in Ranks,
           Chain(S, h, tl, nx, pv, x, r),
           NEW t \in S, NEW g, NEW sl, NEW my, NEW qv,
           Removed(S, t, h, tl, nx, pv, g, sl, my, qv)
    PROVE  Chain(S \ {t}, g, sl, my, qv, x, r)
<1> DEFINE R == S \ {t}
<1>0. /\ g = IF t = h THEN nx[t] ELSE h
      /\ S # {t} => sl = IF t = tl THEN pv[t] ELSE tl
      /\ \A u \in R : my[u] = IF nx[u] = t THEN nx[t] ELSE nx[u]
      /\ \A u \in R : qv[u] = IF pv[u] = t THEN pv[t] ELSE pv[u]
  BY DEF Removed
<1>1. /\ h \in S /\ tl \in S /\ NULL \notin S
      /\ \A u \in S : r[u] \in Int
  BY TimerContainersAssumption DEF Chain, Ranked, Ranks
<1>2. /\ t = h => pv[t] = NULL
      /\ t # h => pv[t] \in S /\ pv[t] # tl /\ nx[pv[t]] = t
      /\ t = tl => nx[t] = NULL
      /\ t # tl => /\ nx[t] \in S /\ pv[nx[t]] = t /\ r[t] < r[nx[t]]
                   /\ \A u \in S : r[u] <= r[t] \/ r[nx[t]] <= r[u]
  BY DEF Chain, Forth, Back
<1>3. \A u \in S : u # t => r[u] # r[t]
  BY DEF Chain, Ranked
<1>4. t # h => /\ r[pv[t]] < r[t]
               /\ \A u \in S : r[u] <= r[pv[t]] \/ r[t] <= r[u]
  BY <1>2 DEF Chain, Forth
<1>5. S = {t} <=> t = h /\ t = tl
  BY <1>1, <1>3 DEF Chain, Ranked
<1>6. Ranked(R, g, sl, x, r)
  <2>1. g = NULL <=> R = {}
    BY <1>0, <1>1, <1>2, <1>5
  <2>2. R # {} => g \in R /\ sl \in R
    BY <1>0, <1>1, <1>2, <1>4, <1>5
  <2>3. \A u \in R : r[g] <= r[u] /\ r[u] <= r[sl]
    BY <1>0, <1>1, <1>2, <1>3, <1>4, <1>5 DEF Chain, Ranked
  <2>4. /\ \A u, v \in R : r[u] = r[v] => u = v
        /\ \A u, v \in R : r[u] < r[v] => x[u] <= x[v]
    BY DEF Chain, Ranked
  <2> QED
    BY <2>1, <2>2, <2>3, <2>4 DEF Ranked
<1>7. Forth(R, sl, my, r)
  <2> SUFFICES ASSUME NEW u \in R
               PROVE  /\ u = sl => my[u] = NULL
                      /\ u # sl => /\ my[u] \in R /\ r[u] < r[my[u]]
                                   /\ \A v \in R : r[v] <= r[u] \/ r[my[u]] <= r[v]
    BY DEF Forth
  <2>1. CASE nx[u] = t
    BY <1>0, <1>1, <1>2, <1>3, <1>4, <1>5, <2>1 DEF Chain, Forth, Back
  <2>2. CASE nx[u] # t
    BY <1>0, <1>1, <1>2, <1>5, <2>2 DEF Chain, Forth
  <2> QED
    BY <2>1, <2>2
<1>8. Back(R, g, sl, my, qv)
  <2> SUFFICES ASSUME NEW u \in R
               PROVE  /\ u = g => qv[u] = NULL
                      /\ u # g => qv[u] \in R /\ qv[u] # sl /\ my[qv[u]] = u
                      /\ u # sl => qv[my[u]] = u
    BY DEF Back
  <2>1. /\ u = g => qv[u] = NULL
        /\ u # g => qv[u] \in R /\ qv[u] # sl /\ my[qv[u]] = u
    BY <1>0, <1>1, <1>2, <1>5 DEF Chain, Forth, Back
  <2>2. u # sl => qv[my[u]] = u
    BY <1>0, <1>1, <1>2, <1>5 DEF Chain, Forth, Back
  <2> QED
    BY <2>1, <2>2
<1> QED
  BY <1>6, <1>7, <1>8 DEF Chain

\* The neighbours of a timer.
LEMMA ChainNeighbours ==
    ASSUME NEW S \in SUBSET ListTimers, NEW h, NEW tl, NEW nx, NEW pv, NEW x,
           NEW r \in Ranks, Chain(S, h, tl, nx, pv, x, r), NEW t \in S
    PROVE  /\ h \in S /\ tl \in S /\ NULL \notin S
           /\ t = h <=> pv[t] = NULL
           /\ t = tl <=> nx[t] = NULL
           /\ t # h => pv[t] \in S \ {t}
           /\ t # tl => nx[t] \in S \ {t}
           /\ S = {t} <=> t = h /\ t = tl
           /\ \A u \in S : nx[u] = t <=> t # h /\ u = pv[t]
           /\ \A u \in S : pv[u] = t <=> t # tl /\ u = nx[t]
<1>1. /\ h \in S /\ tl \in S /\ NULL \notin S /\ \A u \in S : r[u] \in Int
  BY TimerContainersAssumption DEF Chain, Ranked, Ranks
<1>2. /\ t = h => pv[t] = NULL
      /\ t # h => pv[t] \in S /\ pv[t] # tl /\ nx[pv[t]] = t
      /\ t = tl => nx[t] = NULL
      /\ t # tl => nx[t] \in S /\ pv[nx[t]] = t /\ r[t] < r[nx[t]]
  BY DEF Chain, Forth, Back
<1>3. t # h => r[pv[t]] < r[t]
  BY <1>2 DEF Chain, Forth
<1>4. S = {t} <=> t = h /\ t = tl
  BY <1>1 DEF Chain, Ranked
<1>5. \A u \in S : nx[u] = t <=> t # h /\ u = pv[t]
  BY <1>1, <1>2 DEF Chain, Forth, Back
<1>6. \A u \in S : pv[u] = t <=> t # tl /\ u = nx[t]
  BY <1>1, <1>2 DEF Chain, Forth, Back
<1> QED
  BY <1>1, <1>2, <1>3, <1>4, <1>5, <1>6

\* A timer may expire later, as long as it is before what follows it.
LEMMA ChainPostpone ==
    ASSUME NEW S \in SUBSET ListTimers, NEW h, NEW tl, NEW nx, NEW pv,
           NEW x \in Expires, NEW y \in Expires, NEW r \in Ranks,
           Chain(S, h, tl, nx, pv, x, r), NEW t \in S, x[t] <= y[t],
           \A u \in S \ {t} : y[u] = x[u], nx[t] # NULL => y[t] <= x[nx[t]]
    PROVE  Chain(S, h, tl, nx, pv, y, r)
<1>1. \A u \in S : r[u] \in Int /\ x[u] \in Nat /\ y[u] \in Nat
  BY DEF Ranks, Expires
<1>2. ASSUME NEW u \in S, r[u] < r[t] PROVE y[u] <= y[t]
  <2>1. x[u] <= x[t] /\ u # t
    BY <1>1, <1>2 DEF Chain, Ranked
  <2> QED
    BY <1>1, <2>1
<1>3. ASSUME NEW u \in S, r[t] < r[u] PROVE y[t] <= y[u]
  <2>1. t # tl /\ tl \in S
    BY <1>1, <1>3 DEF Chain, Ranked
  <2>2. nx[t] \in S /\ r[nx[t]] <= r[u] /\ nx[t] # NULL
    BY <1>1, <1>3, <2>1, TimerContainersAssumption DEF Chain, Forth
  <2>3. nx[t] = u \/ r[nx[t]] < r[u]
    BY <1>1, <2>2 DEF Chain, Ranked
  <2>4. x[nx[t]] <= x[u]
    BY <1>1, <2>2, <2>3 DEF Chain, Ranked
  <2>5. y[u] = x[u]
    BY <1>1, <1>3
  <2> QED
    BY <1>1, <2>2, <2>4, <2>5
<1>4. ASSUME NEW u \in S, NEW v \in S, u # t, v # t, r[u] < r[v] PROVE y[u] <= y[v]
  BY <1>4 DEF Chain, Ranked
<1>5. ASSUME NEW u \in S, NEW v \in S, r[u] < r[v] PROVE y[u] <= y[v]
  BY <1>1, <1>2, <1>3, <1>4, <1>5
<1> QED
  BY <1>5 DEF Chain, Ranked

-----------------------------------------------------------------------------
(* The list *)

\* The timer that an add_timer under way is still to link in.
Unlinked == IF adding = NULL THEN {} ELSE {adding.timer}

ListTypes ==
    /\ now \in Nat /\ cur \in Nat \cup {NULL}
    /\ live \in SUBSET ListTimers
    /\ expire \in Expires
    /\ lst \in [head : ListTimers \cup {NULL}, tail : ListTimers \cup {NULL},
                prev : Links, next : Links]

\* The walk of the private add_timer is in the list, and not behind the place
\* where its timer belongs.
Walk ==
    adding # NULL =>
        /\ adding \in [timer : live, prev : live]
        /\ adding.prev # adding.timer
        /\ expire[adding.prev] <= expire[adding.timer]
        /\ cur = NULL

Ordered(r) ==
    Chain(live \ Unlinked, lst.head, lst.tail, lst.next, lst.prev, expire, r)

ListInv == ListTypes /\ Walk /\ \E r \in Ranks : Ordered(r)

LEMMA InitList == L!Init => ListInv
<1> SUFFICES ASSUME L!Init PROVE ListInv
  OBVIOUS
<1>1. ListTypes /\ Walk
  BY DEF L!Init, ListTypes, Walk, Links, Expires
<1>2. [t \in ListTimers |-> 0] \in Ranks
  BY DEF Ranks
<1>3. live \ Unlinked = {} /\ lst.head = NULL
  BY DEF L!Init, Unlinked
<1>4. Ordered([t \in ListTimers |-> 0])
  BY <1>3, ChainEmpty DEF Ordered
<1> QED
  BY <1>1, <1>2, <1>4 DEF ListInv

\* What an ordered list is good for: WellLinked, and a head that expires first.
LEMMA OrderedList ==
    ASSUME ListInv
    PROVE  /\ L!WellLinked
           /\ \A t \in live \ Unlinked : /\ lst.head \in live \ Unlinked
                                         /\ expire[lst.head] <= expire[t]
<1>1. PICK r \in Ranks : Ordered(r)
  BY DEF ListInv
<1> DEFINE S == live \ Unlinked
<1>2. S \subseteq ListTimers /\ NULL \notin S /\ \A t \in S : r[t] \in Int
  BY TimerContainersAssumption DEF ListInv, ListTypes, Ranks
<1>3. /\ Ranked(S, lst.head, lst.tail, expire, r)
      /\ Forth(S, lst.tail, lst.next, r)
      /\ Back(S, lst.head, lst.tail, lst.next, lst.prev)
  BY <1>1 DEF Ordered, Chain
<1>4. \A t \in S : expire[t] \in Nat
  BY <1>2 DEF ListInv, ListTypes, Expires
<1>5. S = live \ (IF adding = NULL THEN {} ELSE {adding.timer})
  BY DEF Unlinked
<1> HIDE DEF S
<1>6. \A t \in S : lst.head \in S /\ expire[lst.head] <= expire[t]
  <2> SUFFICES ASSUME NEW t \in S
               PROVE  lst.head \in S /\ expire[lst.head] <= expire[t]
    OBVIOUS
  <2>1. lst.head \in S /\ r[lst.head] <= r[t]
    BY <1>3 DEF Ranked
  <2>2. lst.head = t \/ r[lst.head] < r[t]
    BY <1>2, <1>3, <2>1 DEF Ranked
  <2> QED
    BY <1>3, <1>4, <2>1, <2>2 DEF Ranked
<1>7. /\ lst.head = NULL <=> S = {}
      /\ S # {} => lst.head \in S /\ lst.tail \in S
  BY <1>3 DEF Ranked
<1>8. ASSUME NEW t \in S
      PROVE  /\ lst.prev[t] = NULL <=> t = lst.head
             /\ lst.next[t] = NULL <=> t = lst.tail
             /\ lst.next[t] # NULL => /\ lst.next[t] \in S
                                      /\ lst.prev[lst.next[t]] = t
                                      /\ expire[t] <= expire[lst.next[t]]
  BY <1>2, <1>3 DEF Ranked, Forth, Back
<1> QED
  BY <1>5, <1>6, <1>7, <1>8 DEF L!WellLinked, S

LEMMA NextList == ListInv /\ L!Next => ListInv'
<1> SUFFICES ASSUME ListInv, L!Next PROVE ListInv'
  OBVIOUS
<1>0. PICK r \in Ranks : Ordered(r)
  BY DEF ListInv
<1>1. ListTypes /\ Walk /\ ListDelays \subseteq Nat /\ NULL \notin ListTimers
  BY TimerContainersAssumption DEF ListInv
\* A step that changes neither the list nor what it is ordered by.
<1>2. ASSUME UNCHANGED <<live, lst, expire>>, Unlinked' = Unlinked
      PROVE  \E q \in Ranks : Ordered(q)'
  BY <1>0, <1>2 DEF Ordered
<1>3. CASE L!Advance
  <2>1. ListTypes' /\ Walk'
    BY <1>1, <1>3 DEF L!Advance, ListTypes, Walk
  <2> QED
    BY <1>2, <1>3, <2>1 DEF L!Advance, ListInv, Unlinked
<1>4. CASE L!TickBegin \/ L!TickEnd
  <2>1. ListTypes' /\ Walk'
    BY <1>1, <1>4 DEF L!TickBegin, L!TickEnd, L!Ready, ListTypes, Walk
  <2> QED
    BY <1>2, <1>4, <2>1 DEF L!TickBegin, L!TickEnd, ListInv, Unlinked
<1>5. CASE L!AddWalk
  <2> DEFINE S == live \ Unlinked
             n == lst.next[adding.prev]
  <2>1. /\ n # NULL /\ expire[adding.timer] >= expire[n]
        /\ adding' = [adding EXCEPT !.prev = n]
        /\ UNCHANGED <<now, live, lst, expire, cur>> /\ adding # NULL
    BY <1>5 DEF L!AddWalk
  <2>2. /\ adding.prev \in S /\ adding.timer \in live
        /\ adding \in [timer : live, prev : live]
    BY <1>1, <2>1 DEF Walk, Unlinked
  <2>3. n \in S
    BY <1>0, <2>1, <2>2 DEF Ordered, Chain, Forth
  <2>4. /\ adding'.timer = adding.timer /\ adding'.prev = n
        /\ adding' \in [timer : live, prev : live] /\ adding' # NULL
    <3>1. adding' \in [timer : live, prev : live] /\ adding'.timer = adding.timer
          /\ adding'.prev = n
      BY <2>1, <2>2, <2>3
    <3>2. adding' \in [timer : ListTimers, prev : ListTimers]
      BY <1>1, <3>1 DEF ListTypes
    <3> QED
      BY <3>1, <3>2, TimerContainersAssumption
  <2>5. Unlinked' = Unlinked
    BY <2>1, <2>4 DEF Unlinked
  <2>6. ListTypes'
    BY <1>1, <2>1 DEF ListTypes
  <2>7. Walk'
    <3>1. n # adding.timer /\ n \in live
      BY <2>1, <2>3 DEF Unlinked
    <3>2. cur = NULL
      BY <1>1, <2>1 DEF Walk
    <3>3. expire[n] <= expire[adding.timer]
      BY <1>1, <2>1, <2>2, <3>1 DEF ListTypes, Expires
    <3> QED
      BY <2>1, <2>4, <3>1, <3>2, <3>3 DEF Walk
  <2> QED
    BY <1>2, <2>1, <2>5, <2>6, <2>7 DEF ListInv
<1>6. CASE L!AddLink
  <2> DEFINE S == live \ Unlinked
             t == adding.timer
             p == adding.prev
             n == lst.next[p]
  <2>1. /\ n # NULL => expire[t] < expire[n]
        /\ lst' = [lst EXCEPT
                      !.tail = IF n = NULL THEN t ELSE @,
                      !.next = [@ EXCEPT ![p] = t, ![t] = n],
                      !.prev = [u \in ListTimers |-> IF u = t THEN p
                                                 ELSE IF u = n THEN t ELSE @[u]]]
        /\ adding' = NULL /\ adding # NULL /\ UNCHANGED <<now, live, expire, cur>>
    BY <1>6 DEF L!AddLink
  <2>2. /\ p \in S /\ t \in live /\ t \in ListTimers \ S /\ p # t
        /\ S \in SUBSET ListTimers /\ expire[p] <= expire[t]
    BY <1>1, <2>1 DEF Walk, Unlinked, ListTypes
  <2>3. /\ lst'.head = lst.head
        /\ lst'.tail = IF n = NULL THEN t ELSE lst.tail
        /\ lst'.next = [lst.next EXCEPT ![p] = t, ![t] = n]
        /\ lst'.prev = [u \in ListTimers |-> IF u = t THEN p
                                         ELSE IF u = n THEN t ELSE lst.prev[u]]
        /\ lst.next \in Links /\ lst.prev \in Links /\ expire \in Expires
        /\ lst.tail \in ListTimers \cup {NULL} /\ lst.head \in ListTimers \cup {NULL}
    BY <1>1, <2>1 DEF ListTypes
  <2>4. n \in ListTimers \cup {NULL}
    BY <2>2, <2>3 DEF Links
  <2>5. lst' \in [head : ListTimers \cup {NULL}, tail : ListTimers \cup {NULL},
                  prev : Links, next : Links]
    <3>1. lst'.next \in Links
      BY <2>2, <2>3, <2>4 DEF Links
    <3>2. lst'.prev \in Links
      BY <2>2, <2>3, <2>4 DEF Links
    <3>3. lst' = [head |-> lst'.head, tail |-> lst'.tail, prev |-> lst'.prev,
                  next |-> lst'.next]
      BY <1>1, <2>1 DEF ListTypes
    <3> QED
      BY <2>2, <2>3, <3>1, <3>2, <3>3
  <2>6. ListTypes' /\ Walk'
    BY <1>1, <2>1, <2>5 DEF ListTypes, Walk
  <2>7. /\ lst'.next[t] = n
        /\ \A u \in S : lst'.next[u] = IF u = p THEN t ELSE lst.next[u]
        /\ lst'.prev[t] = p
        /\ \A u \in S : lst'.prev[u] = IF u = n THEN t ELSE lst.prev[u]
    BY <2>2, <2>3 DEF Links
  <2>8. n # NULL => expire[t] <= expire[n]
    BY <2>1, <2>2, <2>3, <2>4 DEF Expires
  <2>9. PICK q \in Ranks :
           Chain(S \cup {t}, lst.head, IF n = NULL THEN t ELSE lst.tail,
                 lst'.next, lst'.prev, expire, q)
    <3>1. Chain(S, lst.head, lst.tail, lst.next, lst.prev, expire, r)
      BY <1>0 DEF Ordered
    <3>2. PICK my, qv : my = lst'.next /\ qv = lst'.prev
      OBVIOUS
    <3>3. PICK nx \in Links, pv \in Links, x \in Expires :
             nx = lst.next /\ pv = lst.prev /\ x = expire
      BY <2>3
    <3>4. /\ Fits(t, p, nx, x) /\ Spliced(S, t, p, nx, pv, my, qv)
          /\ Chain(S, lst.head, lst.tail, nx, pv, x, r)
      BY <2>2, <2>7, <2>8, <3>1, <3>2, <3>3 DEF Fits, Spliced
    <3> HIDE DEF S, t, p
    <3>5. \E q \in Ranks :
             Chain(S \cup {t}, lst.head, IF nx[p] = NULL THEN t ELSE lst.tail,
                   my, qv, x, q)
      BY <2>2, <3>4, ChainInsert
    <3> QED
      BY <3>2, <3>3, <3>5
  <2>10. live' \ Unlinked' = S \cup {t}
    BY <2>1, <2>2 DEF Unlinked
  <2>11. Ordered(q)'
    BY <2>1, <2>3, <2>9, <2>10 DEF Ordered
  <2> QED
    BY <2>6, <2>11 DEF ListInv
\* A timer leaves the list, and what it is ordered by stays for the others.
<1>7. ASSUME NEW t \in live \ Unlinked, NEW U \in SUBSET ListTimers,
             U = (live \ Unlinked) \ {t},
             Removed(live \ Unlinked, t, lst.head, lst.tail, lst.next, lst.prev,
                     lst'.head, lst'.tail, lst'.next, lst'.prev),
             \A u \in U : expire'[u] = expire[u]
      PROVE  Chain(U, lst'.head, lst'.tail, lst'.next, lst'.prev, expire', r)
  <2> DEFINE S == live \ Unlinked
  <2>1. PICK h, tl, g, sl, my, qv :
           /\ h = lst.head /\ tl = lst.tail /\ g = lst'.head /\ sl = lst'.tail
           /\ my = lst'.next /\ qv = lst'.prev
    OBVIOUS
  <2>2. PICK nx \in Links, pv \in Links, x \in Expires :
           nx = lst.next /\ pv = lst.prev /\ x = expire
    BY <1>1 DEF ListTypes
  <2>3. /\ Chain(S, h, tl, nx, pv, x, r)
        /\ Removed(S, t, h, tl, nx, pv, g, sl, my, qv)
        /\ S \in SUBSET ListTimers
    BY <1>0, <1>1, <1>7, <2>1, <2>2 DEF Ordered, ListTypes
  <2> HIDE DEF S
  <2>4. t \in S
    BY <1>7 DEF S
  <2>5. Chain(S \ {t}, g, sl, my, qv, x, r)
    BY <2>3, <2>4, ChainRemove
  <2>6. Chain(U, g, sl, my, qv, x, r)
    BY <1>7, <2>5 DEF S
  <2>7. Chain(U, g, sl, my, qv, expire', r)
    BY <1>7, <2>2, <2>6, ChainSame
  <2> QED
    BY <2>1, <2>7
<1>8. ASSUME NEW t \in ListTimers, L!DelTimer(t) PROVE ListInv'
  <2> DEFINE S == live \ Unlinked
             n == lst.next[t]
             p == lst.prev[t]
  <2>1. /\ L!Ready /\ t \in live /\ live' = live \ {t}
        /\ UNCHANGED <<now, expire, adding, cur>>
        /\ lst' = IF t = lst.head /\ t = lst.tail
                  THEN [lst EXCEPT !.head = NULL, !.tail = NULL]
                  ELSE IF t = lst.head
                       THEN [lst EXCEPT !.head = n, !.prev[n] = NULL]
                  ELSE IF t = lst.tail
                       THEN [lst EXCEPT !.tail = p, !.next[p] = NULL]
                  ELSE [lst EXCEPT !.next[p] = n, !.prev[n] = p]
    BY <1>8 DEF L!DelTimer
  <2>2. /\ adding = NULL /\ Unlinked = {} /\ Unlinked' = {} /\ t \in S
        /\ live' \ Unlinked' = S \ {t}
    BY <2>1 DEF L!Ready, Unlinked
  <2>3. /\ lst.next \in Links /\ lst.prev \in Links
        /\ lst.tail \in ListTimers \cup {NULL} /\ lst.head \in ListTimers \cup {NULL}
        /\ S \in SUBSET ListTimers
    BY <1>1 DEF ListTypes
  <2>4. /\ lst.head \in S /\ lst.tail \in S /\ NULL \notin S
        /\ t = lst.head <=> p = NULL
        /\ t = lst.tail <=> n = NULL
        /\ t # lst.head => p \in S \ {t}
        /\ t # lst.tail => n \in S \ {t}
        /\ S = {t} <=> t = lst.head /\ t = lst.tail
        /\ \A u \in S : lst.next[u] = t <=> t # lst.head /\ u = p
        /\ \A u \in S : lst.prev[u] = t <=> t # lst.tail /\ u = n
    BY <1>0, <2>2, <2>3, ChainNeighbours DEF Ordered
  <2>5. /\ lst'.head = IF t = lst.head THEN n ELSE lst.head
        /\ S # {t} => lst'.tail = IF t = lst.tail THEN p ELSE lst.tail
        /\ lst'.tail \in ListTimers \cup {NULL}
        /\ lst'.next = IF t = lst.head THEN lst.next
                       ELSE [lst.next EXCEPT ![p] = n]
        /\ lst'.prev = IF t = lst.tail THEN lst.prev
                       ELSE [lst.prev EXCEPT ![n] = p]
        /\ lst' = [head |-> lst'.head, tail |-> lst'.tail, prev |-> lst'.prev,
                   next |-> lst'.next]
    <3>1. CASE t = lst.head /\ t = lst.tail
      BY <1>1, <2>1, <2>4, <3>1 DEF ListTypes
    <3>2. CASE t = lst.head /\ t # lst.tail
      BY <1>1, <2>1, <2>4, <3>2 DEF ListTypes
    <3>3. CASE t # lst.head /\ t = lst.tail
      BY <1>1, <2>1, <2>3, <2>4, <3>3 DEF ListTypes
    <3>4. CASE t # lst.head /\ t # lst.tail
      BY <1>1, <2>1, <2>4, <3>4 DEF ListTypes
    <3> QED
      BY <3>1, <3>2, <3>3, <3>4
  <2>6. lst'.next \in Links /\ lst'.prev \in Links
    <3>1. n \in ListTimers \cup {NULL} /\ p \in ListTimers \cup {NULL}
      BY <2>3 DEF Links
    <3>2. lst'.next \in Links
      BY <2>3, <2>5, <3>1 DEF Links
    <3>3. lst'.prev \in Links
      BY <2>3, <2>5, <3>1, ZenonT(60) DEF Links
    <3> QED
      BY <3>2, <3>3
  <2>7. ListTypes' /\ Walk'
    <3>1. lst'.head \in ListTimers \cup {NULL}
      BY <2>3, <2>4, <2>5
    <3> QED
      BY <1>1, <2>1, <2>2, <2>5, <2>6, <3>1 DEF ListTypes, Walk
  <2>8. Removed(S, t, lst.head, lst.tail, lst.next, lst.prev,
                lst'.head, lst'.tail, lst'.next, lst'.prev)
    <3>1. ASSUME NEW u \in S \ {t}
          PROVE  /\ lst'.next[u] = IF lst.next[u] = t THEN n ELSE lst.next[u]
                 /\ lst'.prev[u] = IF lst.prev[u] = t THEN p ELSE lst.prev[u]
      BY <2>3, <2>4, <2>5 DEF Links
    <3> QED
      BY <2>5, <3>1 DEF Removed
  <2>9. Chain(S \ {t}, lst'.head, lst'.tail, lst'.next, lst'.prev, expire', r)
    BY <1>7, <2>1, <2>2, <2>3, <2>8
  <2>10. Ordered(r)'
    BY <2>2, <2>9 DEF Ordered
  <2> QED
    BY <2>7, <2>10 DEF ListInv
<1>9. CASE L!TickFire
  <2> DEFINE S == live \ Unlinked
             t == lst.head
             n == lst.next[t]
  <2>1. /\ cur # NULL /\ t # NULL /\ live' = live \ {t}
        /\ UNCHANGED <<now, expire, adding, cur>>
        /\ lst' = [lst EXCEPT !.head = n,
                              !.prev = [u \in ListTimers |-> IF u = n THEN NULL
                                                             ELSE @[u]]]
    BY <1>9 DEF L!TickFire
  <2>2. adding = NULL /\ Unlinked = {} /\ Unlinked' = {} /\ live' \ Unlinked' = S \ {t}
    BY <1>1, <2>1 DEF Walk, Unlinked
  <2>3. /\ lst.next \in Links /\ lst.prev \in Links
        /\ lst.tail \in ListTimers \cup {NULL} /\ S \in SUBSET ListTimers
    BY <1>1 DEF ListTypes
  <2>4. t \in S
    BY <1>0, <2>1 DEF Ordered, Chain, Ranked
  <2>5. /\ lst.prev[t] = NULL
        /\ t = lst.tail <=> n = NULL
        /\ S = {t} <=> t = lst.tail
        /\ \A u \in S : lst.next[u] # t
        /\ \A u \in S : lst.prev[u] = t <=> t # lst.tail /\ u = n
    BY <1>0, <2>3, <2>4, ChainNeighbours DEF Ordered
  <2>6. /\ lst'.head = n /\ lst'.tail = lst.tail /\ lst'.next = lst.next
        /\ lst'.prev = [u \in ListTimers |-> IF u = n THEN NULL ELSE lst.prev[u]]
        /\ lst' = [head |-> lst'.head, tail |-> lst'.tail, prev |-> lst'.prev,
                   next |-> lst'.next]
    BY <1>1, <2>1 DEF ListTypes
  <2>7. lst'.prev \in Links /\ n \in ListTimers \cup {NULL}
    BY <2>3, <2>4, <2>6 DEF Links
  <2>8. ListTypes' /\ Walk'
    BY <1>1, <2>1, <2>2, <2>3, <2>6, <2>7 DEF ListTypes, Walk
  <2>9. Removed(S, t, lst.head, lst.tail, lst.next, lst.prev,
                lst'.head, lst'.tail, lst'.next, lst'.prev)
    <3>1. ASSUME NEW u \in S \ {t}
          PROVE  /\ lst'.next[u] = IF lst.next[u] = t THEN n ELSE lst.next[u]
                 /\ lst'.prev[u] = IF lst.prev[u] = t THEN lst.prev[t]
                                   ELSE lst.prev[u]
      <4>1. lst'.prev[u] = IF u = n THEN NULL ELSE lst.prev[u]
        BY <2>3, <2>6
      <4>2. u # NULL
        BY <1>1, <2>3
      <4> QED
        BY <2>5, <2>6, <4>1, <4>2
    <3> QED
      BY <2>5, <2>6, <3>1 DEF Removed
  <2>10. Chain(S \ {t}, lst'.head, lst'.tail, lst'.next, lst'.prev, expire', r)
    BY <1>7, <2>1, <2>3, <2>4, <2>9
  <2>11. Ordered(r)'
    BY <2>2, <2>10 DEF Ordered
  <2> QED
    BY <2>8, <2>11 DEF ListInv
<1>10. ASSUME NEW t \in ListTimers, NEW d \in ListDelays, L!AddTimer(t, d)
       PROVE  ListInv'
  <2> DEFINE h == lst.head
             l == [lst EXCEPT !.prev[t] = NULL, !.next[t] = NULL]
  <2>1. /\ L!Ready /\ t \notin live /\ live' = live \cup {t}
        /\ expire' = [expire EXCEPT ![t] = now + d] /\ UNCHANGED <<now, cur>>
        /\ \/ l.head = NULL /\ lst' = [l EXCEPT !.head = t, !.tail = t]
              /\ adding' = adding
           \/ /\ l.head # NULL /\ expire'[t] < expire'[l.head]
              /\ lst' = [l EXCEPT !.next[t] = l.head, !.prev[l.head] = t,
                                  !.head = t]
              /\ adding' = adding
           \/ /\ l.head # NULL /\ expire'[t] >= expire'[l.head] /\ lst' = l
              /\ adding' = [timer |-> t, prev |-> l.head]
    <3>1. expire' = [expire EXCEPT ![t] = now + d]
      BY <1>10 DEF L!AddTimer
    <3> QED
      BY <1>10, <3>1, Zenon DEF L!AddTimer
  <2>2. /\ adding = NULL /\ cur = NULL /\ Unlinked = {} /\ t # NULL
        /\ live \in SUBSET ListTimers /\ t \in ListTimers \ live
    BY <1>1, <2>1 DEF L!Ready, Unlinked, ListTypes
  <2>3. /\ lst.next \in Links /\ lst.prev \in Links
        /\ h \in ListTimers \cup {NULL} /\ lst.tail \in ListTimers \cup {NULL}
    BY <1>1 DEF ListTypes
  <2>4. /\ l.head = h /\ l.tail = lst.tail
        /\ l.next = [lst.next EXCEPT ![t] = NULL]
        /\ l.prev = [lst.prev EXCEPT ![t] = NULL]
        /\ l = [head |-> h, tail |-> lst.tail, prev |-> l.prev, next |-> l.next]
    <3>1. lst = [head |-> lst.head, tail |-> lst.tail, prev |-> lst.prev,
                 next |-> lst.next]
      BY <1>1 DEF ListTypes
    <3>2. l.head = h /\ l.tail = lst.tail
      BY <3>1
    <3>3. l.next = [lst.next EXCEPT ![t] = NULL]
      BY <3>1
    <3>4. l.prev = [lst.prev EXCEPT ![t] = NULL]
      BY <3>1
    <3>5. l = [head |-> l.head, tail |-> l.tail, prev |-> l.prev, next |-> l.next]
      <4>1. PICK f : f = [[lst EXCEPT !.prev = [lst.prev EXCEPT ![t] = NULL]]
                                EXCEPT !.next = [lst.next EXCEPT ![t] = NULL]]
        OBVIOUS
      <4>2. l = f
        BY <3>1, <4>1
      <4>3. f = [head |-> f.head, tail |-> f.tail, prev |-> f.prev,
                 next |-> f.next]
        BY <3>1, <4>1
      <4> QED
        BY <4>2, <4>3
    <3> QED
      BY <3>2, <3>3, <3>4, <3>5
  <2>5. /\ l.next \in Links /\ l.prev \in Links
        /\ l.next[t] = NULL /\ l.prev[t] = NULL
    BY <2>3, <2>4 DEF Links
  <2>6. expire' \in Expires /\ \A u \in live : expire'[u] = expire[u]
    BY <1>1, <2>1, <2>2 DEF ListTypes, Expires
  <2>7. Chain(live, h, lst.tail, l.next, l.prev, expire', r)
    <3>1. Chain(live, h, lst.tail, lst.next, lst.prev, expire, r)
      BY <1>0, <2>2 DEF Ordered
    <3>2. \A u \in live : l.next[u] = lst.next[u] /\ l.prev[u] = lst.prev[u]
      BY <2>2, <2>3, <2>4 DEF Links
    <3>3. PICK my, qv, nx, pv, x, y :
             /\ my = l.next /\ qv = l.prev /\ nx = lst.next /\ pv = lst.prev
             /\ x = expire /\ y = expire'
      OBVIOUS
    <3>4. /\ Chain(live, h, lst.tail, nx, pv, x, r)
          /\ \A u \in live : my[u] = nx[u] /\ qv[u] = pv[u] /\ y[u] = x[u]
      BY <2>6, <3>1, <3>2, <3>3
    <3>5. Chain(live, h, lst.tail, my, qv, y, r)
      BY <2>2, <3>4, ChainSame
    <3> QED
      BY <3>3, <3>5
  <2>8. \A lp : /\ lp \in [head : ListTimers \cup {NULL}, tail : ListTimers \cup {NULL},
                           prev : Links, next : Links]
                /\ lst' = lp
                => ListTypes'
    BY <1>1, <2>1, <2>2, <2>6 DEF ListTypes
  <2> HIDE DEF l
  <2>12. h # NULL => expire'[t] \in Nat /\ expire'[h] \in Nat
    BY <2>3, <2>6 DEF Expires
  <2>9. CASE h = NULL
    <3>1. lst' = [l EXCEPT !.head = t, !.tail = t] /\ adding' = NULL
      BY <2>1, <2>2, <2>4, <2>9
    <3>2. /\ lst' = [head |-> t, tail |-> t, prev |-> l.prev, next |-> l.next]
          /\ live = {}
      BY <2>4, <2>7, <2>9, <3>1 DEF Chain, Ranked
    <3>3. Chain({t}, t, t, l.next, l.prev, expire', r)
      BY <2>5, <2>6, ChainOne
    <3>4. live' \ Unlinked' = {t}
      BY <2>1, <3>1, <3>2 DEF Unlinked
    <3>5. Ordered(r)'
      BY <3>2, <3>3, <3>4 DEF Ordered
    <3>6. ListTypes'
      BY <2>5, <2>8, <3>2
    <3> QED
      BY <3>1, <3>5, <3>6 DEF ListInv, Walk
  <2>10. CASE h # NULL /\ expire'[t] < expire'[h]
    <3>1. /\ lst' = [l EXCEPT !.next[t] = h, !.prev[h] = t, !.head = t]
          /\ adding' = NULL
      BY <2>1, <2>2, <2>4, <2>10, <2>12
    <3>2. /\ lst'.head = t /\ lst'.tail = lst.tail
          /\ lst'.next = [l.next EXCEPT ![t] = h]
          /\ lst'.prev = [l.prev EXCEPT ![h] = t]
          /\ lst' = [head |-> t, tail |-> lst.tail, prev |-> lst'.prev,
                     next |-> lst'.next]
      BY <2>4, <3>1
    <3>3. lst'.next \in Links /\ lst'.prev \in Links
      BY <2>3, <2>5, <3>2, ZenonT(60) DEF Links
    <3>4. h \in live /\ live # {}
      BY <2>7, <2>10 DEF Chain, Ranked
    <3>5. Topped(live, t, h, l.next, l.prev, lst'.next, lst'.prev)
      BY <2>2, <2>5, <3>2, <3>4 DEF Topped, Links
    <3>6. \A u \in live : expire'[t] <= expire'[u]
      <4> SUFFICES ASSUME NEW u \in live PROVE expire'[t] <= expire'[u]
        OBVIOUS
      <4>1. r[h] <= r[u] /\ r[h] \in Int /\ r[u] \in Int
        BY <2>2, <2>7, <3>4 DEF Chain, Ranked, Ranks
      <4>2. h = u \/ r[h] < r[u]
        BY <2>7, <3>4, <4>1 DEF Chain, Ranked
      <4>3. expire'[h] \in Nat /\ expire'[u] \in Nat /\ expire'[t] \in Nat
        BY <2>2, <2>6, <3>4 DEF Expires
      <4>4. h = u \/ expire'[h] <= expire'[u]
        BY <2>7, <3>4, <4>2 DEF Chain, Ranked
      <4> QED
        BY <2>10, <4>3, <4>4
    <3>7. PICK nx \in Links, pv \in Links, x \in Expires, my \in Links, qv \in Links :
             /\ nx = l.next /\ pv = l.prev /\ x = expire'
             /\ my = lst'.next /\ qv = lst'.prev
      BY <2>5, <2>6, <3>3
    <3>8. PICK q \in Ranks : Chain(live \cup {t}, t, lst.tail, my, qv, x, q)
      <4>1. Chain(live, h, lst.tail, nx, pv, x, r)
        BY <2>7, <3>7
      <4>2. Topped(live, t, h, nx, pv, my, qv) /\ \A u \in live : x[t] <= x[u]
        BY <3>5, <3>6, <3>7
      <4> QED
        BY <2>2, <3>4, <4>1, <4>2, ChainHead
    <3>9. live' \ Unlinked' = live \cup {t}
      BY <2>1, <3>1 DEF Unlinked
    <3>10. Ordered(q)'
      BY <3>2, <3>7, <3>8, <3>9 DEF Ordered
    <3>11. ListTypes'
      BY <2>3, <2>8, <3>2, <3>3
    <3> QED
      BY <3>1, <3>10, <3>11 DEF ListInv, Walk
  <2>11. CASE h # NULL /\ expire'[t] >= expire'[h]
    <3>1. lst' = l /\ adding' = [timer |-> t, prev |-> h]
      BY <2>1, <2>2, <2>4, <2>11, <2>12
    <3>2. h \in live /\ h # t
      BY <2>2, <2>7, <2>11 DEF Chain, Ranked
    <3>3. /\ adding' # NULL /\ adding' \in [timer : live', prev : live']
          /\ adding'.timer = t /\ adding'.prev = h
      BY <2>1, <2>2, <3>1, <3>2, TimerContainersAssumption
    <3>4. live' \ Unlinked' = live
      BY <2>1, <3>3 DEF Unlinked
    <3>5. Ordered(r)'
      BY <2>4, <2>7, <3>1, <3>4 DEF Ordered
    <3>6. ListTypes'
      BY <2>3, <2>4, <2>5, <2>8, <3>1
    <3>7. expire'[h] <= expire'[t]
      BY <2>2, <2>6, <2>11, <3>2 DEF Expires
    <3> QED
      BY <2>1, <2>2, <3>2, <3>3, <3>5, <3>6, <3>7 DEF ListInv, Walk
  <2> QED
    BY <2>9, <2>10, <2>11, <2>12
<1>11. ASSUME NEW t \in ListTimers, NEW d \in ListDelays, L!AdjustTimer(t, d)
       PROVE  ListInv'
  <2> DEFINE n == lst.next[t]
             p == lst.prev[t]
  <2>1. /\ L!Ready /\ t \in live /\ now + d >= expire[t]
        /\ expire' = [expire EXCEPT ![t] = now + d]
        /\ UNCHANGED <<now, live, cur>>
        /\ IF n = NULL \/ expire'[t] < expire'[n] THEN UNCHANGED <<lst, adding>>
           ELSE /\ lst' = IF t = lst.head
                          THEN [lst EXCEPT !.head = n, !.prev[n] = NULL,
                                           !.next[t] = NULL]
                          ELSE [lst EXCEPT !.next[p] = n, !.prev[n] = p]
                /\ adding' = [timer |-> t, prev |-> n]
    <3>1. expire' = [expire EXCEPT ![t] = now + d]
      BY <1>11 DEF L!AdjustTimer
    <3> QED
      BY <1>11, <3>1, Zenon DEF L!AdjustTimer
  <2>2. adding = NULL /\ cur = NULL /\ Unlinked = {}
    BY <2>1 DEF L!Ready, Unlinked
  <2>3. /\ lst.next \in Links /\ lst.prev \in Links
        /\ lst.tail \in ListTimers \cup {NULL} /\ lst.head \in ListTimers \cup {NULL}
        /\ live \in SUBSET ListTimers
        /\ lst = [head |-> lst.head, tail |-> lst.tail, prev |-> lst.prev,
                  next |-> lst.next]
    BY <1>1 DEF ListTypes
  <2>4. /\ expire \in Expires /\ expire' \in Expires /\ expire[t] <= expire'[t]
        /\ \A u \in live \ {t} : expire'[u] = expire[u]
    BY <1>1, <2>1 DEF ListTypes, Expires
  <2>5. Chain(live, lst.head, lst.tail, lst.next, lst.prev, expire, r)
    BY <1>0, <2>2 DEF Ordered
  <2>6. /\ lst.head \in live /\ lst.tail \in live /\ NULL \notin live
        /\ t = lst.head <=> p = NULL
        /\ t = lst.tail <=> n = NULL
        /\ t # lst.head => p \in live \ {t}
        /\ t # lst.tail => n \in live \ {t}
        /\ \A u \in live : lst.next[u] = t <=> t # lst.head /\ u = p
        /\ \A u \in live : lst.prev[u] = t <=> t # lst.tail /\ u = n
    BY <2>1, <2>3, <2>5, ChainNeighbours
  <2>7. CASE n = NULL \/ expire'[t] < expire'[n]
    <3>1. UNCHANGED <<lst, adding>>
      BY <2>1, <2>7
    <3>2. n # NULL => expire'[t] <= expire[n]
      BY <2>1, <2>3, <2>4, <2>6, <2>7 DEF Expires
    <3>3. PICK nx \in Links, pv \in Links, x \in Expires, y \in Expires :
             nx = lst.next /\ pv = lst.prev /\ x = expire /\ y = expire'
      BY <2>3, <2>4
    <3>4. /\ Chain(live, lst.head, lst.tail, nx, pv, x, r) /\ x[t] <= y[t]
          /\ \A u \in live \ {t} : y[u] = x[u]
          /\ nx[t] # NULL => y[t] <= x[nx[t]]
      BY <2>4, <2>5, <3>2, <3>3
    <3>5. Chain(live, lst.head, lst.tail, nx, pv, y, r)
      BY <2>1, <2>3, <3>4, ChainPostpone
    <3>6. Ordered(r)'
      BY <2>1, <2>2, <3>1, <3>3, <3>5 DEF Ordered, Unlinked
    <3>7. ListTypes' /\ Walk'
      BY <1>1, <2>1, <2>2, <2>4, <3>1 DEF ListTypes, Walk
    <3> QED
      BY <3>6, <3>7 DEF ListInv
  <2>8. CASE n # NULL /\ ~(expire'[t] < expire'[n])
    <3>1. /\ lst' = IF t = lst.head
                    THEN [lst EXCEPT !.head = n, !.prev[n] = NULL, !.next[t] = NULL]
                    ELSE [lst EXCEPT !.next[p] = n, !.prev[n] = p]
          /\ adding' = [timer |-> t, prev |-> n]
          /\ t # lst.tail /\ n \in live \ {t} /\ n \in ListTimers
      BY <2>1, <2>3, <2>6, <2>8
    <3>2. /\ lst'.head = IF t = lst.head THEN n ELSE lst.head
          /\ lst'.tail = lst.tail
          /\ lst'.next = IF t = lst.head THEN [lst.next EXCEPT ![t] = NULL]
                         ELSE [lst.next EXCEPT ![p] = n]
          /\ lst'.prev = [lst.prev EXCEPT ![n] = p]
          /\ lst' = [head |-> lst'.head, tail |-> lst'.tail, prev |-> lst'.prev,
                     next |-> lst'.next]
      <4>1. CASE t = lst.head
        <5>1. lst' = [[[lst EXCEPT !.head = n]
                            EXCEPT !.prev = [lst.prev EXCEPT ![n] = NULL]]
                            EXCEPT !.next = [lst.next EXCEPT ![t] = NULL]]
          BY <2>3, <3>1, <4>1
        <5> QED
          BY <2>3, <2>6, <4>1, <5>1
      <4>2. CASE t # lst.head
        <5>1. lst' = [[lst EXCEPT !.next = [lst.next EXCEPT ![p] = n]]
                            EXCEPT !.prev = [lst.prev EXCEPT ![n] = p]]
          BY <2>3, <3>1, <4>2
        <5> QED
          BY <2>3, <4>2, <5>1
      <4> QED
        BY <4>1, <4>2
    <3>3. lst'.next \in Links /\ lst'.prev \in Links
      <4>1. p \in ListTimers \cup {NULL}
        BY <2>3 DEF Links
      <4>2. lst'.next \in Links
        BY <2>3, <3>1, <3>2, <4>1 DEF Links
      <4>3. lst'.prev \in Links
        BY <2>3, <3>1, <3>2, <4>1 DEF Links
      <4> QED
        BY <4>2, <4>3
    <3>4. Removed(live, t, lst.head, lst.tail, lst.next, lst.prev,
                  lst'.head, lst'.tail, lst'.next, lst'.prev)
      <4>1. ASSUME NEW u \in live \ {t}
            PROVE  /\ lst'.next[u] = IF lst.next[u] = t THEN n ELSE lst.next[u]
                   /\ lst'.prev[u] = IF lst.prev[u] = t THEN p ELSE lst.prev[u]
        BY <2>3, <2>6, <3>1, <3>2 DEF Links
      <4> QED
        BY <3>1, <3>2, <4>1 DEF Removed
    <3>5. live \ Unlinked = live /\ live \ {t} \in SUBSET ListTimers
      BY <2>2, <2>3
    <3>6. Chain(live \ {t}, lst'.head, lst'.tail, lst'.next, lst'.prev, expire', r)
      BY <1>7, <2>1, <2>4, <3>4, <3>5
    <3>7. /\ adding' # NULL /\ adding' \in [timer : live', prev : live']
          /\ adding'.timer = t /\ adding'.prev = n /\ n # t
      BY <2>1, <3>1, TimerContainersAssumption
    <3>8. live' \ Unlinked' = live \ {t}
      BY <2>1, <3>7 DEF Unlinked
    <3>9. Ordered(r)'
      BY <3>6, <3>8 DEF Ordered
    <3>10. ListTypes'
      <4>1. lst'.head \in ListTimers \cup {NULL}
        BY <2>3, <3>1, <3>2
      <4> QED
        BY <1>1, <2>1, <2>3, <2>4, <3>2, <3>3, <4>1 DEF ListTypes
    <3>11. expire'[n] <= expire'[t]
      BY <2>4, <2>8, <3>1 DEF Expires
    <3> QED
      BY <2>1, <2>2, <3>7, <3>9, <3>10, <3>11 DEF ListInv, Walk
  <2> QED
    BY <2>7, <2>8
<1> QED
  BY <1>3, <1>4, <1>5, <1>6, <1>8, <1>9, <1>10, <1>11 DEF L!Next

\* The invariant of a program that uses the list.
ListInvariant == container = "list" => ListInv

LEMMA InitListInvariant == Init => ListInvariant
BY InitList DEF Init, ListInvariant

LEMMA NextListInvariant == ListInvariant /\ [Next]_vars => ListInvariant'
<1> SUFFICES ASSUME ListInvariant, [Next]_vars PROVE ListInvariant'
  OBVIOUS
<1>1. CASE ListStep
  BY <1>1, NextList DEF ListStep, ListInvariant
<1>2. CASE HeapStep \/ WheelStep
  BY <1>2 DEF HeapStep, WheelStep, ListInvariant
<1>3. CASE UNCHANGED vars
  <2>1. /\ UNCHANGED <<container, now, live, expire, cur, lst, adding>>
    BY <1>3 DEF vars, listVars
  <2>2. ListInv => ListInv'
    BY <2>1 DEF ListInv, ListTypes, Walk, Ordered, Unlinked
  <2> QED
    BY <2>1, <2>2 DEF ListInvariant
<1> QED
  BY <1>1, <1>2, <1>3 DEF Next

\* Whatever is added, postponed, deleted and expired, and in whatever order,
\* the list that add_timer, adjust_timer, del_timer and tick() work on is an
\* ascending doubly linked list of exactly the allocated timers.
THEOREM ListIsWellLinked == Spec => []WellLinked
<1>1. ListInvariant => WellLinked
  BY OrderedList DEF ListInvariant, WellLinked
<1> QED
  BY <1>1, InitListInvariant, NextListInvariant, PTL DEF Spec

\* Every step of the list is a step of the queue, or none of its business.
LEMMA ListStepImplements ==
    ListInvariant /\ [Next]_vars
      => [container = "list" => L!Queue!QueueNext]_(L!Queue!queueVars)
<1> SUFFICES ASSUME ListInvariant, [Next]_vars, container = "list"
             PROVE  [L!Queue!QueueNext]_(L!Queue!queueVars)
  OBVIOUS
<1> DEFINE deadline == [t \in ListTimers |-> IF t \in live THEN expire[t] ELSE NULL]
           moment == [t \in ListTimers |-> IF t \in live' THEN expire'[t] ELSE NULL]
<1>1. ListInv /\ ListTypes /\ ListDelays \subseteq Nat /\ NULL \notin Nat
  BY TimerContainersAssumption DEF ListInvariant, ListInv
<1>2. ASSUME UNCHANGED <<now, live, expire, cur>>
      PROVE  UNCHANGED L!Queue!queueVars
  BY <1>2 DEF L!Queue!queueVars
<1>3. CASE UNCHANGED vars
  BY <1>2, <1>3 DEF vars
<1>4. CASE L!Advance
  BY <1>4 DEF L!Advance, L!Queue!QueueNext, L!Queue!Time
<1>5. ASSUME NEW t \in ListTimers, NEW d \in ListDelays,
             L!AddTimer(t, d) \/ L!AdjustTimer(t, d)
      PROVE  L!Queue!Schedule(t)
  <2>1. /\ L!Ready /\ expire' = [expire EXCEPT ![t] = now + d]
        /\ live' = live \cup {t} /\ UNCHANGED <<now, cur>>
    BY <1>5 DEF L!AddTimer, L!AdjustTimer
  <2>2. expire \in [ListTimers -> Nat] /\ now \in Nat /\ d \in Nat
    BY <1>1 DEF ListTypes, Expires
  <2>3. moment[t] = now + d /\ now + d \in Nat /\ now + d >= now
    BY <2>1, <2>2
  <2>4. moment = [deadline EXCEPT ![t] = moment[t]]
    BY <2>1, <2>2
  <2> QED
    BY <2>1, <2>3, <2>4 DEF L!Queue!Schedule, L!Ready
<1>6. ASSUME NEW t \in ListTimers, L!DelTimer(t)
      PROVE  L!Queue!Cancel(t)
  <2>1. /\ L!Ready /\ live' = live \ {t} /\ UNCHANGED <<now, expire, cur>>
    BY <1>6 DEF L!DelTimer
  <2>2. moment = [deadline EXCEPT ![t] = NULL]
    BY <2>1
  <2> QED
    BY <2>1, <2>2 DEF L!Queue!Cancel, L!Ready
<1>7. CASE L!TickBegin
  BY <1>7 DEF L!TickBegin, L!Ready, L!Queue!QueueNext, L!Queue!TickBegin
<1>8. CASE L!AddWalk \/ L!AddLink
  BY <1>2, <1>8 DEF L!AddWalk, L!AddLink
\* While tick() runs, all timers are linked.
<1>9. cur # NULL =>
         /\ lst.head = NULL <=> live = {}
         /\ \A t \in live : lst.head \in live /\ expire[lst.head] <= expire[t]
  <2>1. cur # NULL => live \ Unlinked = live
    BY <1>1 DEF ListInv, Walk, Unlinked
  <2>2. L!WellLinked
    BY <1>1, OrderedList
  <2>3. lst.head = NULL <=> live \ Unlinked = {}
    BY <2>2 DEF L!WellLinked, Unlinked
  <2> QED
    BY <1>1, <2>1, <2>3, OrderedList
<1>10. CASE L!TickFire
  <2>1. /\ cur # NULL /\ lst.head # NULL /\ cur >= expire[lst.head]
        /\ live' = live \ {lst.head} /\ UNCHANGED <<now, expire, cur>>
    BY <1>10 DEF L!TickFire
  <2>2. /\ lst.head \in live /\ lst.head \in ListTimers
        /\ \A t \in ListTimers : expire[t] \in Nat
        /\ cur \in Nat /\ live \in SUBSET ListTimers
    BY <1>1, <1>9, <2>1 DEF ListTypes, Expires
  <2>3. moment = [deadline EXCEPT ![lst.head] = NULL]
    BY <2>1
  <2>4. /\ deadline[lst.head] # NULL /\ deadline[lst.head] <= cur
        /\ \A u \in ListTimers : deadline[u] # NULL => deadline[lst.head] <= deadline[u]
    BY <1>1, <1>9, <2>1, <2>2
  <2>5. PICK h \in ListTimers : h = lst.head
    BY <2>2
  <2>6. L!Queue!Fire(h)
    BY <2>1, <2>3, <2>4, <2>5 DEF L!Queue!Fire, L!Queue!Waiting
  <2> QED
    BY <2>6 DEF L!Queue!QueueNext
<1>11. CASE L!TickEnd
  <2>1. /\ cur # NULL /\ cur' = NULL
        /\ lst.head # NULL => cur < expire[lst.head]
        /\ UNCHANGED <<now, live, expire>>
    BY <1>11 DEF L!TickEnd
  <2>2. cur \in Nat /\ \A t \in ListTimers : expire[t] \in Nat
    BY <1>1, <2>1 DEF ListTypes, Expires
  <2>3. \A t \in ListTimers : t \in live => cur < expire[t]
    BY <1>1, <1>9, <2>1, <2>2 DEF ListTypes
  <2>4. \A t \in L!Queue!Waiting : deadline[t] > cur
    BY <2>2, <2>3 DEF L!Queue!Waiting
  <2> QED
    BY <2>1, <2>4 DEF L!Queue!QueueNext, L!Queue!TickEnd
<1> QED
  BY <1>3, <1>4, <1>5, <1>6, <1>7, <1>8, <1>10, <1>11
  DEF Next, ListStep, HeapStep, WheelStep, L!Next, L!Queue!QueueNext

\* tick() of the list calls back exactly the timers that were due when it read
\* the time, earliest first: sort_timer_lst implements TimerQueue.
THEOREM ListImplementsQueue == Spec => ListImplements
<1>1. Init => (container = "list" => L!Queue!QueueInit)
  <2> SUFFICES ASSUME L!Init PROVE L!Queue!QueueInit
    BY DEF Init
  <2> QED
    BY DEF L!Init, L!Queue!QueueInit
<1> QED
  BY <1>1, InitListInvariant, NextListInvariant, ListStepImplements, PTL
  DEF Spec, ListImplements

-----------------------------------------------------------------------------
(* Heap arrays.  With the moving timer counted in the hole, an iteration   *)
(* of either percolation exchanges two places, so no timer is lost or      *)
(* doubled on the way; and the order fails at most next to the hole.       *)

Par(i) == (i - 1) \div 2

LEMMA Parent ==
    /\ \A i \in Nat \ {0} : Par(i) \in Nat /\ Par(i) < i
    /\ \A i \in Nat \ {0}, h \in Nat : Par(i) = h <=> i = 2 * h + 1 \/ i = 2 * h + 2
BY DEF Par

LEMMA LastParent ==
    ASSUME NEW i \in Nat \ {0} PROVE 2 * Par(i) + 2 > i - 1
<1>1. PICK h \in Nat : h = Par(i)
  BY Parent
<1>2. i = 2 * h + 1 \/ i = 2 * h + 2
  BY <1>1, Parent
<1> QED
  BY <1>1, <1>2

\* The first n places of a hold the timers S, each once.
Places(a, n, S) ==
    /\ \A i \in 0 .. n - 1 : a[i] \in S
    /\ \A t \in S : \E i \in 0 .. n - 1 : a[i] = t
    /\ \A i, j \in 0 .. n - 1 : a[i] = a[j] => i = j

\* No timer below a place behind b expires before the one above it.
Heap(a, n, x, b) ==
    \A i \in 1 .. n - 1 : Par(i) > b => x[a[Par(i)]] <= x[a[i]]

\* The same but for the timer in hole h, which may belong further down or up,
\* and which the timers above and below it already respect each other across.
HeapBut(a, n, x, b, h, dir) ==
    /\ \A i \in 1 .. n - 1 :
          Par(i) > b /\ (IF dir = "down" THEN Par(i) # h ELSE i # h)
            => x[a[Par(i)]] <= x[a[i]]
    /\ h > 0 /\ Par(h) > b =>
          \A i \in 1 .. n - 1 : Par(i) = h => x[a[Par(h)]] <= x[a[i]]

\* c is a with the places h and k exchanged.
Exchanged(a, c, n, h, k) ==
    /\ c[h] = a[k] /\ c[k] = a[h]
    /\ \A i \in 0 .. n - 1 : i # h /\ i # k => c[i] = a[i]

LEMMA ExchangePlaces ==
    ASSUME NEW a, NEW c, NEW n \in Nat, NEW S, Places(a, n, S),
           NEW h \in 0 .. n - 1, NEW k \in 0 .. n - 1, Exchanged(a, c, n, h, k)
    PROVE  Places(c, n, S)
BY DEF Places, Exchanged

\* The expire of every timer in the heap is a number.
LEMMA PlaceExpires ==
    ASSUME NEW a, NEW n \in Nat, NEW S \in SUBSET HeapTimers, Places(a, n, S),
           NEW x \in [HeapTimers -> Nat], NEW i \in 0 .. n - 1
    PROVE  x[a[i]] \in Nat
BY DEF Places

\* percolate_down goes on: the earlier child moves up.
LEMMA SinkOn ==
    ASSUME NEW a, NEW c, NEW n \in Nat, NEW S \in SUBSET HeapTimers,
           Places(a, n, S), NEW x \in [HeapTimers -> Nat], NEW b \in Int,
           NEW h \in 0 .. n - 1, h > b, HeapBut(a, n, x, b, h, "down"),
           NEW k \in 1 .. n - 1, Par(k) = h, x[a[k]] < x[a[h]],
           \A i \in 1 .. n - 1 : Par(i) = h => x[a[k]] <= x[a[i]],
           Exchanged(a, c, n, h, k)
    PROVE  HeapBut(c, n, x, b, k, "down")
<1>1. \A i \in 0 .. n - 1 : x[a[i]] \in Nat
  BY PlaceExpires
<1>2. \A i \in 1 .. n - 1 : Par(i) \in 0 .. n - 1 /\ Par(i) < i
  BY Parent
<1>3. /\ c[h] = a[k] /\ c[k] = a[h] /\ h # k
      /\ \A i \in 0 .. n - 1 : i # h /\ i # k => c[i] = a[i]
  BY <1>2 DEF Exchanged
<1>4. ASSUME NEW i \in 1 .. n - 1, Par(i) > b, Par(i) # k
      PROVE  x[c[Par(i)]] <= x[c[i]]
  <2>1. CASE i = k
    BY <1>1, <1>3, <2>1
  <2>2. CASE i # k /\ Par(i) = h
    <3>1. i # h
      BY <1>2, <2>2
    <3> QED
      BY <1>3, <2>2, <3>1
  <2>3. CASE i = h
    BY <1>1, <1>2, <1>3, <1>4, <2>3 DEF HeapBut
  <2>4. CASE i # k /\ i # h /\ Par(i) # h
    BY <1>2, <1>3, <1>4, <2>4 DEF HeapBut
  <2> QED
    BY <2>1, <2>2, <2>3, <2>4
<1>5. ASSUME NEW i \in 1 .. n - 1, Par(i) = k
      PROVE  x[c[Par(k)]] <= x[c[i]]
  <2>1. i # k /\ i # h /\ k > b
    BY <1>2, <1>5
  <2>2. x[a[k]] <= x[a[i]]
    BY <1>3, <1>5, <2>1 DEF HeapBut
  <2> QED
    BY <1>3, <2>1, <2>2
<1> QED
  BY <1>4, <1>5 DEF HeapBut

\* percolate_down ends: the timer in the hole respects its children.
LEMMA SinkEnds ==
    ASSUME NEW a, NEW n \in Nat, NEW x, NEW b \in Int, NEW h \in Nat,
           HeapBut(a, n, x, b, h, "down"),
           \A i \in 1 .. n - 1 : Par(i) = h => x[a[h]] <= x[a[i]]
    PROVE  Heap(a, n, x, b)
BY DEF HeapBut, Heap

\* The loop of add_timer goes on: the parent moves down.
LEMMA RiseOn ==
    ASSUME NEW a, NEW c, NEW n \in Nat, NEW S \in SUBSET HeapTimers,
           Places(a, n, S), NEW x \in [HeapTimers -> Nat],
           NEW h \in 1 .. n - 1, HeapBut(a, n, x, -1, h, "up"),
           NEW k \in 0 .. n - 1, Par(h) = k, x[a[k]] > x[a[h]],
           Exchanged(a, c, n, h, k)
    PROVE  HeapBut(c, n, x, -1, k, "up")
<1>1. \A i \in 0 .. n - 1 : x[a[i]] \in Nat
  BY PlaceExpires
<1>2. \A i \in 1 .. n - 1 : Par(i) \in 0 .. n - 1 /\ Par(i) < i /\ Par(i) > -1
  BY Parent
<1>3. /\ c[h] = a[k] /\ c[k] = a[h] /\ h # k
      /\ \A i \in 0 .. n - 1 : i # h /\ i # k => c[i] = a[i]
  BY <1>2 DEF Exchanged
<1>4. ASSUME NEW i \in 1 .. n - 1, i # k
      PROVE  x[c[Par(i)]] <= x[c[i]]
  <2>1. CASE i = h
    BY <1>1, <1>3, <2>1
  <2>2. CASE i # h /\ Par(i) = k
    <3>1. x[a[k]] <= x[a[i]]
      BY <1>2, <2>2 DEF HeapBut
    <3> QED
      BY <1>1, <1>3, <1>4, <2>2, <3>1
  <2>3. CASE Par(i) = h
    BY <1>2, <1>3, <1>4, <2>3 DEF HeapBut
  <2>4. CASE i # h /\ Par(i) # k /\ Par(i) # h
    BY <1>2, <1>3, <1>4, <2>4 DEF HeapBut
  <2> QED
    BY <2>1, <2>2, <2>3, <2>4
<1>5. ASSUME NEW i \in 1 .. n - 1, Par(i) = k, k > 0
      PROVE  x[c[Par(k)]] <= x[c[i]]
  <2>1. Par(k) # k /\ Par(k) # h /\ Par(k) \in 0 .. n - 1 /\ k \in 1 .. n - 1
    BY <1>2, <1>5
  <2>2. x[a[Par(k)]] <= x[a[k]]
    BY <1>2, <1>3, <2>1 DEF HeapBut
  <2>3. CASE i = h
    BY <1>3, <2>1, <2>2, <2>3
  <2>4. CASE i # h
    <3>1. x[a[k]] <= x[a[i]] /\ i # k
      BY <1>2, <1>5, <2>4 DEF HeapBut
    <3> QED
      BY <1>1, <1>3, <2>1, <2>2, <2>4, <3>1
  <2> QED
    BY <2>3, <2>4
<1> QED
  BY <1>4, <1>5 DEF HeapBut

LEMMA RiseEnds ==
    ASSUME NEW a, NEW n \in Nat, NEW x, NEW h \in Nat,
           HeapBut(a, n, x, -1, h, "up"),
           h > 0 => x[a[Par(h)]] <= x[a[h]]
    PROVE  Heap(a, n, x, -1)
BY DEF HeapBut, Heap

-----------------------------------------------------------------------------
(* The heap *)

\* The used places, with the moving timer in the hole.
Full == [i \in 0 .. cur_size - 1 |-> H!At(i)]

Moves == [dir : {"up", "down"}, timer : HeapTimers, hole : Nat]

HeapTypes ==
    /\ now \in Nat /\ cur \in Nat \cup {NULL}
    /\ live \in SUBSET HeapTimers /\ cancelled \in SUBSET live
    /\ expire \in [HeapTimers -> Nat]
    /\ capacity \in Nat \ {0} /\ cur_size \in 0 .. capacity
    /\ array \in [0 .. capacity - 1 -> HeapTimers \cup {NULL}]
    /\ build \in Int /\ build >= -1 /\ (build >= 0 => build < cur_size)
    /\ moving # NULL => moving \in Moves

\* Where the hole is, and what is not under way besides.
Percolation ==
    /\ moving # NULL =>
          /\ moving.hole > build
          /\ cur_size > 0 => moving.hole < cur_size
          /\ moving.dir = "up" => build = -1 /\ cur = NULL /\ cur_size > 0
    /\ cur # NULL => build = -1

Shaped(a) ==
    /\ Places(a, cur_size, live)
    /\ moving = NULL => Heap(a, cur_size, expire, build)
    /\ moving # NULL => HeapBut(a, cur_size, expire, build, moving.hole, moving.dir)

HeapInv == HeapTypes /\ Percolation /\ Shaped(Full)

\* What the loop variables of a percolation are, as one record.
LEMMA MoveFields ==
    ASSUME NEW dir \in {"up", "down"}, NEW t \in HeapTimers, NEW h \in Nat
    PROVE  /\ H!Move(dir, t, h) \in Moves /\ H!Move(dir, t, h) # NULL
           /\ H!Move(dir, t, h).dir = dir /\ H!Move(dir, t, h).timer = t
           /\ H!Move(dir, t, h).hole = h
<1>1. H!Move(dir, t, h) \in Moves
  BY DEF H!Move, Moves
<1> QED
  BY <1>1, TimerContainersAssumption DEF H!Move, Moves

\* Behind the last place with children nothing is asked.
LEMMA HeapVacuous ==
    ASSUME NEW a, NEW n \in Nat, NEW x, NEW b \in Int, 2 * b + 2 > n - 1 \/ n = 0
    PROVE  Heap(a, n, x, b)
BY Parent DEF Heap

LEMMA InitHeap == H!Init => HeapInv
<1> SUFFICES ASSUME H!Init PROVE HeapInv
  OBVIOUS
<1>1. /\ now = 0 /\ cur = NULL /\ moving = NULL /\ cancelled = {}
      /\ capacity = Capacity /\ cur_size \in 0 .. Capacity
      /\ live \in SUBSET HeapTimers
      /\ build = IF cur_size = 0 THEN -1 ELSE (cur_size - 1) \div 2
  BY DEF H!Init
<1>2. PICK order \in [0 .. cur_size - 1 -> live], x \in [live -> HeapDelays] :
          /\ \A t \in live : \E i \in 0 .. cur_size - 1 : order[i] = t
          /\ \A i, j \in 0 .. cur_size - 1 : order[i] = order[j] => i = j
          /\ array = [i \in 0 .. Capacity - 1 |->
                         IF i < cur_size THEN order[i] ELSE NULL]
          /\ expire = [t \in HeapTimers |-> IF t \in live THEN x[t] ELSE 0]
  BY DEF H!Init
<1>3. Capacity \in Nat \ {0} /\ HeapDelays \subseteq Nat
  BY TimerContainersAssumption
<1>4. build \in Int /\ build >= -1 /\ (build >= 0 => build < cur_size)
  BY <1>1, <1>3
<1>5. HeapTypes
  <2>1. array \in [0 .. Capacity - 1 -> HeapTimers \cup {NULL}]
    BY <1>1, <1>2, <1>3
  <2>2. expire \in [HeapTimers -> Nat]
    BY <1>2, <1>3
  <2> QED
    BY <1>1, <1>3, <1>4, <2>1, <2>2 DEF HeapTypes
<1>6. \A i \in 0 .. cur_size - 1 : Full[i] = order[i]
  BY <1>1, <1>2, <1>3 DEF Full, H!At
<1>7. Places(Full, cur_size, live)
  BY <1>2, <1>6 DEF Places
<1>8. Heap(Full, cur_size, expire, build)
  <2>1. PICK n \in Nat : n = cur_size
    BY <1>1, <1>3
  <2>2. n > 0 => 2 * Par(n) + 2 > n - 1
    BY LastParent
  <2>3. 2 * build + 2 > cur_size - 1 \/ cur_size = 0
    BY <1>1, <2>1, <2>2 DEF Par
  <2> QED
    BY <1>4, <2>1, <2>3, HeapVacuous
<1> QED
  BY <1>1, <1>5, <1>7, <1>8 DEF HeapInv, Percolation, Shaped

\* The earlier child of a place that has one.
LEMMA EarlierChild ==
    ASSUME HeapTypes, NEW h \in Nat, 2 * h + 1 <= cur_size - 1,
           \A i \in 0 .. cur_size - 1 : i > h => array[i] \in HeapTimers
    PROVE  /\ H!Child(h) \in 1 .. cur_size - 1 /\ Par(H!Child(h)) = h
           /\ H!Child(h) > h
           /\ \A i \in 1 .. cur_size - 1 :
                 Par(i) = h => expire[array[H!Child(h)]] <= expire[array[i]]
<1>1. PICK n \in Nat : n = cur_size
  BY DEF HeapTypes
<1>2. PICK k : k = H!Child(h)
  OBVIOUS
<1>3. /\ k = IF 2 * h + 1 < n - 1 /\ expire[array[2 * h + 2]] < expire[array[2 * h + 1]]
             THEN 2 * h + 2 ELSE 2 * h + 1
  <2>1. (2 * h + 1) + 1 = 2 * h + 2
    OBVIOUS
  <2> QED
    BY <1>1, <1>2, <2>1 DEF H!Child
<1>4. k \in 1 .. n - 1 /\ k > h /\ (k = 2 * h + 1 \/ k = 2 * h + 2)
  BY <1>1, <1>3
<1>5. Par(k) = h
  BY <1>4, Parent
<1>6. ASSUME NEW i \in 1 .. n - 1, Par(i) = h
      PROVE  expire[array[k]] <= expire[array[i]]
  <2>1. i = 2 * h + 1 \/ i = 2 * h + 2
    BY <1>6, Parent
  <2>2. i > h /\ i \in 0 .. n - 1
    BY <2>1
  <2>3. expire[array[i]] \in Nat /\ expire[array[2 * h + 1]] \in Nat
    BY <1>1, <2>2 DEF HeapTypes
  <2>4. CASE k = i
    BY <2>3, <2>4
  <2>5. CASE i = 2 * h + 1 /\ k = 2 * h + 2
    <3>1. expire[array[k]] < expire[array[i]] /\ expire[array[k]] \in Nat
      <4>1. k > h /\ k \in 0 .. n - 1
        BY <1>4
      <4>2. expire[array[k]] \in Nat
        BY <1>1, <4>1 DEF HeapTypes
      <4> QED
        BY <1>3, <2>5, <4>2
    <3> QED
      BY <2>3, <3>1
  <2>6. CASE i = 2 * h + 2 /\ k = 2 * h + 1
    <3>1. 2 * h + 1 < n - 1 /\ k # 2 * h + 2
      BY <2>6
    <3>2. ~(expire[array[2 * h + 2]] < expire[array[2 * h + 1]])
      BY <1>3, <3>1
    <3> QED
      BY <2>3, <2>6, <3>2
  <2> QED
    BY <1>4, <2>1, <2>4, <2>5, <2>6
<1> QED
  BY <1>1, <1>2, <1>4, <1>5, <1>6

\* An iteration of percolate_down.
LEMMA SinkHeap == HeapInv /\ H!Sink => HeapInv'
<1> SUFFICES ASSUME HeapInv, H!Sink PROVE HeapInv'
  OBVIOUS
<1>1. HeapTypes /\ Percolation /\ Shaped(Full)
  BY DEF HeapInv
<1>2. /\ moving # NULL /\ moving.dir = "down" /\ moving \in Moves
      /\ UNCHANGED <<now, live, cancelled, expire, capacity, cur_size, build, cur>>
  BY <1>1 DEF H!Sink, HeapTypes
<1>3. PICK n \in Nat : n = cur_size
  BY <1>1 DEF HeapTypes
<1>4. PICK t \in HeapTimers : t = moving.timer
  BY <1>2 DEF Moves
<1>5. PICK h \in Nat : h = moving.hole
  BY <1>2 DEF Moves
<1>6. PICK k : k = H!Child(h)
  OBVIOUS
<1>7. PICK x \in [HeapTimers -> Nat] : x = expire
  BY <1>1 DEF HeapTypes
<1>8. PICK b \in Int : b = build /\ h > b
  BY <1>1, <1>2, <1>5 DEF HeapTypes, Percolation
<1>9. PICK S \in SUBSET HeapTimers : S = live
  BY <1>1 DEF HeapTypes
<1>10. PICK a : a = Full
  OBVIOUS
<1>11. PICK c : c = Full'
  OBVIOUS
<1>12. \A i \in 0 .. n - 1 : a[i] = IF i = h THEN t ELSE array[i]
  BY <1>2, <1>3, <1>4, <1>5, <1>10 DEF Full, H!At
<1>13. Places(a, n, S) /\ HeapBut(a, n, x, b, h, "down")
  BY <1>1, <1>2, <1>3, <1>5, <1>7, <1>8, <1>9, <1>10 DEF Shaped
<1>14. n > 0 => h \in 0 .. n - 1
  BY <1>1, <1>2, <1>3, <1>5 DEF Percolation
<1>15. array \in [0 .. capacity - 1 -> HeapTimers \cup {NULL}] /\ n <= capacity
       /\ capacity \in Nat
  BY <1>1, <1>3 DEF HeapTypes
\* What matters of the child.
<1>16. ASSUME 2 * h + 1 <= n - 1
       PROVE  /\ k \in 1 .. n - 1 /\ Par(k) = h /\ k > h
              /\ a[k] = array[k] /\ array[k] \in HeapTimers
              /\ \A i \in 1 .. n - 1 : Par(i) = h => x[a[k]] <= x[a[i]]
  <2>1. \A i \in 0 .. n - 1 : i > h => array[i] = a[i] /\ array[i] \in HeapTimers
    BY <1>9, <1>12, <1>13 DEF Places
  <2>2. /\ k \in 1 .. n - 1 /\ Par(k) = h /\ k > h
        /\ \A i \in 1 .. n - 1 : Par(i) = h => x[array[k]] <= x[array[i]]
    BY <1>1, <1>3, <1>6, <1>7, <1>16, <2>1, EarlierChild
  <2>3. \A i \in 1 .. n - 1 : Par(i) = h => i > h
    BY Parent
  <2> QED
    BY <2>1, <2>2, <2>3
<1>17. CASE 2 * h + 1 <= n - 1 /\ x[array[k]] < x[t]
  <2>1. /\ array' = [array EXCEPT ![h] = array[k]]
        /\ moving' = H!Move("down", t, k)
    BY <1>3, <1>4, <1>5, <1>6, <1>7, <1>17 DEF H!Sink
  <2>2. k \in Nat /\ n > 0 /\ h \in 0 .. n - 1 /\ k \in 0 .. n - 1
    BY <1>14, <1>16, <1>17
  <2>3. /\ moving' \in Moves /\ moving' # NULL /\ moving'.dir = "down"
        /\ moving'.timer = t /\ moving'.hole = k
    BY <2>1, <2>2, MoveFields
  <2>4. array' \in [0 .. capacity - 1 -> HeapTimers \cup {NULL}]
    BY <1>15, <1>16, <1>17, <2>1
  <2>5. \A i \in 0 .. n - 1 : c[i] = IF i = k THEN t ELSE array'[i]
    BY <1>2, <1>3, <1>11, <2>3 DEF Full, H!At
  <2>6. Exchanged(a, c, n, h, k)
    <3>1. h # k /\ h \in 0 .. capacity - 1
      BY <1>15, <1>16, <1>17, <2>2
    <3>2. \A i \in 0 .. n - 1 : array'[i] = IF i = h THEN array[k] ELSE array[i]
      BY <1>15, <2>1, <3>1
    <3> QED
      BY <1>12, <1>16, <1>17, <2>2, <2>5, <3>1, <3>2 DEF Exchanged
  <2>7. x[a[k]] < x[a[h]]
    BY <1>12, <1>16, <1>17, <2>2
  <2>8. Places(c, n, S)
    BY <1>13, <2>2, <2>6, ExchangePlaces
  <2>9. HeapBut(c, n, x, b, k, "down")
    BY <1>8, <1>13, <1>16, <1>17, <2>2, <2>6, <2>7, SinkOn
  <2>10. Shaped(Full)'
    BY <1>2, <1>3, <1>7, <1>8, <1>9, <1>11, <2>3, <2>8, <2>9 DEF Shaped
  <2>11. HeapTypes'
    BY <1>1, <1>2, <2>3, <2>4 DEF HeapTypes
  <2>12. Percolation'
    BY <1>1, <1>2, <1>3, <1>8, <1>16, <1>17, <2>2, <2>3 DEF Percolation
  <2> QED
    BY <2>10, <2>11, <2>12 DEF HeapInv
<1>18. CASE ~(2 * h + 1 <= n - 1 /\ x[array[k]] < x[t])
  <2>1. array' = [array EXCEPT ![h] = t] /\ moving' = NULL
    BY <1>3, <1>4, <1>5, <1>6, <1>7, <1>18 DEF H!Sink
  <2>2. array' \in [0 .. capacity - 1 -> HeapTimers \cup {NULL}]
    BY <1>15, <2>1
  <2>3. \A i \in 0 .. n - 1 : c[i] = a[i]
    <3>1. \A i \in 0 .. n - 1 : c[i] = array'[i]
      BY <1>2, <1>3, <1>11, <2>1 DEF Full, H!At
    <3>2. \A i \in 0 .. n - 1 : array'[i] = IF i = h THEN t ELSE array[i]
      BY <1>15, <2>1
    <3> QED
      BY <1>12, <3>1, <3>2
  <2>4. \A i \in 1 .. n - 1 : Par(i) = h => x[a[h]] <= x[a[i]]
    <3> SUFFICES ASSUME NEW i \in 1 .. n - 1, Par(i) = h
                 PROVE  x[a[h]] <= x[a[i]]
      OBVIOUS
    <3>1. 2 * h + 1 <= n - 1 /\ h \in 0 .. n - 1
      BY <1>14, Parent
    <3>2. x[a[h]] = x[t] /\ x[a[k]] = x[array[k]] /\ x[a[k]] <= x[a[i]]
      BY <1>12, <1>16, <3>1
    <3>3. x[a[k]] \in Nat /\ x[a[h]] \in Nat /\ x[a[i]] \in Nat
      <4>1. k \in 0 .. n - 1 /\ i \in 0 .. n - 1
        BY <1>16, <3>1
      <4> QED
        BY <1>13, <3>1, <4>1, PlaceExpires
    <3> QED
      BY <1>18, <3>1, <3>2, <3>3
  <2>5. Heap(a, n, x, b)
    BY <1>13, <2>4, SinkEnds
  <2>6. Places(c, n, S) /\ Heap(c, n, x, b)
    <3>1. \A i \in 1 .. n - 1 : Par(i) \in 0 .. n - 1
      BY Parent
    <3> QED
      BY <1>13, <2>3, <2>5, <3>1 DEF Places, Heap
  <2>7. Shaped(Full)'
    BY <1>2, <1>3, <1>7, <1>8, <1>9, <1>11, <2>1, <2>6 DEF Shaped
  <2>8. HeapTypes' /\ Percolation'
    BY <1>1, <1>2, <2>1, <2>2 DEF HeapTypes, Percolation
  <2> QED
    BY <2>7, <2>8 DEF HeapInv
<1> QED
  BY <1>17, <1>18

\* An iteration of the loop of add_timer.
LEMMA RiseHeap == HeapInv /\ H!Rise => HeapInv'
<1> SUFFICES ASSUME HeapInv, H!Rise PROVE HeapInv'
  OBVIOUS
<1>1. HeapTypes /\ Percolation /\ Shaped(Full)
  BY DEF HeapInv
<1>2. /\ moving # NULL /\ moving.dir = "up" /\ moving \in Moves
      /\ UNCHANGED <<now, live, cancelled, expire, capacity, cur_size, build, cur>>
      /\ build = -1 /\ cur = NULL
  BY <1>1 DEF H!Rise, HeapTypes, Percolation
<1>3. PICK n \in Nat : n = cur_size
  BY <1>1 DEF HeapTypes
<1>4. PICK t \in HeapTimers : t = moving.timer
  BY <1>2 DEF Moves
<1>5. PICK h \in Nat : h = moving.hole
  BY <1>2 DEF Moves
<1>6. PICK k : k = Par(h)
  OBVIOUS
<1>7. PICK x \in [HeapTimers -> Nat] : x = expire
  BY <1>1 DEF HeapTypes
<1>8. PICK S \in SUBSET HeapTimers : S = live
  BY <1>1 DEF HeapTypes
<1>9. PICK a : a = Full
  OBVIOUS
<1>10. PICK c : c = Full'
  OBVIOUS
<1>11. \A i \in 0 .. n - 1 : a[i] = IF i = h THEN t ELSE array[i]
  BY <1>2, <1>3, <1>4, <1>5, <1>9 DEF Full, H!At
<1>12. Places(a, n, S) /\ HeapBut(a, n, x, -1, h, "up")
  BY <1>1, <1>2, <1>3, <1>5, <1>7, <1>8, <1>9 DEF Shaped
<1>13. n > 0 /\ h \in 0 .. n - 1
  BY <1>1, <1>2, <1>3, <1>5 DEF Percolation
<1>14. array \in [0 .. capacity - 1 -> HeapTimers \cup {NULL}] /\ n <= capacity
       /\ capacity \in Nat
  BY <1>1, <1>3 DEF HeapTypes
<1>15. CASE h > 0 /\ x[array[k]] > x[t]
  <2>1. k \in Nat /\ k < h /\ h \in 1 .. n - 1 /\ k \in 0 .. n - 1
    BY <1>6, <1>13, <1>15, Parent
  <2>2. /\ array' = [array EXCEPT ![h] = array[k]]
        /\ moving' = H!Move("up", t, k)
    BY <1>4, <1>5, <1>6, <1>7, <1>15 DEF H!Rise, Par
  <2>3. /\ moving' \in Moves /\ moving' # NULL /\ moving'.dir = "up"
        /\ moving'.timer = t /\ moving'.hole = k
    BY <2>1, <2>2, MoveFields
  <2>4. a[k] = array[k] /\ a[h] = t /\ array[k] \in HeapTimers
    BY <1>11, <1>12, <2>1 DEF Places
  <2>5. array' \in [0 .. capacity - 1 -> HeapTimers \cup {NULL}]
    BY <1>14, <2>2, <2>4
  <2>6. \A i \in 0 .. n - 1 : c[i] = IF i = k THEN t ELSE array'[i]
    BY <1>2, <1>3, <1>10, <2>3 DEF Full, H!At
  <2>7. Exchanged(a, c, n, h, k)
    <3>1. h # k /\ h \in 0 .. capacity - 1
      BY <1>14, <2>1
    <3>2. \A i \in 0 .. n - 1 : array'[i] = IF i = h THEN array[k] ELSE array[i]
      BY <1>14, <2>2, <3>1
    <3> QED
      BY <1>11, <1>13, <2>1, <2>4, <2>6, <3>1, <3>2 DEF Exchanged
  <2>8. x[a[k]] > x[a[h]]
    BY <1>15, <2>4
  <2>9. Places(c, n, S)
    BY <1>12, <1>13, <2>1, <2>7, ExchangePlaces
  <2>10. HeapBut(c, n, x, -1, k, "up")
    BY <1>6, <1>12, <2>1, <2>7, <2>8, RiseOn
  <2>11. Shaped(Full)'
    BY <1>2, <1>3, <1>7, <1>8, <1>10, <2>3, <2>9, <2>10 DEF Shaped
  <2>12. HeapTypes'
    BY <1>1, <1>2, <2>3, <2>5 DEF HeapTypes
  <2>13. Percolation'
    BY <1>2, <1>3, <1>13, <2>1, <2>3 DEF Percolation
  <2> QED
    BY <2>11, <2>12, <2>13 DEF HeapInv
<1>16. CASE ~(h > 0 /\ x[array[k]] > x[t])
  <2>1. array' = [array EXCEPT ![h] = t] /\ moving' = NULL
    BY <1>4, <1>5, <1>6, <1>7, <1>16 DEF H!Rise, Par
  <2>2. array' \in [0 .. capacity - 1 -> HeapTimers \cup {NULL}]
    BY <1>14, <2>1
  <2>3. \A i \in 0 .. n - 1 : c[i] = a[i]
    <3>1. \A i \in 0 .. n - 1 : c[i] = array'[i]
      BY <1>2, <1>3, <1>10, <2>1 DEF Full, H!At
    <3>2. \A i \in 0 .. n - 1 : array'[i] = IF i = h THEN t ELSE array[i]
      BY <1>14, <2>1
    <3> QED
      BY <1>11, <3>1, <3>2
  <2>4. ASSUME h > 0 PROVE x[a[Par(h)]] <= x[a[h]]
    <3>1. k \in 0 .. n - 1 /\ k # h
      BY <1>6, <1>13, <2>4, Parent
    <3>2. a[h] = t /\ a[k] = array[k]
      BY <1>11, <1>13, <3>1
    <3>3. x[a[k]] \in Nat /\ x[a[h]] \in Nat
      BY <1>12, <1>13, <3>1, PlaceExpires
    <3> QED
      BY <1>6, <1>16, <2>4, <3>2, <3>3
  <2>5. Heap(a, n, x, -1)
    BY <1>12, <2>4, RiseEnds
  <2>6. Places(c, n, S) /\ Heap(c, n, x, -1)
    <3>1. \A i \in 1 .. n - 1 : Par(i) \in 0 .. n - 1
      BY Parent
    <3> QED
      BY <1>12, <2>3, <2>5, <3>1 DEF Places, Heap
  <2>7. Shaped(Full)'
    BY <1>2, <1>3, <1>7, <1>8, <1>10, <2>1, <2>6 DEF Shaped
  <2>8. HeapTypes' /\ Percolation'
    BY <1>1, <1>2, <2>1, <2>2 DEF HeapTypes, Percolation
  <2> QED
    BY <2>7, <2>8 DEF HeapInv
<1> QED
  BY <1>15, <1>16

\* An iteration of the loop of the second constructor: what is below place
\* build is in order already.
LEMMA HeapifyHeap == HeapInv /\ H!Heapify => HeapInv'
<1> SUFFICES ASSUME HeapInv, H!Heapify PROVE HeapInv'
  OBVIOUS
<1>1. HeapTypes /\ Percolation /\ Shaped(Full)
  BY DEF HeapInv
<1>2. /\ build >= 0 /\ moving = NULL /\ build' = build - 1
      /\ moving' = H!Move("down", array[build], build)
      /\ UNCHANGED <<now, live, cancelled, expire, array, capacity, cur_size, cur>>
  BY DEF H!Heapify, H!PercolateDown
<1>3. PICK n \in Nat : n = cur_size
  BY <1>1 DEF HeapTypes
<1>4. PICK h \in 0 .. n - 1 : h = build
  BY <1>1, <1>2, <1>3 DEF HeapTypes
<1>5. PICK a : a = Full
  OBVIOUS
<1>6. PICK c : c = Full'
  OBVIOUS
<1>7. \A i \in 0 .. n - 1 : a[i] = array[i]
  BY <1>2, <1>3, <1>5 DEF Full, H!At
<1>8. Places(a, n, live) /\ Heap(a, n, expire, h)
  BY <1>1, <1>2, <1>3, <1>4, <1>5 DEF Shaped
<1>9. PICK t \in HeapTimers : t = array[h]
  BY <1>1, <1>7, <1>8 DEF Places, HeapTypes
<1>10. /\ moving' \in Moves /\ moving' # NULL /\ moving'.dir = "down"
       /\ moving'.timer = t /\ moving'.hole = h
  BY <1>2, <1>4, <1>9, MoveFields
<1>11. \A i \in 0 .. n - 1 : c[i] = a[i]
  BY <1>2, <1>3, <1>6, <1>7, <1>9, <1>10 DEF Full, H!At
<1>12. \A i \in 1 .. n - 1 : Par(i) \in 0 .. n - 1
  BY Parent
<1>13. Places(c, n, live)
  BY <1>8, <1>11 DEF Places
<1>14. HeapBut(c, n, expire, h - 1, h, "down")
  <2>1. ASSUME NEW i \in 1 .. n - 1, Par(i) > h - 1, Par(i) # h
        PROVE  expire[c[Par(i)]] <= expire[c[i]]
    <3>1. Par(i) > h
      BY <1>12, <2>1
    <3> QED
      BY <1>8, <1>11, <1>12, <3>1 DEF Heap
  <2>2. h > 0 => ~(Par(h) > h - 1)
    BY Parent
  <2> QED
    BY <2>1, <2>2 DEF HeapBut
<1>15. Shaped(Full)'
  BY <1>2, <1>3, <1>4, <1>6, <1>10, <1>13, <1>14 DEF Shaped
<1>16. HeapTypes' /\ Percolation'
  BY <1>1, <1>2, <1>3, <1>4, <1>10 DEF HeapTypes, Percolation
<1> QED
  BY <1>15, <1>16 DEF HeapInv

\* new heap_timer and add_timer up to its loop: the new timer is in the hole
\* behind the last one, in an array that has room for it.
LEMMA AddHeap ==
    ASSUME HeapInv, NEW t \in HeapTimers, NEW d \in HeapDelays, H!AddTimer(t, d)
    PROVE  HeapInv'
<1>1. HeapTypes /\ Percolation /\ Shaped(Full)
  BY DEF HeapInv
<1>2. /\ build < 0 /\ moving = NULL /\ cur = NULL /\ t \notin live
      /\ live' = live \cup {t}
      /\ expire' = [expire EXCEPT ![t] = now + d]
      /\ cur_size' = cur_size + 1
      /\ moving' = H!Move("up", t, cur_size)
      /\ UNCHANGED <<now, cancelled, build, cur>>
  BY DEF H!AddTimer, H!Ready
<1>3. PICK n \in Nat : n = cur_size
  BY <1>1 DEF HeapTypes
<1>4. build = -1 /\ d \in Nat /\ now \in Nat
  BY <1>1, <1>2, TimerContainersAssumption DEF HeapTypes
<1>5. PICK a : a = Full
  OBVIOUS
<1>6. PICK c : c = Full'
  OBVIOUS
<1>7. PICK x \in [HeapTimers -> Nat] : x = expire
  BY <1>1 DEF HeapTypes
<1>8. PICK y \in [HeapTimers -> Nat] : y = expire'
  BY <1>2, <1>4, <1>7
<1>9. \A u \in HeapTimers : u # t => y[u] = x[u]
  BY <1>2, <1>7, <1>8
<1>10. PICK S \in SUBSET HeapTimers : S = live
  BY <1>1 DEF HeapTypes
<1>11. \A i \in 0 .. n - 1 : a[i] = array[i]
  BY <1>2, <1>3, <1>5 DEF Full, H!At
<1>12. Places(a, n, S) /\ Heap(a, n, x, -1)
  BY <1>1, <1>2, <1>3, <1>4, <1>5, <1>7, <1>10 DEF Shaped
<1>13. /\ moving' \in Moves /\ moving' # NULL /\ moving'.dir = "up"
       /\ moving'.timer = t /\ moving'.hole = n
  BY <1>2, <1>3, MoveFields
<1>14. /\ capacity' \in Nat \ {0} /\ cur_size' \in 0 .. capacity'
       /\ array' \in [0 .. capacity' - 1 -> HeapTimers \cup {NULL}]
       /\ \A i \in 0 .. n - 1 : array'[i] = array[i]
  <2>1. /\ capacity \in Nat \ {0} /\ n \in 0 .. capacity
        /\ array \in [0 .. capacity - 1 -> HeapTimers \cup {NULL}]
    BY <1>1, <1>3 DEF HeapTypes
  <2>2. CASE n >= capacity
    <3>1. /\ capacity' = 2 * capacity
          /\ array' = [i \in 0 .. 2 * capacity - 1 |->
                          IF i < n THEN array[i] ELSE NULL]
      BY <1>3, <2>2 DEF H!AddTimer, H!resize
    <3>2. \A i \in 0 .. 2 * capacity - 1 : i < n => i \in 0 .. capacity - 1
      BY <2>1
    <3>3. array' \in [0 .. 2 * capacity - 1 -> HeapTimers \cup {NULL}]
      BY <2>1, <3>1, <3>2
    <3>4. \A i \in 0 .. n - 1 : i \in 0 .. 2 * capacity - 1 /\ i < n
      BY <2>1
    <3> QED
      BY <1>2, <1>3, <2>1, <2>2, <3>1, <3>3, <3>4
  <2>3. CASE ~(n >= capacity)
    <3>1. UNCHANGED <<array, capacity>>
      BY <1>3, <2>3 DEF H!AddTimer
    <3> QED
      BY <1>2, <1>3, <2>1, <2>3, <3>1
  <2> QED
    BY <2>2, <2>3
<1>15. \A i \in 0 .. n : c[i] = IF i = n THEN t ELSE array'[i]
  <2>1. cur_size' - 1 = n
    BY <1>2, <1>3
  <2> QED
    BY <1>6, <1>13, <2>1 DEF Full, H!At
<1>16. c[n] = t /\ \A i \in 0 .. n - 1 : c[i] = a[i] /\ a[i] \in S /\ a[i] # t
  <2>1. n \in 0 .. n /\ \A i \in 0 .. n - 1 : i \in 0 .. n /\ i # n
    OBVIOUS
  <2>2. c[n] = t /\ \A i \in 0 .. n - 1 : c[i] = a[i]
    BY <1>11, <1>14, <1>15, <2>1
  <2> QED
    BY <1>2, <1>10, <1>12, <2>2 DEF Places
<1>17. Places(c, n + 1, S \cup {t})
  <2>1. \A i \in 0 .. (n + 1) - 1 : i = n \/ i \in 0 .. n - 1
    OBVIOUS
  <2>2. \A u \in S : \E i \in 0 .. (n + 1) - 1 : c[i] = u
    <3> SUFFICES ASSUME NEW u \in S PROVE \E i \in 0 .. (n + 1) - 1 : c[i] = u
      OBVIOUS
    <3>1. PICK i \in 0 .. n - 1 : a[i] = u
      BY <1>12 DEF Places
    <3>2. i \in 0 .. (n + 1) - 1 /\ c[i] = u
      BY <1>16, <3>1
    <3> QED
      BY <3>2
  <2>3. n \in 0 .. (n + 1) - 1
    OBVIOUS
  <2>4. ASSUME NEW i \in 0 .. (n + 1) - 1, NEW j \in 0 .. (n + 1) - 1, c[i] = c[j]
        PROVE  i = j
    <3>1. CASE i = n
      BY <1>16, <2>1, <2>4, <3>1
    <3>2. CASE j = n
      BY <1>16, <2>1, <2>4, <3>2
    <3>3. CASE i \in 0 .. n - 1 /\ j \in 0 .. n - 1
      BY <1>12, <1>16, <2>4, <3>3 DEF Places
    <3> QED
      BY <2>1, <3>1, <3>2, <3>3
  <2>5. \A i \in 0 .. (n + 1) - 1 : c[i] \in S \cup {t}
    BY <1>16, <2>1
  <2> QED
    BY <1>16, <2>2, <2>3, <2>4, <2>5 DEF Places
<1>18. HeapBut(c, n + 1, y, -1, n, "up")
  <2>1. ASSUME NEW i \in 1 .. (n + 1) - 1, i # n
        PROVE  y[c[Par(i)]] <= y[c[i]]
    <3>1. i \in 1 .. n - 1 /\ Par(i) \in 0 .. n - 1 /\ Par(i) > -1
      BY <2>1, Parent
    <3>2. x[a[Par(i)]] <= x[a[i]]
      BY <1>12, <3>1 DEF Heap
    <3>3. \A j \in 0 .. n - 1 : y[c[j]] = x[a[j]]
      BY <1>9, <1>10, <1>16
    <3> QED
      BY <3>1, <3>2, <3>3
  <2>2. \A i \in 1 .. (n + 1) - 1 : Par(i) # n
    BY Parent
  <2> QED
    BY <2>1, <2>2 DEF HeapBut
<1>19. Shaped(Full)'
  <2>1. cur_size' = n + 1 /\ live' = S \cup {t} /\ build' = -1
    BY <1>2, <1>3, <1>4, <1>10
  <2> QED
    BY <1>6, <1>8, <1>13, <1>17, <1>18, <2>1 DEF Shaped
<1>20. HeapTypes'
  <2>1. live' \in SUBSET HeapTimers /\ cancelled' \in SUBSET live'
    BY <1>1, <1>2 DEF HeapTypes
  <2>2. build' \in Int /\ build' >= -1 /\ (build' >= 0 => build' < cur_size')
    BY <1>2, <1>4
  <2> QED
    BY <1>1, <1>2, <1>8, <1>13, <1>14, <2>1, <2>2 DEF HeapTypes
<1>21. Percolation'
  BY <1>2, <1>3, <1>4, <1>13 DEF Percolation
<1> QED
  BY <1>19, <1>20, <1>21 DEF HeapInv

\* pop_timer up to its percolation: the last timer is in the hole at the top.
LEMMA PopHeap ==
    ASSUME HeapInv, moving = NULL, build = -1, H!Pop
    PROVE  HeapInv'
<1>1. HeapTypes /\ Percolation /\ Shaped(Full)
  BY DEF HeapInv
<1>2. PICK n \in Nat : n = cur_size /\ n > 0
  BY <1>1 DEF HeapTypes, H!Pop
<1>3. PICK a : a = Full
  OBVIOUS
<1>4. PICK c : c = Full'
  OBVIOUS
<1>5. PICK x \in [HeapTimers -> Nat] : x = expire
  BY <1>1 DEF HeapTypes
<1>6. PICK S \in SUBSET HeapTimers : S = live
  BY <1>1 DEF HeapTypes
<1>7. \A i \in 0 .. n - 1 : a[i] = array[i]
  BY <1>2, <1>3 DEF Full, H!At
<1>8. Places(a, n, S) /\ Heap(a, n, x, -1)
  BY <1>1, <1>2, <1>3, <1>5, <1>6 DEF Shaped
<1>9. 0 \in 0 .. n - 1 /\ n - 1 \in 0 .. n - 1
  BY <1>2
<1>10. PICK t \in HeapTimers : t = array[0] /\ t = a[0] /\ t \in S
  BY <1>7, <1>8, <1>9 DEF Places
<1>11. PICK u \in HeapTimers : u = array[n - 1] /\ u = a[n - 1] /\ u \in S
  BY <1>7, <1>8, <1>9 DEF Places
<1>12. /\ live' = live \ {t} /\ cancelled' = cancelled \ {t}
       /\ expire' = [expire EXCEPT ![t] = 0]
       /\ cur_size' = n - 1
       /\ array' = [array EXCEPT ![0] = u]
       /\ moving' = H!Move("down", array'[0], 0)
       /\ UNCHANGED <<now, capacity, build, cur>>
  BY <1>2, <1>10, <1>11 DEF H!Pop, H!PercolateDown
<1>13. PICK y \in [HeapTimers -> Nat] : y = expire'
  BY <1>5, <1>12
<1>14. \A v \in HeapTimers : v # t => y[v] = x[v]
  BY <1>5, <1>12, <1>13
<1>15. /\ capacity \in Nat \ {0} /\ n \in 0 .. capacity
       /\ array \in [0 .. capacity - 1 -> HeapTimers \cup {NULL}]
  BY <1>1, <1>2 DEF HeapTypes
<1>16. /\ array' \in [0 .. capacity - 1 -> HeapTimers \cup {NULL}]
       /\ array'[0] = u
       /\ \A i \in 0 .. n - 1 : i # 0 => array'[i] = array[i]
  BY <1>12, <1>15
<1>17. /\ moving' \in Moves /\ moving' # NULL /\ moving'.dir = "down"
       /\ moving'.timer = u /\ moving'.hole = 0
  <2>1. moving' = H!Move("down", u, 0) /\ 0 \in Nat
    BY <1>12, <1>16
  <2> QED
    BY <2>1, MoveFields
<1>18. PICK m \in Nat : m = n - 1
  BY <1>2
<1>19. \A i \in 0 .. m - 1 : c[i] = IF i = 0 THEN a[m] ELSE a[i]
  <2>1. \A i \in 0 .. m - 1 : i \in 0 .. n - 1
    BY <1>18
  <2>2. \A i \in 0 .. m - 1 : c[i] = IF i = 0 THEN u ELSE array'[i]
    BY <1>4, <1>12, <1>17, <1>18 DEF Full, H!At
  <2> QED
    BY <1>7, <1>11, <1>16, <1>18, <2>1, <2>2
<1>20. /\ \A i \in 0 .. n - 1 : a[i] \in S /\ (i # 0 => a[i] # t)
       /\ \A i \in 0 .. m - 1 : i \in 0 .. n - 1
       /\ m \in 0 .. n - 1
  BY <1>8, <1>9, <1>10, <1>18 DEF Places
<1>21. Places(c, m, S \ {t})
  <2>1. \A i \in 0 .. m - 1 : c[i] \in S \ {t}
    <3>1. \A i \in 0 .. m - 1 : m # 0
      OBVIOUS
    <3> QED
      BY <1>19, <1>20, <3>1
  <2>2. ASSUME NEW v \in S \ {t} PROVE \E i \in 0 .. m - 1 : c[i] = v
    <3>1. PICK i \in 0 .. n - 1 : a[i] = v
      BY <1>8 DEF Places
    <3>2. i # 0
      BY <1>10, <2>2, <3>1
    <3>3. CASE i = m
      <4>1. 0 \in 0 .. m - 1 /\ c[0] = v
        BY <1>19, <3>1, <3>2, <3>3
      <4> QED
        BY <4>1
    <3>4. CASE i # m
      <4>1. i \in 0 .. m - 1 /\ c[i] = v
        BY <1>18, <1>19, <3>1, <3>2, <3>4
      <4> QED
        BY <4>1
    <3> QED
      BY <3>3, <3>4
  <2>3. ASSUME NEW i \in 0 .. m - 1, NEW j \in 0 .. m - 1, c[i] = c[j]
        PROVE  i = j
    BY <1>8, <1>19, <1>20, <2>3 DEF Places
  <2> QED
    BY <2>1, <2>2, <2>3 DEF Places
<1>22. HeapBut(c, m, y, -1, 0, "down")
  <2>1. ASSUME NEW i \in 1 .. m - 1, Par(i) # 0
        PROVE  y[c[Par(i)]] <= y[c[i]]
    <3>1. /\ i \in 1 .. n - 1 /\ Par(i) \in 0 .. n - 1 /\ Par(i) > -1
          /\ i \in 0 .. m - 1 /\ Par(i) \in 0 .. m - 1 /\ i # 0
      BY <1>18, <2>1, Parent
    <3>2. x[a[Par(i)]] <= x[a[i]]
      BY <1>8, <3>1 DEF Heap
    <3>3. c[i] = a[i] /\ c[Par(i)] = a[Par(i)]
      BY <1>19, <2>1, <3>1
    <3>4. y[a[i]] = x[a[i]] /\ y[a[Par(i)]] = x[a[Par(i)]]
      BY <1>14, <1>20, <2>1, <3>1
    <3> QED
      BY <3>2, <3>3, <3>4
  <2> QED
    BY <2>1 DEF HeapBut
<1>23. Shaped(Full)'
  <2>1. cur_size' = m /\ live' = S \ {t} /\ build' = -1
    BY <1>6, <1>12, <1>18
  <2> QED
    BY <1>4, <1>13, <1>17, <1>21, <1>22, <2>1 DEF Shaped
<1>24. HeapTypes'
  <2>1. live' \in SUBSET HeapTimers /\ cancelled' \in SUBSET live'
    BY <1>1, <1>12 DEF HeapTypes
  <2>2. build' = -1 /\ cur_size' \in 0 .. capacity'
    BY <1>12, <1>15, <1>18
  <2> QED
    BY <1>1, <1>12, <1>13, <1>16, <1>17, <2>1, <2>2 DEF HeapTypes
<1>25. Percolation'
  BY <1>12, <1>17, <1>18 DEF Percolation
<1> QED
  BY <1>23, <1>24, <1>25 DEF HeapInv

LEMMA NextHeap == HeapInv /\ H!Next => HeapInv'
<1> SUFFICES ASSUME HeapInv, H!Next PROVE HeapInv'
  OBVIOUS
<1>1. HeapTypes /\ Percolation /\ Shaped(Full)
  BY DEF HeapInv
\* The heap itself is left alone.
<1>2. ASSUME UNCHANGED <<live, expire, array, capacity, cur_size, build, moving>>
      PROVE  Shaped(Full)'
  <2>1. Full' = Full
    BY <1>2 DEF Full, H!At
  <2> QED
    BY <1>1, <1>2, <2>1 DEF Shaped
<1>3. CASE H!Advance
  <2>1. HeapTypes' /\ Percolation'
    BY <1>1, <1>3 DEF HeapTypes, Percolation, H!Advance
  <2> QED
    BY <1>2, <1>3, <2>1 DEF HeapInv, H!Advance
<1>4. CASE H!Heapify \/ H!Sink \/ H!Rise
  BY <1>4, HeapifyHeap, SinkHeap, RiseHeap
<1>5. ASSUME NEW t \in HeapTimers, H!DelTimer(t)
      PROVE  HeapInv'
  <2>1. HeapTypes' /\ Percolation'
    BY <1>1, <1>5 DEF HeapTypes, Percolation, H!DelTimer
  <2> QED
    BY <1>2, <1>5, <2>1 DEF HeapInv, H!DelTimer
<1>6. ASSUME NEW t \in HeapTimers, NEW d \in HeapDelays, H!AddTimer(t, d)
      PROVE  HeapInv'
  BY <1>6, AddHeap
<1>7. CASE H!PopTimer
  <2>1. moving = NULL /\ build = -1 /\ H!Pop
    BY <1>1, <1>7 DEF H!PopTimer, H!Ready, HeapTypes
  <2> QED
    BY <2>1, PopHeap
<1>8. CASE H!TickBegin
  <2>1. HeapTypes' /\ Percolation'
    BY <1>1, <1>8 DEF HeapTypes, Percolation, H!TickBegin, H!Ready
  <2> QED
    BY <1>2, <1>8, <2>1 DEF HeapInv, H!TickBegin
<1>9. CASE H!TickFire
  <2>1. moving = NULL /\ build = -1 /\ H!Pop
    BY <1>1, <1>9 DEF H!TickFire, Percolation
  <2> QED
    BY <2>1, PopHeap
<1>10. CASE H!TickEnd
  <2>1. HeapTypes' /\ Percolation'
    BY <1>1, <1>10 DEF HeapTypes, Percolation, H!TickEnd
  <2> QED
    BY <1>2, <1>10, <2>1 DEF HeapInv, H!TickEnd
<1> QED
  BY <1>3, <1>4, <1>5, <1>6, <1>7, <1>8, <1>9, <1>10 DEF H!Next

\* The invariant of a program that uses the heap.
HeapInvariant == container = "heap" => HeapInv

LEMMA InitHeapInvariant == Init => HeapInvariant
BY InitHeap DEF Init, HeapInvariant

LEMMA NextHeapInvariant == HeapInvariant /\ [Next]_vars => HeapInvariant'
<1> SUFFICES ASSUME HeapInvariant, [Next]_vars PROVE HeapInvariant'
  OBVIOUS
<1>1. CASE HeapStep
  BY <1>1, NextHeap DEF HeapStep, HeapInvariant
<1>2. CASE ListStep \/ WheelStep
  BY <1>2 DEF ListStep, WheelStep, HeapInvariant
<1>3. CASE UNCHANGED vars
  <2>1. UNCHANGED <<container, now, live, expire, cur, cancelled, array, capacity,
                    cur_size, build, moving>>
    BY <1>3 DEF vars, heapVars
  <2>2. Full' = Full
    BY <2>1 DEF Full, H!At
  <2>3. HeapInv => HeapInv'
    BY <2>1, <2>2 DEF HeapInv, HeapTypes, Percolation, Shaped
  <2> QED
    BY <2>1, <2>3 DEF HeapInvariant
<1> QED
  BY <1>1, <1>2, <1>3 DEF Next

\* Whatever is added, deleted, popped and expired, and whatever array the heap
\* is built from, no iteration of percolate_down or of the loop of add_timer
\* loses or doubles a timer, and between calls no timer expires before the one
\* above it.
THEOREM HeapIsOrdered == Spec => []HeapOrdered
<1>1. HeapInvariant => HeapOrdered
  <2> SUFFICES ASSUME HeapInv PROVE H!HeapOrdered
    BY DEF HeapInvariant, HeapOrdered
  <2>1. HeapTypes /\ Shaped(Full)
    BY DEF HeapInv
  <2>2. \A i \in 0 .. cur_size - 1 : Full[i] = H!At(i)
    BY DEF Full
  <2>3. /\ {H!At(i) : i \in 0 .. cur_size - 1} = live
        /\ \A i, j \in 0 .. cur_size - 1 : H!At(i) = H!At(j) => i = j
    BY <2>1, <2>2 DEF Shaped, Places
  <2>4. ASSUME build < 0, moving = NULL, NEW i \in 1 .. cur_size - 1
        PROVE  expire[array[(i - 1) \div 2]] <= expire[array[i]]
    <3>1. Heap(Full, cur_size, expire, build) /\ build = -1 /\ cur_size \in Nat
      BY <2>1, <2>4 DEF Shaped, HeapTypes
    <3>2. Par(i) > -1 /\ Par(i) \in 0 .. cur_size - 1 /\ i \in 0 .. cur_size - 1
      BY <3>1, Parent
    <3>3. Full[Par(i)] = array[Par(i)] /\ Full[i] = array[i]
      BY <2>2, <2>4, <3>2 DEF H!At
    <3>4. expire[Full[Par(i)]] <= expire[Full[i]]
      BY <3>1, <3>2 DEF Heap
    <3> QED
      BY <3>3, <3>4 DEF Par
  <2> QED
    BY <2>3, <2>4 DEF H!HeapOrdered
<1> QED
  BY <1>1, InitHeapInvariant, NextHeapInvariant, PTL DEF Spec

\* Every set of numbers that is not empty has a least element.
LEMMA Least ==
    ASSUME NEW S, S \subseteq Nat, S # {}
    PROVE  \E n \in S : \A m \in S : n <= m
<1> DEFINE R == OpToRel(<, Nat)
<1>1. IsWellFoundedOn(R, Nat)
  BY NatLessThanWellFounded
<1>2. PICK x \in S : \A y \in S : ~(<<y, x>> \in R)
  <2> HIDE DEF R
  <2> QED
    BY <1>1, WFMin
<1>3. \A y \in S : y < x => <<y, x>> \in R
  BY DEF OpToRel
<1>4. \A y \in S : x \in Nat /\ y \in Nat /\ ~(y < x)
  BY <1>2, <1>3, Zenon
<1> HIDE DEF R
<1> QED
  BY <1>4

\* The top of a heap expires first: the least place where it did not would
\* have a place above it.
LEMMA TopIsLeast ==
    ASSUME NEW a, NEW n \in Nat, NEW S \in SUBSET HeapTimers, Places(a, n, S),
           NEW x \in [HeapTimers -> Nat], Heap(a, n, x, -1), NEW t \in S
    PROVE  x[a[0]] <= x[t]
<1>1. \A i \in 0 .. n - 1 : x[a[i]] \in Nat
  BY PlaceExpires
<1> DEFINE Wrong == {i \in 0 .. n - 1 : ~(x[a[0]] <= x[a[i]])}
<1>2. Wrong = {}
  <2> SUFFICES ASSUME Wrong # {} PROVE FALSE
    OBVIOUS
  <2>1. PICK i \in Wrong : \A j \in Wrong : i <= j
    <3>1. Wrong \subseteq Nat
      OBVIOUS
    <3> HIDE DEF Wrong
    <3> QED
      BY <3>1, Least
  <2>2. i \in 1 .. n - 1
    BY <1>1
  <2>3. Par(i) \in 0 .. n - 1 /\ Par(i) < i /\ Par(i) > -1
    BY <2>2, Parent
  <2>4. Par(i) \notin Wrong
    BY <2>1, <2>2, <2>3
  <2>5. x[a[0]] <= x[a[Par(i)]] /\ x[a[Par(i)]] <= x[a[i]]
    BY <2>2, <2>3, <2>4 DEF Heap
  <2>6. x[a[0]] \in Nat /\ x[a[Par(i)]] \in Nat /\ x[a[i]] \in Nat
    BY <1>1, <2>2, <2>3
  <2> QED
    BY <2>5, <2>6
<1>3. PICK i \in 0 .. n - 1 : a[i] = t
  BY DEF Places
<1> QED
  BY <1>2, <1>3

\* Every step of the heap is a step of the queue, or none of its business: the
\* removal of a timer that was deleted before is not.
LEMMA HeapStepImplements ==
    HeapInvariant /\ [Next]_vars
      => [container = "heap" => H!Queue!QueueNext]_(H!Queue!queueVars)
<1> SUFFICES ASSUME HeapInvariant, [Next]_vars, container = "heap"
             PROVE  [H!Queue!QueueNext]_(H!Queue!queueVars)
  OBVIOUS
<1> DEFINE deadline == [t \in HeapTimers |-> IF t \in live \ cancelled
                                             THEN expire[t] ELSE NULL]
           moment == [t \in HeapTimers |-> IF t \in live' \ cancelled'
                                           THEN expire'[t] ELSE NULL]
<1>1. HeapInv /\ HeapTypes /\ HeapDelays \subseteq Nat /\ NULL \notin Nat
  BY TimerContainersAssumption DEF HeapInvariant, HeapInv
<1>2. ASSUME UNCHANGED <<now, live, cancelled, expire, cur>>
      PROVE  UNCHANGED H!Queue!queueVars
  BY <1>2 DEF H!Queue!queueVars
<1>3. CASE UNCHANGED vars
  BY <1>2, <1>3 DEF vars, heapVars
<1>4. CASE H!Advance
  BY <1>4 DEF H!Advance, H!Queue!QueueNext, H!Queue!Time
<1>5. ASSUME NEW t \in HeapTimers, NEW d \in HeapDelays, H!AddTimer(t, d)
      PROVE  H!Queue!Schedule(t)
  <2>1. /\ H!Ready /\ expire' = [expire EXCEPT ![t] = now + d] /\ t \notin live
        /\ live' = live \cup {t} /\ UNCHANGED <<now, cancelled, cur>>
    BY <1>5 DEF H!AddTimer
  <2>2. /\ expire \in [HeapTimers -> Nat] /\ now \in Nat /\ d \in Nat
        /\ cancelled \in SUBSET live
    BY <1>1 DEF HeapTypes
  <2>3. moment[t] = now + d /\ now + d \in Nat /\ now + d >= now
    <3>1. t \in live' \ cancelled' /\ expire'[t] = now + d
      BY <2>1, <2>2
    <3> QED
      BY <2>2, <3>1
  <2>4. \A u \in HeapTimers : u # t =>
           /\ expire'[u] = expire[u]
           /\ u \in live' \ cancelled' <=> u \in live \ cancelled
    BY <2>1, <2>2
  <2>5. moment = [deadline EXCEPT ![t] = moment[t]]
    BY <2>4
  <2> QED
    BY <2>1, <2>3, <2>5 DEF H!Queue!Schedule, H!Ready
<1>6. ASSUME NEW t \in HeapTimers, H!DelTimer(t)
      PROVE  H!Queue!Cancel(t)
  <2>1. /\ H!Ready /\ cancelled' = cancelled \cup {t}
        /\ UNCHANGED <<now, live, expire, cur>>
    BY <1>6 DEF H!DelTimer
  <2>2. moment = [deadline EXCEPT ![t] = NULL]
    BY <2>1
  <2> QED
    BY <2>1, <2>2 DEF H!Queue!Cancel, H!Ready
<1>7. CASE H!TickBegin
  BY <1>7 DEF H!TickBegin, H!Ready, H!Queue!QueueNext, H!Queue!TickBegin
<1>8. CASE H!Heapify \/ H!Sink \/ H!Rise
  BY <1>2, <1>8 DEF H!Heapify, H!Sink, H!Rise
\* Between percolations the top is a timer, and expires first.
<1>9. ASSUME moving = NULL, build = -1
      PROVE  /\ cur_size > 0 => array[0] \in live
             /\ \A t \in live : cur_size > 0 /\ expire[array[0]] <= expire[t]
  <2>1. PICK n \in Nat : n = cur_size
    BY <1>1 DEF HeapTypes
  <2>2. PICK S \in SUBSET HeapTimers : S = live
    BY <1>1 DEF HeapTypes
  <2>3. PICK x \in [HeapTimers -> Nat] : x = expire
    BY <1>1 DEF HeapTypes
  <2>4. PICK a : a = Full
    OBVIOUS
  <2>5. Places(a, n, S) /\ Heap(a, n, x, -1)
    BY <1>1, <1>9, <2>1, <2>2, <2>3, <2>4 DEF HeapInv, Shaped
  <2>6. \A t \in S : n > 0 /\ x[a[0]] <= x[t]
    <3>1. \A t \in S : n > 0
      BY <2>5 DEF Places
    <3> QED
      BY <2>5, <3>1, TopIsLeast
  <2>7. n > 0 => a[0] \in S /\ a[0] = array[0]
    <3>1. n > 0 => 0 \in 0 .. n - 1
      OBVIOUS
    <3>2. n > 0 => a[0] = array[0]
      BY <1>9, <2>1, <2>4, <3>1 DEF Full, H!At
    <3> QED
      BY <2>5, <3>1, <3>2 DEF Places
  <2> QED
    BY <2>1, <2>2, <2>3, <2>6, <2>7
\* The top leaves.
<1>10. ASSUME moving = NULL, build = -1, H!Pop, NEW h \in HeapTimers, h = array[0]
       PROVE  /\ h \in live /\ moment = [deadline EXCEPT ![h] = NULL]
              /\ UNCHANGED <<now, cur>>
  <2>1. /\ cur_size > 0 /\ live' = live \ {h} /\ cancelled' = cancelled \ {h}
        /\ expire' = [expire EXCEPT ![h] = 0] /\ UNCHANGED <<now, cur>>
    BY <1>10 DEF H!Pop
  <2>2. expire \in [HeapTimers -> Nat]
    BY <1>1 DEF HeapTypes
  <2>3. \A t \in HeapTimers : t # h =>
           /\ expire'[t] = expire[t]
           /\ t \in live' \ cancelled' <=> t \in live \ cancelled
    BY <2>1, <2>2
  <2>4. \A t \in HeapTimers : moment[t] = IF t = h THEN NULL ELSE deadline[t]
    BY <2>1, <2>3
  <2>5. moment = [deadline EXCEPT ![h] = NULL]
    BY <2>4
  <2> QED
    BY <1>9, <1>10, <2>1, <2>5
<1>11. CASE H!PopTimer
  <2>1. moving = NULL /\ build = -1 /\ H!Pop /\ cur = NULL /\ cur_size > 0
    BY <1>1, <1>11 DEF H!PopTimer, H!Ready, H!Pop, HeapTypes
  <2>2. PICK h \in HeapTimers : h = array[0]
    BY <1>1, <1>9, <2>1 DEF HeapTypes
  <2>3. H!Queue!Cancel(h)
    BY <1>10, <2>1, <2>2 DEF H!Queue!Cancel
  <2> QED
    BY <2>3 DEF H!Queue!QueueNext
<1>12. CASE H!TickFire
  <2>1. /\ moving = NULL /\ build = -1 /\ H!Pop /\ cur_size > 0
        /\ cur # NULL /\ expire[array[0]] <= cur
    BY <1>1, <1>12 DEF H!TickFire, H!TopIsDue, HeapInv, Percolation
  <2>2. PICK h \in HeapTimers : h = array[0]
    BY <1>1, <1>9, <2>1 DEF HeapTypes
  <2>3. /\ h \in live /\ moment = [deadline EXCEPT ![h] = NULL]
        /\ UNCHANGED <<now, cur>>
    BY <1>10, <2>1, <2>2
  <2>4. CASE h \in cancelled
    <3>1. moment = deadline
      BY <2>3, <2>4
    <3> QED
      BY <2>3, <3>1 DEF H!Queue!queueVars
  <2>5. CASE h \notin cancelled
    <3>1. \A t \in HeapTimers : expire[t] \in Nat /\ expire[t] # NULL
      BY <1>1 DEF HeapTypes
    <3>2. \A u \in HeapTimers : u \in live => expire[h] <= expire[u]
      BY <1>9, <2>1, <2>2
    <3>3. /\ deadline[h] # NULL /\ deadline[h] <= cur
          /\ \A u \in HeapTimers : deadline[u] # NULL => deadline[h] <= deadline[u]
      BY <2>1, <2>2, <2>3, <2>5, <3>1, <3>2
    <3>4. H!Queue!Fire(h)
      BY <2>1, <2>3, <3>3 DEF H!Queue!Fire, H!Queue!Waiting
    <3> QED
      BY <3>4 DEF H!Queue!QueueNext
  <2> QED
    BY <2>4, <2>5
<1>13. CASE H!TickEnd
  <2>1. /\ cur # NULL /\ cur' = NULL /\ moving = NULL /\ build = -1
        /\ cur_size > 0 => ~(expire[array[0]] <= cur)
        /\ UNCHANGED <<now, live, cancelled, expire>>
    BY <1>1, <1>13 DEF H!TickEnd, H!TopIsDue, HeapInv, Percolation
  <2>2. cur \in Nat /\ \A t \in HeapTimers : expire[t] \in Nat
    BY <1>1, <2>1 DEF HeapTypes
  <2>3. ASSUME NEW t \in HeapTimers, t \in live PROVE expire[t] > cur
    <3>1. cur_size > 0 /\ expire[array[0]] <= expire[t]
      BY <1>9, <2>1, <2>3
    <3>2. expire[array[0]] \in Nat
      BY <1>1, <1>9, <2>1, <2>2, <3>1 DEF HeapTypes
    <3> QED
      BY <2>1, <2>2, <3>1, <3>2
  <2>4. \A t \in H!Queue!Waiting : deadline[t] > cur
    BY <2>2, <2>3 DEF H!Queue!Waiting
  <2> QED
    BY <2>1, <2>4 DEF H!Queue!QueueNext, H!Queue!TickEnd
<1> QED
  BY <1>3, <1>4, <1>5, <1>6, <1>7, <1>8, <1>11, <1>12, <1>13
  DEF Next, ListStep, HeapStep, WheelStep, H!Next, H!Queue!QueueNext

\* tick() of the heap calls back exactly the timers that were due when it read
\* the time and were not deleted, earliest first: time_heap implements
\* TimerQueue, with a timer that del_timer only marks out of the queue at once.
THEOREM HeapImplementsQueue == Spec => HeapImplements
<1>1. Init => (container = "heap" => H!Queue!QueueInit)
  <2> SUFFICES ASSUME H!Init PROVE H!Queue!QueueInit
    BY DEF Init
  <2>1. HeapTypes
    BY InitHeap DEF HeapInv
  <2>2. cur = NULL
    BY DEF H!Init
  <2> QED
    BY <2>1, <2>2 DEF HeapTypes, H!Queue!QueueInit
<1> QED
  BY <1>1, InitHeapInvariant, NextHeapInvariant, HeapStepImplements, PTL
  DEF Spec, HeapImplements

-----------------------------------------------------------------------------
(* The wheel.  The inductive invariant has four parts: the types; the      *)
(* lists, LinkedWhereItSays, which includes that no timers form a circle   *)
(* beside a list; the count of rounds and slots, which inside tick() is a  *)
(* round ahead for the timers it has gone past, the whole slot at its end  *)
(* because there is no circle; and Punctual.                               *)

\* What % does to a sum of two slots (add_timer) and to the next slot (tick).
LEMMA SlotSum ==
    ASSUME NEW x \in Slots, NEW y \in Slots
    PROVE  /\ (x + y) % N = IF x + y < N THEN x + y ELSE x + y - N
           /\ (x + y) % N \in Slots
  <1>1. N \in Nat \ {0}
    BY WheelAssumption
  <1>2. CASE x + y < N
    BY <1>1, <1>2 DEF Slots
  <1>3. CASE x + y >= N
    <2>1. x + y = (x + y - N) + N /\ x + y - N \in 0 .. N - 1
      BY <1>1, <1>3 DEF Slots
    <2>2. (x + y) % N = x + y - N
      BY <1>1, <2>1
    <2> QED
      BY <1>1, <1>3, <2>1, <2>2 DEF Slots
  <1> QED
    BY <1>1, <1>2, <1>3 DEF Slots

\* The slot after s.
LEMMA TurnSlot ==
    ASSUME NEW s \in Slots
    PROVE  Turn(s) = (IF s = N - 1 THEN 0 ELSE s + 1) /\ Turn(s) \in Slots
  <1>1. N \in Nat \ {0}
    BY WheelAssumption
  <1>2. CASE s = N - 1
    <2>1. s + 1 = N
      BY <1>1, <1>2
    <2>2. N % N = 0
      BY <1>1
    <2> QED
      BY <1>1, <1>2, <2>1, <2>2 DEF Turn, Slots
  <1>3. CASE s # N - 1
    <2>1. s + 1 \in 0 .. N - 1
      BY <1>1, <1>3 DEF Slots
    <2> QED
      BY <1>1, <1>3, <2>1 DEF Turn, Slots
  <1> QED
    BY <1>2, <1>3

\* The rounds and the slots of a number of ticks make up that number.
LEMMA TicksSplit ==
    ASSUME NEW timeout \in Int, timeout >= 0
    PROVE  /\ Ticks(timeout) \in Nat
           /\ Rounds(Ticks(timeout)) \in Nat
           /\ Ticks(timeout) % N \in Slots
           /\ N * Rounds(Ticks(timeout)) + (Ticks(timeout) % N) = Ticks(timeout)
  <1>1. N \in Nat \ {0} /\ SI \in Nat \ {0}
    BY WheelAssumption
  <1>2. Ticks(timeout) \in Nat
    BY <1>1 DEF Ticks
  <1> DEFINE k == Ticks(timeout)
  <1>3. k \div N \in Nat /\ k % N \in 0 .. N - 1
    BY <1>1, <1>2
  <1>4. N * (k \div N) + (k % N) = k
    BY <1>1, <1>2
  <1> QED
    BY <1>2, <1>3, <1>4 DEF Rounds, Slots

-----------------------------------------------------------------------------

\* Only a step of the wheel changes it.
LEMMA StepOfWheel == [Next]_vars => [WheelNext]_wheelVars
  BY DEF Next, vars, ListStep, HeapStep, WheelStep

LEMMA InitType == WheelInit => TypeOK
  <1> SUFFICES ASSUME WheelInit PROVE TypeOK
    OBVIOUS
  <1>1. 0 \in Slots
    BY WheelAssumption DEF Slots
  <1>2. /\ rotation \in [Timers -> Nat] /\ time_slot \in [Timers -> Slots]
        /\ left \in [Timers -> Int]
    BY <1>1 DEF WheelInit
  <1>3. /\ slots \in [Slots -> Pointer] /\ prev \in [Timers -> Pointer]
        /\ next \in [Timers -> Pointer]
    BY DEF WheelInit, Pointer
  <1> QED
    BY <1>1, <1>2, <1>3 DEF WheelInit, TypeOK, Pointer

LEMMA UnlinkType ==
    ASSUME TypeOK, NEW t \in Timers, NEW s \in Slots, Unlink(t, s)
    PROVE  /\ slots' \in [Slots -> Pointer]
           /\ prev' \in [Timers -> Pointer] /\ next' \in [Timers -> Pointer]
  <1>1. next[t] \in Pointer /\ prev[t] \in Pointer /\ NULL \in Pointer
    BY DEF TypeOK, Pointer
  <1>2. CASE t = slots[s]
    BY <1>1, <1>2 DEF Unlink, SetPrev, TypeOK
  <1>3. CASE t # slots[s]
    BY <1>1, <1>3 DEF Unlink, SetPrev, TypeOK
  <1> QED
    BY <1>2, <1>3

LEMMA NextType == TypeOK /\ [WheelNext]_wheelVars => TypeOK'
  <1> SUFFICES ASSUME TypeOK, [WheelNext]_wheelVars PROVE TypeOK'
    OBVIOUS
  <1>1. ASSUME NEW t \in Timers, NEW timeout \in Timeouts, AddTimer(t, timeout)
        PROVE TypeOK'
    <2> DEFINE ts == (cur_slot + (Ticks(timeout) % N)) % N
    <2>1. timeout \in Int /\ timeout >= 0
      BY <1>1, WheelAssumption DEF AddTimer
    <2>2. /\ Ticks(timeout) \in Nat /\ Rounds(Ticks(timeout)) \in Nat
          /\ Ticks(timeout) % N \in Slots
      BY <2>1, TicksSplit
    <2>3. ts \in Slots
      BY <2>2, SlotSum DEF TypeOK
    <2>4. /\ slots' = [slots EXCEPT ![ts] = t]
          /\ next' = [next EXCEPT ![t] = slots[ts]]
          /\ prev' = [u \in Timers |-> IF u = t THEN NULL
                                       ELSE IF u = slots[ts] THEN t ELSE prev[u]]
      BY <1>1 DEF AddTimer
    <2>5. /\ allocated' = allocated \cup {t} /\ fired' = {}
          /\ rotation' = [rotation EXCEPT ![t] = Rounds(Ticks(timeout))]
          /\ time_slot' = [time_slot EXCEPT ![t] = ts]
          /\ left' = [left EXCEPT ![t] = Ticks(timeout)]
          /\ UNCHANGED <<cur_slot, ticking, tmp>>
      BY <1>1 DEF AddTimer
    <2> HIDE DEF ts
    <2>6. /\ slots' \in [Slots -> Pointer] /\ next' \in [Timers -> Pointer]
          /\ prev' \in [Timers -> Pointer]
      BY <2>3, <2>4 DEF TypeOK, Pointer
    <2>7. /\ rotation' \in [Timers -> Nat] /\ time_slot' \in [Timers -> Slots]
          /\ left' \in [Timers -> Int]
      BY <2>2, <2>3, <2>5 DEF TypeOK
    <2> QED
      BY <2>5, <2>6, <2>7 DEF TypeOK
  <1>2. ASSUME NEW t \in Timers, DelTimer(t) PROVE TypeOK'
    <2>1. Unlink(t, time_slot[t]) /\ time_slot[t] \in Slots
      BY <1>2 DEF DelTimer, TypeOK
    <2>2. /\ slots' \in [Slots -> Pointer]
          /\ prev' \in [Timers -> Pointer] /\ next' \in [Timers -> Pointer]
      BY <2>1, UnlinkType
    <2>3. /\ allocated' \subseteq Timers /\ fired' = {}
          /\ rotation' \in [Timers -> Nat] /\ left' \in [Timers -> Int]
          /\ UNCHANGED <<time_slot, cur_slot, ticking, tmp>>
      BY <1>2 DEF DelTimer, TypeOK
    <2> QED
      BY <2>2, <2>3 DEF TypeOK
  <1>3. CASE TickBegin
    BY <1>3 DEF TickBegin, TypeOK
  <1>4. CASE TickPass
    <2>1. tmp \in Timers /\ rotation[tmp] - 1 \in Nat /\ next[tmp] \in Pointer
      BY <1>4 DEF TickPass, TypeOK, Pointer
    <2> QED
      BY <1>4, <2>1 DEF TickPass, TypeOK
  <1>5. CASE TickFire
    <2>1. tmp \in Timers /\ Unlink(tmp, cur_slot) /\ next[tmp] \in Pointer
      BY <1>5 DEF TickFire, TypeOK, Pointer
    <2>2. /\ slots' \in [Slots -> Pointer]
          /\ prev' \in [Timers -> Pointer] /\ next' \in [Timers -> Pointer]
      BY <2>1, UnlinkType DEF TypeOK
    <2> QED
      BY <1>5, <2>1, <2>2 DEF TickFire, TypeOK
  <1>6. CASE TickEnd
    <2>1. cur_slot' \in Slots
      BY <1>6, TurnSlot DEF TickEnd, TypeOK
    <2>2. left' \in [Timers -> Int]
      BY <1>6 DEF TickEnd, TypeOK
    <2> QED
      BY <1>6, <2>1, <2>2 DEF TickEnd, TypeOK
  <1>7. CASE UNCHANGED wheelVars
    BY <1>7 DEF wheelVars, TypeOK
  <1> QED
    BY <1>1, <1>2, <1>3, <1>4, <1>5, <1>6, <1>7 DEF WheelNext

\* Types, for every number of slots, interval and set of timeouts
\* (wheel_timer.h: cur_slot stays in the wheel, rotation never goes below 0).
THEOREM WheelTypes == Spec => []TypeOK
  <1>1. Init => TypeOK
    BY InitType DEF Init
  <1> QED
    BY <1>1, StepOfWheel, NextType, PTL DEF Spec

-----------------------------------------------------------------------------
(* The lists.                                                              *)

Heads == \A s \in Slots :
            slots[s] # NULL => slots[s] \in allocated /\ time_slot[slots[s]] = s

NoCircle == \A S \in SUBSET allocated : S # {} => \E t \in S : prev[t] \notin S

Linked == Heads /\ (\A t \in allocated : Neighbours(t)) /\ NoCircle

\* What the pointers of an allocated timer say.
LEMMA Pointers ==
    ASSUME TypeOK, Linked, NEW t \in allocated
    PROVE  /\ t \in Timers /\ t # NULL /\ time_slot[t] \in Slots
           /\ prev[t] = NULL <=> t = slots[time_slot[t]]
           /\ prev[t] # NULL => /\ prev[t] \in allocated
                                /\ time_slot[prev[t]] = time_slot[t]
                                /\ next[prev[t]] = t
           /\ next[t] # NULL => /\ next[t] \in allocated
                                /\ time_slot[next[t]] = time_slot[t]
                                /\ prev[next[t]] = t
           /\ prev[t] # t /\ next[t] # t
  <1>1. Neighbours(t) /\ t \in Timers /\ t # NULL
    BY WheelAssumption DEF Linked, TypeOK
  <1>2. prev[t] # t
    <2>1. {t} \in SUBSET allocated /\ {t} # {}
      OBVIOUS
    <2>2. \E u \in {t} : prev[u] \notin {t}
      BY <2>1 DEF Linked, NoCircle
    <2> QED
      BY <2>2
  <1> QED
    BY <1>1, <1>2 DEF Neighbours, TypeOK

\* add_timer puts a timer in front of a list.
LEMMA LinkAdded ==
    ASSUME TypeOK, Linked, NEW t \in Timers, NEW timeout \in Timeouts,
           AddTimer(t, timeout)
    PROVE  Linked'
  <1> DEFINE ts == (cur_slot + (Ticks(timeout) % N)) % N
             h == slots[ts]
  <1>1. /\ t \notin allocated /\ allocated' = allocated \cup {t}
        /\ time_slot' = [time_slot EXCEPT ![t] = ts]
        /\ slots' = [slots EXCEPT ![ts] = t]
        /\ next' = [next EXCEPT ![t] = h]
        /\ prev' = [u \in Timers |-> IF u = t THEN NULL
                                     ELSE IF u = h THEN t ELSE prev[u]]
    BY DEF AddTimer
  <1>2. ts \in Slots
    <2>1. timeout \in Int /\ timeout >= 0
      BY WheelAssumption DEF AddTimer
    <2> QED
      BY <2>1, TicksSplit, SlotSum DEF TypeOK
  <1>3. h = slots[ts]
    OBVIOUS
  <1> HIDE DEF ts, h
  <1>4. h # NULL => h \in allocated /\ time_slot[h] = ts
    BY <1>2, <1>3 DEF Linked, Heads
  <1>5. t # NULL /\ h # t /\ NULL \notin Timers
    BY <1>1, <1>4, WheelAssumption
  <1>6. /\ time_slot'[t] = ts /\ prev'[t] = NULL /\ next'[t] = h
        /\ slots'[ts] = t
        /\ \A s \in Slots : s # ts => slots'[s] = slots[s]
        /\ \A u \in Timers : u # t => time_slot'[u] = time_slot[u] /\ next'[u] = next[u]
        /\ \A u \in Timers : u # t /\ u # h => prev'[u] = prev[u]
        /\ h # NULL => prev'[h] = t
    BY <1>1, <1>2, <1>4, <1>5 DEF TypeOK
  <1>7. Heads'
    <2> SUFFICES ASSUME NEW s \in Slots, slots'[s] # NULL
                 PROVE  slots'[s] \in allocated' /\ time_slot'[slots'[s]] = s
      BY DEF Heads
    <2>1. CASE s = ts
      BY <1>1, <1>6, <2>1
    <2>2. CASE s # ts
      <3>1. slots'[s] = slots[s] /\ slots[s] \in allocated /\ time_slot[slots[s]] = s
        BY <1>6, <2>2 DEF Linked, Heads
      <3> QED
        BY <1>1, <1>6, <3>1 DEF TypeOK
    <2> QED
      BY <2>1, <2>2
  <1>8. ASSUME NEW u \in allocated' PROVE Neighbours(u)'
    <2>1. CASE u = t
      <3>1. h # NULL => h \in allocated' /\ time_slot'[h] = ts /\ prev'[h] = t
        BY <1>1, <1>4, <1>5, <1>6 DEF TypeOK
      <3> QED
        BY <1>6, <2>1, <3>1 DEF Neighbours
    <2>2. CASE u # t
      <3>1. u \in allocated /\ u \in Timers
        BY <1>1, <2>2 DEF TypeOK
      <3>2. /\ time_slot[u] \in Slots
            /\ prev[u] = NULL <=> u = slots[time_slot[u]]
            /\ prev[u] # NULL => /\ prev[u] \in allocated
                                 /\ time_slot[prev[u]] = time_slot[u]
                                 /\ next[prev[u]] = u
            /\ next[u] # NULL => /\ next[u] \in allocated
                                 /\ time_slot[next[u]] = time_slot[u]
                                 /\ prev[next[u]] = u
        BY <3>1, Pointers
      <3>3. time_slot'[u] = time_slot[u] /\ next'[u] = next[u]
        BY <1>6, <2>2, <3>1
      <3>4. next[u] # NULL => /\ next[u] \in allocated' /\ next[u] # t /\ next[u] # h
                              /\ time_slot'[next[u]] = time_slot[u]
                              /\ prev'[next[u]] = u
        <4> SUFFICES ASSUME next[u] # NULL
                     PROVE  /\ next[u] \in allocated' /\ next[u] # t /\ next[u] # h
                            /\ time_slot'[next[u]] = time_slot[u]
                            /\ prev'[next[u]] = u
          OBVIOUS
        <4>1. next[u] \in allocated /\ next[u] \in Timers /\ next[u] # t
          BY <1>1, <3>2 DEF TypeOK
        <4>2. next[u] # h
          <5> SUFFICES ASSUME next[u] = h PROVE FALSE
            OBVIOUS
          <5>1. h \in allocated /\ time_slot[h] = ts
            BY <1>4
          <5>2. prev[h] = NULL
            BY <1>3, <5>1, Pointers
          <5>3. u # NULL
            BY <1>5, <3>1
          <5> QED
            BY <3>2, <5>2, <5>3
        <4> QED
          BY <1>1, <1>6, <3>2, <4>1, <4>2
      <3>5. CASE u = h
        <4>1. prev'[u] = t /\ t \in allocated' /\ time_slot[u] = ts
          BY <1>1, <1>4, <1>5, <1>6, <3>1, <3>5
        <4>2. next'[t] = u /\ time_slot'[t] = ts /\ slots'[ts] = t
          BY <1>6, <3>5
        <4> QED
          BY <1>5, <2>2, <3>3, <3>4, <4>1, <4>2 DEF Neighbours
      <3>6. CASE u # h
        <4>1. prev'[u] = prev[u]
          BY <1>6, <2>2, <3>1, <3>6
        <4>2. prev[u] = NULL <=> u = slots'[time_slot[u]]
          <5>1. CASE time_slot[u] = ts
            BY <1>3, <1>6, <2>2, <3>2, <3>6, <5>1
          <5>2. CASE time_slot[u] # ts
            BY <1>6, <3>2, <5>2
          <5> QED
            BY <5>1, <5>2
        <4>3. prev[u] # NULL => /\ prev[u] \in allocated' /\ prev[u] # t
                                /\ time_slot'[prev[u]] = time_slot[u]
                                /\ next'[prev[u]] = u
          BY <1>1, <1>6, <3>2 DEF TypeOK
        <4> QED
          BY <3>3, <3>4, <4>1, <4>2, <4>3 DEF Neighbours
      <3> QED
        BY <3>5, <3>6
    <2> QED
      BY <2>1, <2>2
  <1>9. NoCircle'
    <2> SUFFICES ASSUME NEW S \in SUBSET allocated', S # {}
                 PROVE  \E u \in S : prev'[u] \notin S
      BY DEF NoCircle
    <2>1. CASE t \in S
      BY <1>1, <1>5, <1>6, <2>1 DEF TypeOK
    <2>2. CASE t \notin S
      <3>1. S \in SUBSET allocated
        BY <1>1, <2>2
      <3>2. PICK u \in S : prev[u] \notin S
        BY <3>1 DEF Linked, NoCircle
      <3>3. prev'[u] = prev[u] \/ prev'[u] = t
        <4>1. u \in Timers /\ u # NULL /\ u # t
          BY <1>5, <2>2, <3>1, <3>2 DEF TypeOK
        <4> QED
          BY <1>6, <4>1
      <3> QED
        BY <2>2, <3>2, <3>3
    <2> QED
      BY <2>1, <2>2
  <1> QED
    BY <1>7, <1>8, <1>9 DEF Linked

\* A timer that leaves its list leaves the others linked.
LEMMA LinkUnlinked ==
    ASSUME TypeOK, Linked, NEW t \in allocated, Unlink(t, time_slot[t]),
           allocated' = allocated \ {t}, time_slot' = time_slot
    PROVE  Linked'
  <1> DEFINE s == time_slot[t]
             n == next[t]
             p == prev[t]
  <1>1. /\ t \in Timers /\ t # NULL /\ s \in Slots /\ NULL \notin Timers
        /\ p = NULL <=> t = slots[s]
        /\ p # NULL => p \in allocated /\ time_slot[p] = s /\ next[p] = t
        /\ n # NULL => n \in allocated /\ time_slot[n] = s /\ prev[n] = t
        /\ p # t /\ n # t
    BY Pointers, WheelAssumption
  <1>2. prev' = [u \in Timers |-> IF u = n THEN p ELSE prev[u]]
    BY <1>1 DEF Unlink, SetPrev
  <1>3. /\ p = NULL => slots' = [slots EXCEPT ![s] = n] /\ next' = next
        /\ p # NULL => slots' = slots /\ next' = [next EXCEPT ![p] = n]
    BY <1>1 DEF Unlink
  <1>4. s = time_slot[t] /\ n = next[t] /\ p = prev[t]
    OBVIOUS
  <1> HIDE DEF s, n, p
  <1>5. /\ \A r \in Slots : r # s => slots'[r] = slots[r]
        /\ slots'[s] = IF p = NULL THEN n ELSE slots[s]
        /\ \A u \in Timers : u # p => next'[u] = next[u]
        /\ p # NULL => next'[p] = n
        /\ \A u \in Timers : u # n => prev'[u] = prev[u]
        /\ n # NULL => prev'[n] = p
    <2>1. p # NULL => p \in Timers
      BY <1>1 DEF TypeOK
    <2>2. n # NULL => n \in Timers
      BY <1>1 DEF TypeOK
    <2> QED
      BY <1>1, <1>2, <1>3, <2>1, <2>2 DEF TypeOK
  <1>6. Heads'
    <2> SUFFICES ASSUME NEW r \in Slots, slots'[r] # NULL
                 PROVE  slots'[r] \in allocated' /\ time_slot'[slots'[r]] = r
      BY DEF Heads
    <2>1. CASE r = s /\ p = NULL
      BY <1>1, <1>5, <2>1
    <2>2. CASE r # s \/ p # NULL
      <3>1. slots'[r] = slots[r]
        BY <1>5, <2>2
      <3>2. slots[r] \in allocated /\ time_slot[slots[r]] = r
        BY <3>1 DEF Linked, Heads
      <3>3. slots[r] # t
        BY <1>1, <1>4, <2>2, <3>2
      <3> QED
        BY <3>1, <3>2, <3>3
    <2> QED
      BY <2>1, <2>2
  <1>7. ASSUME NEW u \in allocated' PROVE Neighbours(u)'
    <2>1. u \in allocated /\ u # t /\ time_slot'[u] = time_slot[u]
      OBVIOUS
    <2>2. /\ u \in Timers /\ u # NULL /\ time_slot[u] \in Slots
          /\ prev[u] = NULL <=> u = slots[time_slot[u]]
          /\ prev[u] # NULL => /\ prev[u] \in allocated
                               /\ time_slot[prev[u]] = time_slot[u]
                               /\ next[prev[u]] = u
          /\ next[u] # NULL => /\ next[u] \in allocated
                               /\ time_slot[next[u]] = time_slot[u]
                               /\ prev[next[u]] = u
      BY <2>1, Pointers
    <2>3. prev'[u] = NULL <=> u = slots'[time_slot'[u]]
      <3>1. CASE u = n
        BY <1>1, <1>5, <2>1, <2>2, <3>1
      <3>2. CASE u # n
        BY <1>1, <1>5, <2>1, <2>2, <3>2
      <3> QED
        BY <3>1, <3>2
    <2>4. prev'[u] # NULL => /\ prev'[u] \in allocated'
                             /\ time_slot'[prev'[u]] = time_slot'[u]
                             /\ next'[prev'[u]] = u
      <3>1. CASE u = n
        BY <1>1, <1>5, <2>1, <2>2, <3>1
      <3>2. CASE u # n
        <4> SUFFICES ASSUME prev[u] # NULL
                     PROVE  /\ prev[u] \in allocated'
                            /\ time_slot'[prev[u]] = time_slot'[u]
                            /\ next'[prev[u]] = u
          BY <1>5, <2>2, <3>2
        <4>1. prev[u] # t
          BY <1>4, <2>2, <3>2
        <4>2. prev[u] # p
          BY <1>1, <2>1, <2>2
        <4>3. prev[u] \in Timers
          BY <2>2 DEF TypeOK
        <4> QED
          BY <1>5, <2>1, <2>2, <4>1, <4>2, <4>3
      <3> QED
        BY <3>1, <3>2
    <2>5. next'[u] # NULL => /\ next'[u] \in allocated'
                             /\ time_slot'[next'[u]] = time_slot'[u]
                             /\ prev'[next'[u]] = u
      <3>1. CASE u = p
        BY <1>1, <1>5, <2>1, <2>2, <3>1
      <3>2. CASE u # p
        <4> SUFFICES ASSUME next[u] # NULL
                     PROVE  /\ next[u] \in allocated'
                            /\ time_slot'[next[u]] = time_slot'[u]
                            /\ prev'[next[u]] = u
          BY <1>5, <2>2, <3>2
        <4>1. next[u] # t
          BY <1>4, <2>2, <3>2
        <4>2. next[u] # n
          BY <1>1, <2>1, <2>2
        <4>3. next[u] \in Timers
          BY <2>2 DEF TypeOK
        <4> QED
          BY <1>5, <2>1, <2>2, <4>1, <4>2, <4>3
      <3> QED
        BY <3>1, <3>2
    <2> QED
      BY <2>3, <2>4, <2>5 DEF Neighbours
  <1>8. NoCircle'
    <2> SUFFICES ASSUME NEW S \in SUBSET allocated', S # {}
                 PROVE  \E u \in S : prev'[u] \notin S
      BY DEF NoCircle
    <2>1. S \in SUBSET allocated /\ t \notin S
      OBVIOUS
    <2>2. CASE p \in S
      <3>1. S \cup {t} \in SUBSET allocated /\ S \cup {t} # {}
        BY <2>1
      <3>2. PICK u \in S \cup {t} : prev[u] \notin S \cup {t}
        BY <3>1 DEF Linked, NoCircle
      <3>3. u # t /\ u # n
        <4>1. u # t
          BY <1>4, <2>2, <3>2
        <4>2. u # NULL
          BY <1>1, <3>1, <3>2 DEF TypeOK
        <4> QED
          BY <1>1, <3>2, <4>1, <4>2
      <3>4. prev'[u] = prev[u]
        BY <1>5, <2>1, <3>2, <3>3 DEF TypeOK
      <3> QED
        BY <3>2, <3>3, <3>4
    <2>3. CASE p \notin S
      <3>1. PICK u \in S : prev[u] \notin S
        BY <2>1 DEF Linked, NoCircle
      <3>2. prev'[u] = prev[u] \/ prev'[u] = p
        BY <1>1, <1>5, <2>1, <3>1 DEF TypeOK
      <3> QED
        BY <2>3, <3>1, <3>2
    <2> QED
      BY <2>2, <2>3
  <1> QED
    BY <1>6, <1>7, <1>8 DEF Linked

LEMMA InitLinked == WheelInit => LinkedWhereItSays
  BY DEF WheelInit, LinkedWhereItSays

\* The timer tick() goes on from.
OnTheWay == ticking /\ tmp # NULL => tmp \in allocated /\ time_slot[tmp] = cur_slot

LEMMA LinkedParts == LinkedWhereItSays <=> Linked /\ OnTheWay
  BY DEF LinkedWhereItSays, Linked, Heads, NoCircle, OnTheWay

LEMMA SameLinks ==
    ASSUME Linked, UNCHANGED <<allocated, time_slot, slots, prev, next>>
    PROVE  Linked'
  BY DEF Linked, Heads, NoCircle, Neighbours

\* The timer that tick() has reached, and where it goes on.
LEMMA Reached ==
    ASSUME TypeOK, Linked, OnTheWay, ticking, tmp # NULL
    PROVE  /\ tmp \in allocated /\ tmp \in Timers /\ time_slot[tmp] = cur_slot
           /\ next[tmp] # tmp
           /\ next[tmp] # NULL => /\ next[tmp] \in allocated
                                  /\ time_slot[next[tmp]] = cur_slot
                                  /\ prev[next[tmp]] = tmp
  BY Pointers DEF OnTheWay

LEMMA NextLinked ==
    TypeOK /\ LinkedWhereItSays /\ [WheelNext]_wheelVars => LinkedWhereItSays'
  <1> SUFFICES ASSUME TypeOK, Linked, OnTheWay, [WheelNext]_wheelVars
               PROVE  Linked' /\ OnTheWay'
    <2>1. LinkedWhereItSays' <=> Linked' /\ OnTheWay'
      BY LinkedParts DEF LinkedWhereItSays, Linked, Heads, NoCircle, OnTheWay
    <2> QED
      BY <2>1, LinkedParts
  <1>1. ASSUME NEW t \in Timers, NEW timeout \in Timeouts, AddTimer(t, timeout)
        PROVE Linked' /\ OnTheWay'
    BY <1>1, LinkAdded DEF AddTimer, OnTheWay
  <1>2. ASSUME NEW t \in Timers, DelTimer(t) PROVE Linked' /\ OnTheWay'
    BY <1>2, LinkUnlinked DEF DelTimer, OnTheWay
  <1>3. CASE TickBegin
    <2>1. OnTheWay'
      BY <1>3 DEF TickBegin, OnTheWay, Linked, Heads, TypeOK
    <2> QED
      BY <1>3, <2>1, SameLinks DEF TickBegin
  <1>4. CASE TickPass
    <2>1. OnTheWay'
      BY <1>4, Reached DEF TickPass, OnTheWay
    <2> QED
      BY <1>4, <2>1, SameLinks DEF TickPass
  <1>5. CASE TickFire
    <2>1. /\ ticking /\ tmp # NULL /\ Unlink(tmp, cur_slot)
          /\ allocated' = allocated \ {tmp} /\ tmp' = next[tmp]
          /\ UNCHANGED <<time_slot, cur_slot, ticking>>
      BY <1>5 DEF TickFire
    <2>2. tmp \in allocated /\ Unlink(tmp, time_slot[tmp])
      BY <2>1, Reached
    <2>3. Linked'
      BY <2>1, <2>2, LinkUnlinked
    <2>4. OnTheWay'
      BY <2>1, Reached DEF OnTheWay
    <2> QED
      BY <2>3, <2>4
  <1>6. CASE TickEnd
    BY <1>6, SameLinks DEF TickEnd, OnTheWay
  <1>7. CASE UNCHANGED wheelVars
    BY <1>7, SameLinks DEF wheelVars, OnTheWay
  <1> QED
    BY <1>1, <1>2, <1>3, <1>4, <1>5, <1>6, <1>7 DEF WheelNext

\* del_timer and tick() always find what they follow: the lists of the slots
\* are well linked, without circles, hold exactly the timers that name the slot,
\* and lead to no deleted timer (wheel_timer.h:103-122, 142-163).
THEOREM TimersAreLinked == Spec => []LinkedWhereItSays
  <1>1. Init => TypeOK /\ LinkedWhereItSays
    BY InitType, InitLinked DEF Init
  <1> QED
    BY <1>1, StepOfWheel, NextType, NextLinked, PTL DEF Spec

-----------------------------------------------------------------------------
(* The count.  P are the timers that the tick() under way has gone past.   *)

\* The timers of P come before tmp in the list of the current slot, and all
\* that do are in P.
Behind(P) ==
    /\ P \subseteq allocated
    /\ ~ticking => P = {}
    /\ tmp \notin P
    /\ \A t \in P : time_slot[t] = cur_slot
    /\ \A t \in P : prev[t] \in P \cup {NULL} /\ next[t] \in P \cup {tmp}
    /\ ticking => slots[cur_slot] \in P \cup {tmp}
    /\ ticking /\ tmp # NULL => prev[tmp] \in P \cup {NULL}

\* A timer behind tmp has its next round before it.
Ahead(P) ==
    \A t \in allocated :
        N * (IF t \in P THEN rotation[t] + 1 ELSE rotation[t]) + Distance(time_slot[t])
          = left[t]

Counted == \E P \in SUBSET Timers : Behind(P) /\ Ahead(P)

LEMMA InitCounted == WheelInit => Counted
  <1> SUFFICES ASSUME WheelInit PROVE Behind({}) /\ Ahead({})
    BY DEF Counted
  <1> QED
    BY DEF WheelInit, Behind, Ahead

LEMMA CountedCounts == TypeOK /\ Counted => RotationCounts
  <1> SUFFICES ASSUME Counted, ~ticking, NEW t \in allocated
               PROVE  N * rotation[t] + Distance(time_slot[t]) = left[t]
    BY DEF RotationCounts
  <1>1. PICK P \in SUBSET Timers : Behind(P) /\ Ahead(P)
    BY DEF Counted
  <1>2. t \notin P
    BY <1>1 DEF Behind
  <1> QED
    BY <1>1, <1>2 DEF Ahead

\* No timer has a negative number of ticks left.
LEMMA CountedLeft == TypeOK /\ Counted => \A t \in allocated : left[t] >= 0
  <1> SUFFICES ASSUME TypeOK, Counted, NEW t \in allocated PROVE left[t] >= 0
    OBVIOUS
  <1>1. PICK P \in SUBSET Timers : Behind(P) /\ Ahead(P)
    BY DEF Counted
  <1>2. PICK r \in Nat : N * r + Distance(time_slot[t]) = left[t]
    <2>1. rotation[t] \in Nat
      BY DEF TypeOK
    <2>2. CASE t \in P
      BY <1>1, <2>1, <2>2 DEF Ahead
    <2>3. CASE t \notin P
      BY <1>1, <2>1, <2>3 DEF Ahead
    <2> QED
      BY <2>2, <2>3
  <1>3. N \in Nat \ {0}
    BY WheelAssumption
  <1>4. Distance(time_slot[t]) \in Nat
    BY <1>3 DEF TypeOK, Distance, Slots
  <1>5. N * r \in Nat
    BY <1>3
  <1> QED
    BY <1>2, <1>4, <1>5

LEMMA AddCounted ==
    ASSUME TypeOK, Linked, Counted, NEW t \in Timers, NEW timeout \in Timeouts,
           AddTimer(t, timeout)
    PROVE  Counted'
  <1> DEFINE k == Ticks(timeout)
             ts == (cur_slot + (k % N)) % N
  <1>0. N \in Nat \ {0} /\ ~ticking /\ NULL \notin Timers
    BY WheelAssumption DEF AddTimer
  <1>1. PICK P \in SUBSET Timers : Behind(P) /\ Ahead(P)
    BY DEF Counted
  <1>2. P = {}
    BY <1>0, <1>1 DEF Behind
  <1>3. /\ k \in Nat /\ Rounds(k) \in Nat /\ k % N \in Slots
        /\ N * Rounds(k) + (k % N) = k
    <2>1. timeout \in Int /\ timeout >= 0
      BY WheelAssumption DEF AddTimer
    <2> QED
      BY <2>1, TicksSplit
  <1>4. ts = IF cur_slot + (k % N) < N THEN cur_slot + (k % N)
             ELSE cur_slot + (k % N) - N
    BY <1>3, SlotSum DEF TypeOK
  <1>5. /\ allocated' = allocated \cup {t} /\ t \notin allocated
        /\ UNCHANGED <<cur_slot, ticking, tmp>>
        /\ rotation' = [rotation EXCEPT ![t] = Rounds(k)]
        /\ time_slot' = [time_slot EXCEPT ![t] = ts]
        /\ left' = [left EXCEPT ![t] = k]
    BY DEF AddTimer
  <1>6. Behind({})'
    BY <1>0, <1>5 DEF Behind
  <1>7. Ahead({})'
    <2> SUFFICES ASSUME NEW u \in allocated'
                 PROVE  N * rotation'[u] + Distance(time_slot[u])' = left'[u]
      BY DEF Ahead
    <2>4. CASE u = t
      <3>1. rotation'[u] = Rounds(k) /\ time_slot'[u] = ts /\ left'[u] = k
        BY <1>5, <2>4 DEF TypeOK
      <3>2. Distance(time_slot[u])' = k % N
        <4> DEFINE r == k % N
        <4>1. r \in 0 .. N - 1 /\ cur_slot \in 0 .. N - 1
          BY <1>3 DEF TypeOK, Slots
        <4>2. ts = IF cur_slot + r < N THEN cur_slot + r ELSE cur_slot + r - N
          BY <1>4
        <4>3. time_slot'[u] = ts /\ cur_slot' = cur_slot
          BY <1>5, <3>1
        <4> HIDE DEF ts, r
        <4>4. Distance(time_slot[u])' = r
          BY <1>0, <4>1, <4>2, <4>3 DEF Distance
        <4> QED
          BY <4>4 DEF r
      <3> HIDE DEF k
      <3> QED
        BY <1>3, <3>1, <3>2
    <2>5. CASE u # t
      <3>1. /\ u \in allocated /\ rotation'[u] = rotation[u]
            /\ time_slot'[u] = time_slot[u] /\ left'[u] = left[u]
        BY <1>5, <2>5 DEF TypeOK
      <3> QED
        BY <1>1, <1>2, <1>5, <3>1 DEF Ahead, Distance
    <2> QED
      BY <2>4, <2>5
  <1> QED
    BY <1>6, <1>7 DEF Counted

LEMMA DelCounted ==
    ASSUME TypeOK, Counted, NEW t \in Timers, DelTimer(t)
    PROVE  Counted'
  <1>1. PICK P \in SUBSET Timers : Behind(P) /\ Ahead(P)
    BY DEF Counted
  <1>2. P = {} /\ ~ticking /\ NULL \notin Timers
    BY <1>1, WheelAssumption DEF Behind, DelTimer
  <1>3. Behind({})'
    BY <1>2 DEF Behind, DelTimer
  <1>4. Ahead({})'
    <2> SUFFICES ASSUME NEW u \in allocated'
                 PROVE  N * rotation'[u] + Distance(time_slot[u])' = left'[u]
      BY DEF Ahead
    <2>1. /\ u \in allocated /\ rotation'[u] = rotation[u] /\ left'[u] = left[u]
          /\ time_slot' = time_slot /\ cur_slot' = cur_slot
      BY DEF DelTimer, TypeOK
    <2> QED
      BY <1>1, <1>2, <2>1 DEF Ahead, Distance
  <1> QED
    BY <1>3, <1>4 DEF Counted

LEMMA BeginCounted ==
    ASSUME TypeOK, Linked, Counted, TickBegin
    PROVE  Counted'
  <1>1. PICK P \in SUBSET Timers : Behind(P) /\ Ahead(P)
    BY DEF Counted
  <1>2. P = {} /\ NULL \notin Timers
    BY <1>1, WheelAssumption DEF Behind, TickBegin
  <1>3. /\ tmp' = slots[cur_slot] /\ ticking'
        /\ UNCHANGED <<allocated, rotation, time_slot, slots, prev, next, cur_slot, left>>
    BY DEF TickBegin
  <1>4. tmp' # NULL => prev[tmp'] = NULL
    <2> SUFFICES ASSUME tmp' # NULL PROVE prev[tmp'] = NULL
      OBVIOUS
    <2>1. tmp' \in allocated /\ time_slot[tmp'] = cur_slot
      BY <1>3 DEF Linked, Heads, TypeOK
    <2>2. Neighbours(tmp')
      BY <2>1 DEF Linked
    <2> QED
      BY <1>3, <2>1, <2>2 DEF Neighbours
  <1>5. Behind({})'
    BY <1>3, <1>4 DEF Behind
  <1>6. Ahead({})'
    BY <1>1, <1>2, <1>3 DEF Ahead, Distance
  <1> QED
    BY <1>5, <1>6 DEF Counted

\* tick() goes on: what comes next is not behind it.
LEMMA GoesOn ==
    ASSUME TypeOK, Linked, OnTheWay, ticking, tmp # NULL,
           NEW P \in SUBSET Timers, Behind(P)
    PROVE  next[tmp] \notin P \cup {tmp}
  <1>1. /\ next[tmp] # tmp /\ tmp \in Timers
        /\ next[tmp] # NULL => prev[next[tmp]] = tmp
    BY Reached
  <1>2. NULL \notin P
    BY WheelAssumption
  <1>3. \A t \in P : prev[t] \in P \cup {NULL} /\ prev[t] # tmp
    BY DEF Behind
  <1> QED
    BY <1>1, <1>2, <1>3

LEMMA PassCounted ==
    ASSUME TypeOK, Linked, OnTheWay, Counted, TickPass
    PROVE  Counted'
  <1>0. N \in Nat \ {0} /\ NULL \notin Timers
    BY WheelAssumption
  <1>1. PICK P \in SUBSET Timers : Behind(P) /\ Ahead(P)
    BY DEF Counted
  <1>2. /\ ticking /\ tmp # NULL /\ rotation[tmp] > 0
        /\ rotation' = [rotation EXCEPT ![tmp] = @ - 1]
        /\ tmp' = next[tmp] /\ ticking'
        /\ UNCHANGED <<allocated, time_slot, slots, prev, next, cur_slot, left>>
    BY DEF TickPass
  <1>3. /\ tmp \in allocated /\ tmp \in Timers /\ time_slot[tmp] = cur_slot
        /\ next[tmp] # NULL => prev[next[tmp]] = tmp
    BY <1>2, Reached
  <1>7. PICK Q \in SUBSET Timers : Q = P \cup {tmp}
    BY <1>3
  <1>4. next[tmp] \notin Q
    BY <1>1, <1>2, <1>7, GoesOn
  <1>5. Behind(Q)'
    <2>1. /\ P \subseteq allocated /\ tmp \notin P
          /\ \A t \in P : time_slot[t] = cur_slot
          /\ \A t \in P : prev[t] \in P \cup {NULL} /\ next[t] \in P \cup {tmp}
          /\ slots[cur_slot] \in P \cup {tmp}
          /\ prev[tmp] \in P \cup {NULL}
      BY <1>1, <1>2 DEF Behind
    <2>2. Q \subseteq allocated /\ \A t \in Q : time_slot[t] = cur_slot
      BY <1>3, <1>7, <2>1
    <2>3. \A t \in Q : prev[t] \in Q \cup {NULL} /\ next[t] \in Q \cup {tmp'}
      BY <1>2, <1>7, <2>1
    <2>4. slots[cur_slot] \in Q /\ (tmp' # NULL => prev[tmp'] \in Q)
      BY <1>2, <1>3, <1>7, <2>1
    <2> QED
      BY <1>2, <1>4, <2>2, <2>3, <2>4 DEF Behind
  <1>6. Ahead(Q)'
    <2> SUFFICES ASSUME NEW t \in allocated
                 PROVE  N * (IF t \in Q THEN rotation'[t] + 1 ELSE rotation'[t])
                          + Distance(time_slot[t]) = left[t]
      BY <1>2 DEF Ahead, Distance
    <2>1. N * (IF t \in P THEN rotation[t] + 1 ELSE rotation[t])
            + Distance(time_slot[t]) = left[t]
      BY <1>1 DEF Ahead
    <2>2. CASE t = tmp
      <3>1. t \notin P /\ t \in Q
        BY <1>1, <1>7, <2>2 DEF Behind
      <3>2. rotation'[t] + 1 = rotation[t]
        BY <1>2, <1>3, <2>2 DEF TypeOK
      <3> QED
        BY <2>1, <3>1, <3>2
    <2>3. CASE t # tmp
      <3>1. rotation'[t] = rotation[t] /\ (t \in Q <=> t \in P)
        BY <1>2, <1>3, <1>7, <2>3 DEF TypeOK
      <3> QED
        BY <2>1, <3>1
    <2> QED
      BY <2>2, <2>3
  <1> QED
    BY <1>5, <1>6 DEF Counted

\* The timer that tick() calls back has no tick left.
LEMMA FiresNow ==
    ASSUME TypeOK, Linked, OnTheWay, Counted, TickFire
    PROVE  left[tmp] = 0
  <1>1. PICK P \in SUBSET Timers : Behind(P) /\ Ahead(P)
    BY DEF Counted
  <1>2. /\ tmp \in allocated /\ tmp \in Timers /\ time_slot[tmp] = cur_slot
    BY Reached DEF TickFire
  <1>3. tmp \notin P /\ rotation[tmp] = 0
    BY <1>1, <1>2 DEF Behind, TickFire, TypeOK
  <1>4. Distance(time_slot[tmp]) = 0
    BY <1>2 DEF Distance, TypeOK, Slots
  <1>5. N * rotation[tmp] + Distance(time_slot[tmp]) = left[tmp]
    BY <1>1, <1>2, <1>3 DEF Ahead
  <1>6. N * 0 = 0
    BY WheelAssumption
  <1> QED
    BY <1>3, <1>4, <1>5, <1>6

LEMMA FireCounted ==
    ASSUME TypeOK, Linked, OnTheWay, Counted, TickFire
    PROVE  Counted'
  <1>0. N \in Nat \ {0} /\ NULL \notin Timers
    BY WheelAssumption
  <1>1. PICK P \in SUBSET Timers : Behind(P) /\ Ahead(P)
    BY DEF Counted
  <1> DEFINE n == next[tmp]
             p == prev[tmp]
  <1>2. /\ ticking /\ tmp # NULL /\ Unlink(tmp, cur_slot)
        /\ allocated' = allocated \ {tmp}
        /\ tmp' = n /\ ticking'
        /\ UNCHANGED <<rotation, time_slot, cur_slot, left>>
    BY DEF TickFire
  <1>3. /\ tmp \in allocated /\ tmp \in Timers /\ time_slot[tmp] = cur_slot
        /\ p = NULL <=> tmp = slots[cur_slot]
        /\ n # NULL => n \in Timers /\ prev[n] = tmp
        /\ n # tmp
    BY <1>2, Reached, Pointers DEF TypeOK
  <1>4. n \notin P
    BY <1>1, <1>2, GoesOn
  <1>5. /\ P \subseteq allocated /\ tmp \notin P
        /\ \A t \in P : time_slot[t] = cur_slot
        /\ \A t \in P : prev[t] \in P \cup {NULL} /\ next[t] \in P \cup {tmp}
        /\ slots[cur_slot] \in P \cup {tmp}
        /\ p \in P \cup {NULL}
    BY <1>1, <1>2 DEF Behind
  <1>6. \A t \in P : next[t] = tmp => t = p
    <2> SUFFICES ASSUME NEW t \in P, next[t] = tmp PROVE t = p
      OBVIOUS
    <2>1. t \in allocated
      BY <1>5
    <2> QED
      BY <1>2, <2>1, Pointers
  <1>7. /\ prev' = [u \in Timers |-> IF u = n THEN p ELSE prev[u]]
        /\ p = NULL => slots' = [slots EXCEPT ![cur_slot] = n] /\ next' = next
        /\ p # NULL => slots' = slots /\ next' = [next EXCEPT ![p] = n]
    BY <1>2, <1>3 DEF Unlink, SetPrev
  <1> HIDE DEF n, p
  <1>8. Behind(P)'
    <2>1. P \subseteq allocated' /\ tmp' \notin P
      BY <1>2, <1>4, <1>5
    <2>2. \A t \in P : prev'[t] \in P \cup {NULL}
      BY <1>4, <1>5, <1>7
    <2>3. \A t \in P : next'[t] \in P \cup {n}
      <3>1. CASE p = NULL
        <4>1. \A t \in P : t # p
          BY <1>0, <3>1
        <4> QED
          BY <1>5, <1>6, <1>7, <3>1, <4>1
      <3>2. CASE p # NULL
        <4> SUFFICES ASSUME NEW t \in P PROVE next'[t] \in P \cup {n}
          OBVIOUS
        <4>1. CASE t = p
          BY <1>7, <3>2, <4>1 DEF TypeOK
        <4>2. CASE t # p
          BY <1>5, <1>6, <1>7, <3>2, <4>2 DEF TypeOK
        <4> QED
          BY <4>1, <4>2
      <3> QED
        BY <3>1, <3>2
    <2>4. slots'[cur_slot] \in P \cup {n}
      <3>1. CASE p = NULL
        BY <1>7, <3>1 DEF TypeOK
      <3>2. CASE p # NULL
        BY <1>3, <1>5, <1>7, <3>2
      <3> QED
        BY <3>1, <3>2
    <2>5. n # NULL => prev'[n] \in P \cup {NULL}
      BY <1>3, <1>5, <1>7
    <2> QED
      BY <1>2, <1>5, <2>1, <2>2, <2>3, <2>4, <2>5 DEF Behind
  <1>9. Ahead(P)'
    BY <1>1, <1>2 DEF Ahead, Distance
  <1> QED
    BY <1>8, <1>9 DEF Counted

\* At the end of the list everyone of the slot is behind: those who are not
\* would be a circle.
LEMMA AllBehind ==
    ASSUME TypeOK, Linked, ticking, tmp = NULL,
           NEW P \in SUBSET Timers, Behind(P), NEW t \in allocated
    PROVE  t \in P <=> time_slot[t] = cur_slot
  <1>1. ASSUME t \in P PROVE time_slot[t] = cur_slot
    BY <1>1 DEF Behind
  <1>2. ASSUME time_slot[t] = cur_slot, t \notin P PROVE FALSE
    <2> DEFINE S == {u \in allocated : time_slot[u] = cur_slot /\ u \notin P}
    <2>1. S \in SUBSET allocated /\ S # {}
      BY <1>2
    <2>2. PICK u \in S : prev[u] \notin S
      <3> HIDE DEF S
      <3> QED
        BY <2>1 DEF Linked, NoCircle
    <2>3. /\ u \in allocated /\ time_slot[u] = cur_slot /\ u \notin P /\ u # NULL
          /\ prev[u] = NULL <=> u = slots[cur_slot]
          /\ prev[u] # NULL => /\ prev[u] \in allocated
                               /\ time_slot[prev[u]] = cur_slot
                               /\ next[prev[u]] = u
      BY <2>2, Pointers
    <2>4. CASE prev[u] = NULL
      BY <2>3, <2>4 DEF Behind
    <2>5. CASE prev[u] # NULL
      <3>1. prev[u] \in P
        BY <2>2, <2>3, <2>5
      <3> QED
        BY <2>3, <2>5, <3>1 DEF Behind
    <2> QED
      BY <2>4, <2>5
  <1> QED
    BY <1>1, <1>2

LEMMA EndCounted ==
    ASSUME TypeOK, Linked, Counted, TickEnd
    PROVE  Counted'
  <1>0. N \in Nat \ {0} /\ NULL \notin Timers
    BY WheelAssumption
  <1>1. PICK P \in SUBSET Timers : Behind(P) /\ Ahead(P)
    BY DEF Counted
  <1>2. /\ ticking /\ tmp = NULL /\ ~ticking' /\ tmp' = NULL
        /\ cur_slot' = Turn(cur_slot)
        /\ left' = [t \in Timers |-> IF t \in allocated THEN left[t] - 1 ELSE left[t]]
        /\ UNCHANGED <<allocated, rotation, time_slot>>
    BY DEF TickEnd
  <1>3. Behind({})'
    BY <1>2 DEF Behind
  <1>4. Ahead({})'
    <2> SUFFICES ASSUME NEW t \in allocated
                 PROVE  N * rotation[t] + Distance(time_slot[t])' = left'[t]
      BY <1>2 DEF Ahead
    <2>1. /\ left'[t] = left[t] - 1 /\ left[t] \in Int /\ rotation[t] \in Nat
          /\ time_slot[t] \in 0 .. N - 1 /\ cur_slot \in 0 .. N - 1
          /\ time_slot'[t] = time_slot[t]
      BY <1>2 DEF TypeOK, Slots
    <2>2. cur_slot' = IF cur_slot = N - 1 THEN 0 ELSE cur_slot + 1
      BY <1>2, TurnSlot DEF TypeOK
    <2>3. t \in P <=> time_slot[t] = cur_slot
      BY <1>1, <1>2, AllBehind
    <2>4. N * (IF t \in P THEN rotation[t] + 1 ELSE rotation[t])
            + Distance(time_slot[t]) = left[t]
      BY <1>1 DEF Ahead
    <2>5. N * rotation[t] \in Int
      BY <1>0, <2>1
    <2>6. CASE time_slot[t] = cur_slot
      <3>1. Distance(time_slot[t]) = 0 /\ Distance(time_slot[t])' = N - 1
        BY <1>0, <2>1, <2>2, <2>6 DEF Distance
      <3>2. N * (rotation[t] + 1) = N * rotation[t] + N
        BY <1>0, <2>1
      <3> QED
        BY <1>0, <2>1, <2>3, <2>4, <2>5, <2>6, <3>1, <3>2
    <2>7. CASE time_slot[t] # cur_slot
      <3>1. /\ Distance(time_slot[t])' = Distance(time_slot[t]) - 1
            /\ Distance(time_slot[t]) \in Int
        BY <1>0, <2>1, <2>2, <2>7 DEF Distance
      <3> QED
        BY <2>1, <2>3, <2>4, <2>5, <2>7, <3>1
    <2> QED
      BY <2>6, <2>7
  <1> QED
    BY <1>3, <1>4 DEF Counted

LEMMA NextCounted ==
    TypeOK /\ LinkedWhereItSays /\ Counted /\ [WheelNext]_wheelVars => Counted'
  <1> SUFFICES ASSUME TypeOK, Linked, OnTheWay, Counted, [WheelNext]_wheelVars
               PROVE  Counted'
    BY LinkedParts
  <1>1. ASSUME NEW t \in Timers, NEW timeout \in Timeouts, AddTimer(t, timeout)
        PROVE Counted'
    BY <1>1, AddCounted
  <1>2. ASSUME NEW t \in Timers, DelTimer(t) PROVE Counted'
    BY <1>2, DelCounted
  <1>3. CASE UNCHANGED wheelVars
    BY <1>3 DEF wheelVars, Counted, Behind, Ahead, Distance
  <1> QED
    BY <1>1, <1>2, <1>3, BeginCounted, PassCounted, FireCounted, EndCounted
    DEF WheelNext

\* Rounds and slots count the ticks that are left, for every N and SI, whenever
\* no tick() is under way (wheel_timer.h:75 and 77 against the walk of tick).
THEOREM RotationsCountDown == Spec => []RotationCounts
  <1>1. Init => TypeOK /\ LinkedWhereItSays /\ Counted
    BY InitType, InitLinked, InitCounted DEF Init
  <1> QED
    BY <1>1, StepOfWheel, NextType, NextLinked, NextCounted, CountedCounts, PTL
       DEF Spec

-----------------------------------------------------------------------------

\* The second half of Punctual is what the count says.
FiredNow == \A t \in fired : left[t] = 0

LEMMA NextFired ==
    TypeOK /\ LinkedWhereItSays /\ Counted /\ FiredNow /\ [WheelNext]_wheelVars
      => FiredNow'
  <1> SUFFICES ASSUME TypeOK, Linked, OnTheWay, Counted, FiredNow,
                      [WheelNext]_wheelVars
               PROVE  \A t \in fired' : left'[t] = 0
    BY LinkedParts DEF FiredNow
  <1>1. ASSUME NEW t \in Timers, NEW timeout \in Timeouts, AddTimer(t, timeout)
        PROVE  fired' = {}
    BY <1>1 DEF AddTimer
  <1>2. ASSUME NEW t \in Timers, DelTimer(t) PROVE fired' = {}
    BY <1>2 DEF DelTimer
  <1>3. ASSUME TickBegin \/ TickPass \/ TickEnd PROVE fired' = {}
    BY <1>3 DEF TickBegin, TickPass, TickEnd
  <1>4. ASSUME TickFire PROVE \A t \in fired' : left'[t] = 0
    <2>1. fired' = {tmp} /\ left' = left
      BY <1>4 DEF TickFire
    <2> QED
      BY <1>4, <2>1, FiresNow
  <1>5. CASE UNCHANGED wheelVars
    BY <1>5 DEF wheelVars, FiredNow
  <1> QED
    BY <1>1, <1>2, <1>3, <1>4, <1>5 DEF WheelNext

\* Every timer is called back by the tick() its timeout stands for, neither
\* earlier nor later, for every number of slots and every interval
\* (wheel_timer.h: add_timer and tick together).
THEOREM WheelIsPunctual == Spec => []Punctual
  <1>1. Init => TypeOK /\ LinkedWhereItSays /\ Counted /\ FiredNow
    BY InitType, InitLinked, InitCounted DEF Init, WheelInit, FiredNow
  <1>2. TypeOK /\ Counted /\ FiredNow => Punctual
    BY CountedLeft DEF FiredNow, Punctual
  <1> QED
    BY <1>1, <1>2, StepOfWheel, NextType, NextLinked, NextCounted, NextFired, PTL
       DEF Spec
=============================================================================
