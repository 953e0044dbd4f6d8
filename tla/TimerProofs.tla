---------------------------- MODULE TimerProofs -----------------------------
(***************************************************************************)
(* The timers of lwIP, for every table of timers, every interval and every *)
(* width of the clock that satisfy TimeoutsAssumption: until the command   *)
(* lwip is given a second time, the list of timers holds the timers that   *)
(* run, each once and in the order in which they are due, insertion finds  *)
(* an element and a place, and handlers are called on time.                *)
(***************************************************************************)
EXTENDS LwipTimeouts, Loops, FiniteSetTheorems, TLAPS

\* Zenon proves a step that names no other prover.
USE ZenonT(60)

-----------------------------------------------------------------------------
(* Lists of elements.                                                       *)

\* The elements and NULL; also the places along a list.
Numbers == 0..PoolSize

\* c goes along the n elements of the list that begins with a.
GoesAlong(link, a, c, n) ==
  /\ n \in Numbers /\ c \in [Numbers -> Numbers] /\ c[0] = a
  /\ \A i \in Numbers : i < n => c[i] # 0 /\ c[i + 1] = link[c[i]]
  /\ \A i \in Numbers : i >= n => c[i] = 0
  /\ \A i, j \in Numbers : i < n /\ j < n /\ c[i] = c[j] => i = j

\* e is not among the first n of c.
NotIn(e, c, n) == \A i \in Numbers : i < n => c[i] # e

Links == [Numbers -> Numbers]

\* The pool has elements.
LEMMA PoolFacts == PoolSize \in Nat /\ PoolSize > 0 /\ 0 \in Numbers /\ PoolSize \in Numbers
<1>1. Len(Timers) \in Nat
  BY TimeoutsAssumption, SMTT(60)
<1> QED BY <1>1, TimeoutsAssumption, SMTT(60) DEF Numbers

\* What a list goes along is its Chain.
LEMMA ChainIs ==
  ASSUME NEW m, m.link \in Links, m.link[0] = 0, NEW a, NEW c, NEW n, GoesAlong(m.link, a, c, n)
  PROVE  Chain(m, a) = c
<1> DEFINE Body(g) == [i \in 0..PoolSize |-> IF i = 0 THEN a ELSE m.link[g[i - 1]]]
<1>0. PoolSize \in Nat
  BY PoolFacts
<1>1. c = Body(c)
  <2>1. ASSUME NEW i \in 0..PoolSize
        PROVE  c[i] = IF i = 0 THEN a ELSE m.link[c[i - 1]]
    <3>1. CASE i = 0
      BY <3>1 DEF GoesAlong
    <3>2. CASE i # 0
      <4>1. i - 1 \in Numbers /\ i \in Numbers /\ i - 1 + 1 = i /\ n \in Int
        BY <3>2, <1>0, SMTT(60) DEF Numbers, GoesAlong
      <4>2. CASE i - 1 < n
        BY <4>1, <4>2, <3>2 DEF GoesAlong
      <4>3. CASE ~(i - 1 < n)
        <5>1. i - 1 >= n /\ i >= n
          BY <4>1, <4>3, SMTT(60)
        <5> QED BY <5>1, <4>1, <3>2 DEF GoesAlong
      <4> QED BY <4>2, <4>3
    <3> QED BY <3>1, <3>2
  <2>2. c = [i \in 0..PoolSize |-> c[i]]
    BY DEF GoesAlong, Numbers
  <2> QED BY <2>1, <2>2
<1>2. ASSUME NEW g, g = Body(g) PROVE g = c
  <2> DEFINE S == {i \in 0..PoolSize : g[i] = c[i]}
  <2>1. 0 \in S
    BY <1>0, <1>1, <1>2, SMTT(60)
  <2>2. ASSUME NEW i \in 1..PoolSize, i - 1 \in S PROVE i \in S
    <3>1. i \in 0..PoolSize /\ i # 0 /\ g[i - 1] = c[i - 1]
      BY <2>2, <1>0, SMTT(60)
    <3>2. g[i] = m.link[g[i - 1]] /\ c[i] = m.link[c[i - 1]]
      <4>1. Body(g)[i] = m.link[g[i - 1]] /\ Body(c)[i] = m.link[c[i - 1]]
        BY <3>1
      <4> HIDE DEF Body
      <4> QED BY <4>1, <1>1, <1>2
    <3> QED BY <3>1, <3>2
  <2>3. 0..PoolSize \subseteq S
    <3> HIDE DEF S
    <3> QED BY <2>1, <2>2, <1>0, LoopInduction
  <2>4. \A i \in 0..PoolSize : g[i] = c[i]
    BY <2>3
  <2>5. g = [i \in 0..PoolSize |-> g[i]] /\ c = [i \in 0..PoolSize |-> c[i]]
    BY <1>1, <1>2
  <2> QED BY <2>4, <2>5
<1>3. Chain(m, a) = CHOOSE g : g = Body(g)
  BY DEF Chain
<1> HIDE DEF Body
<1>4. \E g : g = Body(g)
  BY <1>1
<1>5. (CHOOSE g : g = Body(g)) = Body(CHOOSE g : g = Body(g))
  BY <1>4
<1>6. (CHOOSE g : g = Body(g)) = c
  BY <1>5, <1>2
<1> QED BY <1>3, <1>6

\* A list does not notice a change of links of elements it does not have.
LEMMA ListStays ==
  ASSUME NEW link, NEW a, NEW c, NEW n, GoesAlong(link, a, c, n),
         NEW l, \A i \in Numbers : i < n => l[c[i]] = link[c[i]]
  PROVE  GoesAlong(l, a, c, n)
BY DEF GoesAlong

\* c with e behind its place p, or before all with p = -1.
Behind(c, p, e) ==
  [i \in Numbers |-> IF i =< p THEN c[i] ELSE IF i = p + 1 THEN e ELSE c[i - 1]]

\* An element put in front of a list.
LEMMA PutInFront ==
  ASSUME NEW link \in Links, NEW a, NEW c, NEW n, GoesAlong(link, a, c, n), n < PoolSize,
         NEW e \in Elements, NotIn(e, c, n)
  PROVE  GoesAlong([link EXCEPT ![e] = a], e, Behind(c, -1, e), n + 1)
<1> DEFINE l == [link EXCEPT ![e] = a]
           d == [i \in Numbers |-> IF i = 0 THEN e ELSE c[i - 1]]
<1>0. /\ PoolSize \in Nat /\ n \in Nat /\ n + 1 \in Numbers /\ e \in Numbers /\ e # 0
      /\ 0 \in Numbers
  BY PoolFacts, SMTT(60) DEF GoesAlong, Numbers, Elements
<1>1. d \in [Numbers -> Numbers] /\ d[0] = e
  <2>1. ASSUME NEW i \in Numbers, i # 0 PROVE c[i - 1] \in Numbers
    BY <2>1, PoolFacts, SMTT(60) DEF GoesAlong, Numbers
  <2> QED BY <2>1, <1>0
<1>2. ASSUME NEW i \in Numbers, i < n + 1 PROVE d[i] # 0 /\ d[i + 1] = l[d[i]]
  <2>0. i + 1 \in Numbers /\ i + 1 # 0 /\ i + 1 - 1 = i /\ i \in Int
    BY <1>2, <1>0, SMTT(60) DEF Numbers
  <2>1. d[i + 1] = c[i]
    BY <2>0, SMTT(60)
  <2>2. CASE i = 0
    <3>1. d[i] = e /\ c[i] = a
      BY <2>2, <1>0 DEF GoesAlong
    <3>2. l[e] = a
      BY <1>0 DEF Links
    <3> QED BY <2>1, <3>1, <3>2, <1>0
  <2>3. CASE i # 0
    <3>1. i - 1 \in Numbers /\ i - 1 < n /\ i - 1 + 1 = i
      BY <2>3, <2>0, <1>0, <1>2, SMTT(60) DEF Numbers
    <3>2. d[i] = c[i - 1] /\ c[i - 1] # 0 /\ c[i] = link[c[i - 1]] /\ c[i - 1] # e
      BY <2>3, <3>1 DEF GoesAlong, NotIn
    <3>3. c[i - 1] \in Numbers
      BY <3>1 DEF GoesAlong
    <3>4. l[c[i - 1]] = link[c[i - 1]]
      BY <3>2, <3>3 DEF Links
    <3> QED BY <2>1, <3>2, <3>4
  <2> QED BY <2>2, <2>3
<1>3. ASSUME NEW i \in Numbers, i >= n + 1 PROVE d[i] = 0
  <2>1. i # 0 /\ i - 1 \in Numbers /\ i - 1 >= n
    BY <1>3, <1>0, SMTT(60) DEF Numbers
  <2> QED BY <2>1 DEF GoesAlong
<1>4. ASSUME NEW i \in Numbers, NEW j \in Numbers, i < n + 1, j < n + 1, d[i] = d[j] PROVE i = j
  <2>1. \A k \in Numbers : k # 0 => k - 1 \in Numbers /\ k - 1 \in Int /\ (k < n + 1 => k - 1 < n)
    BY <1>0, SMTT(60) DEF Numbers
  <2>2. \A k \in Numbers : k # 0 /\ k < n + 1 => d[k] = c[k - 1] /\ c[k - 1] # e
    BY <2>1 DEF NotIn
  <2>3. CASE i = 0 \/ j = 0
    BY <2>2, <2>3, <1>1, <1>4
  <2>4. CASE i # 0 /\ j # 0
    <3>1. c[i - 1] = c[j - 1]
      BY <2>2, <2>4, <1>4
    <3>2. i - 1 = j - 1
      BY <3>1, <2>1, <2>4, <1>4 DEF GoesAlong
    <3>3. i \in Int /\ j \in Int
      BY <1>0, SMTT(60) DEF Numbers
    <3> QED BY <3>2, <3>3, SMTT(60)
  <2> QED BY <2>3, <2>4
<1> HIDE DEF d, l
<1>5. GoesAlong(l, e, d, n + 1)
  BY <1>0, <1>1, <1>2, <1>3, <1>4 DEF GoesAlong
<1>6. d = Behind(c, -1, e)
  <2>1. \A i \in Numbers : ~(i =< -1) /\ (i = -1 + 1 <=> i = 0)
    BY PoolFacts, SMTT(60) DEF Numbers
  <2> QED BY <2>1 DEF d, Behind
<1> QED BY <1>5, <1>6 DEF l

\* A list without its first element.
LEMMA DropFirst ==
  ASSUME NEW link \in Links, link[0] = 0, NEW a, NEW c, NEW n, GoesAlong(link, a, c, n), n > 0
  PROVE  LET d == [i \in Numbers |-> IF i = PoolSize THEN 0 ELSE c[i + 1]] IN
         GoesAlong(link, link[a], d, n - 1) /\ NotIn(a, d, n - 1)
<1> DEFINE d == [i \in Numbers |-> IF i = PoolSize THEN 0 ELSE c[i + 1]]
<1>0. /\ PoolSize \in Nat /\ n \in Nat /\ n - 1 \in Numbers /\ 0 \in Numbers /\ c[0] = a
      /\ n =< PoolSize
  BY PoolFacts, SMTT(60) DEF GoesAlong, Numbers
<1>n. \A i \in Numbers : i \in Nat /\ i =< PoolSize /\ (i # PoolSize => i + 1 \in Numbers)
  BY <1>0, SMTT(60) DEF Numbers
<1>1. d \in [Numbers -> Numbers]
  <2>1. ASSUME NEW i \in Numbers, i # PoolSize PROVE c[i + 1] \in Numbers
    BY <2>1, <1>n DEF GoesAlong
  <2> QED BY <2>1, <1>0
<1>2. \A i \in Numbers : i < n => i # PoolSize /\ d[i] = c[i + 1] /\ i + 1 \in Numbers /\ i + 1 \in Nat
  BY <1>0, <1>n, SMTT(60)
<1>3. d[0] = link[a]
  <2>1. d[0] = c[0 + 1]
    BY <1>0, <1>2
  <2>2. c[0 + 1] = link[c[0]]
    BY <1>0 DEF GoesAlong
  <2> QED BY <2>1, <2>2, <1>0
<1>4. ASSUME NEW i \in Numbers, i < n - 1 PROVE d[i] # 0 /\ d[i + 1] = link[d[i]]
  <2>1. i < n /\ i + 1 < n /\ i + 1 \in Numbers
    BY <1>4, <1>0, <1>n, SMTT(60)
  <2>2. d[i] = c[i + 1] /\ d[i + 1] = c[i + 1 + 1]
    BY <1>2, <2>1
  <2> QED BY <2>1, <2>2 DEF GoesAlong
<1>5. ASSUME NEW i \in Numbers, i >= n - 1 PROVE d[i] = 0
  <2>1. CASE i = PoolSize
    BY <2>1
  <2>2. CASE i # PoolSize
    <3>1. i + 1 \in Numbers /\ i + 1 >= n
      BY <2>2, <1>5, <1>n, <1>0, SMTT(60)
    <3> QED BY <3>1, <2>2 DEF GoesAlong
  <2> QED BY <2>1, <2>2
<1>6. ASSUME NEW i \in Numbers, NEW j \in Numbers, i < n - 1, j < n - 1, d[i] = d[j] PROVE i = j
  <2>1. i < n /\ j < n /\ i + 1 < n /\ j + 1 < n /\ i \in Nat /\ j \in Nat
    BY <1>6, <1>0, <1>n, SMTT(60)
  <2>2. c[i + 1] = c[j + 1] /\ i + 1 \in Numbers /\ j + 1 \in Numbers
    BY <1>2, <1>6, <2>1
  <2>3. i + 1 = j + 1
    BY <2>1, <2>2 DEF GoesAlong
  <2> QED BY <2>1, <2>3, SMTT(60)
<1>7. NotIn(a, d, n - 1)
  <2>1. ASSUME NEW i \in Numbers, i < n - 1 PROVE d[i] # a
    <3>1. i < n /\ i + 1 < n /\ i \in Nat /\ 0 < n /\ i + 1 # 0
      BY <2>1, <1>0, <1>n, SMTT(60)
    <3>2. d[i] = c[i + 1] /\ i + 1 \in Numbers
      BY <1>2, <3>1
    <3> QED BY <3>1, <3>2, <1>0 DEF GoesAlong
  <2> QED BY <2>1 DEF NotIn
<1> HIDE DEF d
<1>8. GoesAlong(link, link[a], d, n - 1)
  BY <1>0, <1>1, <1>3, <1>4, <1>5, <1>6 DEF GoesAlong
<1> QED BY <1>7, <1>8 DEF d

\* An element put behind another one of a list.
LEMMA PutBehind ==
  ASSUME NEW link \in Links, NEW a, NEW c, NEW n, GoesAlong(link, a, c, n), n < PoolSize,
         NEW e \in Elements, NotIn(e, c, n), NEW p \in Numbers, p < n
  PROVE  GoesAlong([link EXCEPT ![e] = link[c[p]], ![c[p]] = e], a, Behind(c, p, e), n + 1)
<1> DEFINE l == [link EXCEPT ![e] = link[c[p]], ![c[p]] = e]
           d == Behind(c, p, e)
<1>0. /\ PoolSize \in Nat /\ n \in Nat /\ n + 1 \in Numbers /\ e \in Numbers /\ e # 0
      /\ p \in Nat /\ p + 1 \in Numbers /\ c \in [Numbers -> Numbers] /\ c[p] \in Numbers
      /\ c[p] # e /\ c[p] # 0 /\ c[p + 1] = link[c[p]] /\ n =< PoolSize
  BY PoolFacts, SMTT(60) DEF GoesAlong, Numbers, Elements, NotIn
<1>n. \A i \in Numbers : /\ i \in Nat /\ i =< PoolSize /\ (i # PoolSize => i + 1 \in Numbers)
                         /\ (i # 0 => i - 1 \in Numbers)
  BY PoolFacts, SMTT(60) DEF Numbers
<1>l. l[e] = c[p + 1] /\ l[c[p]] = e /\ \A x \in Numbers : x # e /\ x # c[p] => l[x] = link[x]
  BY <1>0 DEF Links
<1>d. \A i \in Numbers : /\ i =< p => d[i] = c[i]
                         /\ i = p + 1 => d[i] = e
                         /\ i > p + 1 => d[i] = c[i - 1]
  BY <1>0, <1>n, SMTT(60) DEF Behind
<1>c. \A i \in Numbers : i < n => c[i] # 0 /\ c[i] # e /\ c[i] \in Numbers /\ c[i + 1] = link[c[i]]
  BY DEF GoesAlong, NotIn
<1>u. \A i, j \in Numbers : i < n /\ j < n /\ c[i] = c[j] => i = j
  BY DEF GoesAlong
<1>1. d \in [Numbers -> Numbers] /\ d[0] = a
  <2>1. ASSUME NEW i \in Numbers, ~(i =< p) PROVE c[i - 1] \in Numbers
    <3>1. i - 1 \in Numbers
      BY <2>1, <1>0, <1>n, SMTT(60)
    <3> QED BY <3>1, <1>0
  <2>2. d \in [Numbers -> Numbers]
    BY <2>1, <1>0 DEF Behind
  <2>3. 0 \in Numbers /\ 0 =< p /\ c[0] = a
    BY <1>0, PoolFacts, SMTT(60) DEF GoesAlong
  <2> QED BY <2>2, <2>3, <1>d
<1> HIDE DEF l, d
<1>2. ASSUME NEW i \in Numbers, i < n + 1 PROVE d[i] # 0 /\ d[i + 1] = l[d[i]]
  <2>0. i \in Nat /\ i + 1 \in Numbers
    BY <1>2, <1>0, <1>n, SMTT(60)
  <2>1. CASE i < p
    <3>1. i + 1 =< p /\ i =< p /\ i < n
      BY <2>0, <2>1, <1>0, SMTT(60)
    <3>2. d[i] = c[i] /\ d[i + 1] = c[i + 1] /\ c[i] # c[p]
      BY <3>1, <2>0, <1>d, <1>u, <2>1, <1>0, SMTT(60)
    <3> QED BY <3>1, <3>2, <1>c, <1>l, SMTT(60)
  <2>2. CASE i = p
    <3>1. d[i] = c[p] /\ d[i + 1] = e
      BY <2>0, <2>2, <1>d, <1>0, SMTT(60)
    <3> QED BY <3>1, <1>0, <1>l
  <2>3. CASE i = p + 1
    <3>1. d[i] = e /\ d[i + 1] = c[i + 1 - 1] /\ i + 1 - 1 = p + 1
      BY <2>0, <2>3, <1>d, <1>0, SMTT(60)
    <3> QED BY <3>1, <1>0, <1>l
  <2>4. CASE i > p + 1
    <3>1. i - 1 \in Numbers /\ i - 1 < n /\ i - 1 + 1 = i /\ i + 1 - 1 = i /\ i - 1 # p
      BY <2>0, <2>4, <1>0, <1>2, <1>n, SMTT(60)
    <3>2. d[i] = c[i - 1] /\ d[i + 1] = c[i]
      <4>1. i + 1 > p + 1
        BY <2>0, <2>4, <1>0, SMTT(60)
      <4> QED BY <4>1, <2>0, <2>4, <1>d, <3>1, SMTT(60)
    <3>3. c[i - 1] # c[p]
      BY <3>1, <1>u, <1>0
    <3>4. c[i - 1] # 0 /\ c[i - 1] # e /\ c[i - 1] \in Numbers /\ c[i] = link[c[i - 1]]
      BY <3>1, <1>c
    <3> QED BY <3>2, <3>3, <3>4, <1>l
  <2> QED BY <2>0, <2>1, <2>2, <2>3, <2>4, <1>0, SMTT(60)
<1>3. ASSUME NEW i \in Numbers, i >= n + 1 PROVE d[i] = 0
  <2>1. i > p + 1 /\ i - 1 \in Numbers /\ i - 1 >= n
    BY <1>3, <1>0, <1>n, SMTT(60)
  <2> QED BY <2>1, <1>d DEF GoesAlong
<1>4. ASSUME NEW i \in Numbers, NEW j \in Numbers, i < n + 1, j < n + 1, d[i] = d[j] PROVE i = j
  <2>0. i \in Nat /\ j \in Nat
    BY <1>n
  <2> DEFINE Was(k) == IF k =< p THEN k ELSE k - 1
  <2>1. ASSUME NEW k \in Numbers, k < n + 1, k # p + 1
        PROVE  Was(k) \in Numbers /\ Was(k) < n /\ d[k] = c[Was(k)] /\ d[k] # e
    <3>0. k \in Nat
      BY <1>n
    <3>1. CASE k =< p
      BY <3>0, <3>1, <1>0, <1>d, <1>c, SMTT(60)
    <3>2. CASE ~(k =< p)
      <4>1. k > p + 1 /\ k - 1 \in Numbers /\ k - 1 < n /\ Was(k) = k - 1
        BY <3>0, <3>2, <2>1, <1>0, <1>n, SMTT(60)
      <4> HIDE DEF Was
      <4> QED BY <4>1, <1>d, <1>c, SMTT(60)
    <3> QED BY <3>1, <3>2
  <2>2. CASE i = p + 1 \/ j = p + 1
    BY <2>1, <2>2, <1>4, <1>d
  <2>3. CASE i # p + 1 /\ j # p + 1
    <3>1. Was(i) = Was(j)
      <4> HIDE DEF Was
      <4> QED BY <2>1, <2>3, <1>4, <1>u
    <3> QED BY <3>1, <2>0, <2>3, <1>0, SMTT(60)
  <2> QED BY <2>2, <2>3
<1>5. GoesAlong(l, a, d, n + 1)
  BY <1>0, <1>1, <1>2, <1>3, <1>4 DEF GoesAlong
<1> QED BY <1>5 DEF d, l

Handlers == All \cup {NoTimer}

\* The timer list and the free list: c and f go along them, and every element
\* is in one of the two.
TwoLists(m, c, n, f, k) ==
  /\ m.link \in Links /\ m.link[0] = 0
  /\ m.h \in [Elements -> Handlers] /\ m.time \in [Elements -> Int]
  /\ GoesAlong(m.link, m.next_timeout, c, n) /\ GoesAlong(m.link, m.tab, f, k)
  /\ \A i \in Numbers : i < k => NotIn(f[i], c, n)
  /\ n + k = PoolSize

\* An element of a list.
LEMMA ElementOf ==
  ASSUME NEW link, NEW a, NEW c, NEW n, GoesAlong(link, a, c, n), NEW i \in Numbers, i < n
  PROVE  c[i] \in Elements
<1>1. c[i] \in Numbers /\ c[i] # 0
  BY DEF GoesAlong
<1> QED BY <1>1, PoolFacts, SMTT(60) DEF Numbers, Elements

\* memp_malloc: the first free element e is taken; the timer list is as it was,
\* g goes along the rest of the free ones.
TookOne(m, e, l, b, c, n, g, k) ==
  /\ e \in Elements /\ NotIn(e, c, n) /\ NotIn(e, g, k)
  /\ l \in Links /\ l[0] = 0 /\ l[e] = 0
  /\ GoesAlong(l, m.next_timeout, c, n) /\ GoesAlong(l, b, g, k)
  /\ \A i \in Numbers : i < k => NotIn(g[i], c, n)
  /\ \A i \in Numbers : i < n => l[c[i]] = m.link[c[i]]

\* It is so when memp_malloc has taken the head of the free list.
LEMMA TakeOne ==
  ASSUME NEW m, NEW c, NEW n, NEW f, NEW k, TwoLists(m, c, n, f, k), k > 0
  PROVE  \E g : TookOne(m, m.tab, [m.link EXCEPT ![m.tab] = NULL], m.link[m.tab], c, n, g, k - 1)
<1> DEFINE e == m.tab
           l == [m.link EXCEPT ![e] = NULL]
           g == [i \in Numbers |-> IF i = PoolSize THEN 0 ELSE f[i + 1]]
<1>0. /\ m.link \in Links /\ m.link[0] = 0
      /\ GoesAlong(m.link, m.next_timeout, c, n) /\ GoesAlong(m.link, e, f, k)
      /\ \A i \in Numbers : i < k => NotIn(f[i], c, n)
  BY DEF TwoLists
<1>k. k \in Nat /\ n \in Nat /\ k =< PoolSize /\ PoolSize \in Nat /\ 0 \in Numbers
  BY <1>0, PoolFacts, SMTT(60) DEF GoesAlong, Numbers
<1>1. e = f[0] /\ e \in Elements /\ NotIn(e, c, n)
  <2>1. f[0] \in Elements
    BY <1>0, <1>k, ElementOf
  <2> QED BY <2>1, <1>0, <1>k DEF GoesAlong
<1>2. GoesAlong(m.link, m.link[e], g, k - 1) /\ NotIn(e, g, k - 1)
  <2> HIDE DEF e
  <2> QED BY <1>0, DropFirst
<1>3. e \in Numbers /\ e # 0
  BY <1>1, <1>k, SMTT(60) DEF Elements, Numbers
<1>4. l \in Links /\ l[0] = 0 /\ l[e] = 0 /\ \A x \in Numbers : x # e => l[x] = m.link[x]
  BY <1>0, <1>3, <1>k DEF Links, NULL
<1>5. \A i \in Numbers : i < n => l[c[i]] = m.link[c[i]]
  BY <1>0, <1>1, <1>4 DEF NotIn, GoesAlong
<1>6. \A i \in Numbers : i < k - 1 => l[g[i]] = m.link[g[i]]
  BY <1>2, <1>4 DEF NotIn, GoesAlong
<1>7. \A i \in Numbers : i < k - 1 => NotIn(g[i], c, n)
  <2> TAKE i \in Numbers
  <2> HAVE i < k - 1
  <2>1. i + 1 \in Numbers /\ i + 1 < k /\ i # PoolSize
    BY <1>k, SMTT(60) DEF Numbers
  <2>2. g[i] = f[i + 1]
    BY <2>1
  <2> HIDE DEF g
  <2> QED BY <2>1, <2>2, <1>0
<1> HIDE DEF e, l, g
<1>8. GoesAlong(l, m.next_timeout, c, n)
  BY <1>0, <1>5, ListStays
<1>9. GoesAlong(l, m.link[e], g, k - 1)
  BY <1>2, <1>6, ListStays
<1>10. TookOne(m, e, l, m.link[e], c, n, g, k - 1)
  BY <1>1, <1>2, <1>4, <1>5, <1>7, <1>8, <1>9 DEF TookOne
<1> QED BY <1>10 DEF e, l

\* The first timer goes back to the pool.
LEMMA GiveBack ==
  ASSUME NEW m, NEW c, NEW n, NEW f, NEW k, TwoLists(m, c, n, f, k), n > 0
  PROVE  TwoLists(memp_free(Mem(m.link, m.h, m.time, m.link[m.next_timeout], m.tab), m.next_timeout),
                  [i \in Numbers |-> IF i = PoolSize THEN 0 ELSE c[i + 1]], n - 1,
                  Behind(f, -1, m.next_timeout), k + 1)
<1> DEFINE a == m.next_timeout
           d == [i \in Numbers |-> IF i = PoolSize THEN 0 ELSE c[i + 1]]
           g == Behind(f, -1, a)
           l == [m.link EXCEPT ![a] = m.tab]
           q == Mem(l, m.h, m.time, m.link[a], a)
<1>0. /\ m.link \in Links /\ m.link[0] = 0
      /\ m.h \in [Elements -> Handlers] /\ m.time \in [Elements -> Int]
      /\ GoesAlong(m.link, a, c, n) /\ GoesAlong(m.link, m.tab, f, k)
      /\ \A i \in Numbers : i < k => NotIn(f[i], c, n)
      /\ n + k = PoolSize
  BY DEF TwoLists
<1>k. k \in Nat /\ n \in Nat /\ k < PoolSize /\ PoolSize \in Nat /\ 0 \in Numbers
  BY <1>0, PoolFacts, SMTT(60) DEF GoesAlong, Numbers
<1>1. a = c[0] /\ a \in Elements
  <2>1. c[0] \in Elements
    BY <1>0, <1>k, ElementOf
  <2> QED BY <2>1, <1>0, <1>k DEF GoesAlong
<1>2. NotIn(a, f, k)
  BY <1>0, <1>1, <1>k DEF NotIn
<1>3. GoesAlong(m.link, m.link[a], d, n - 1) /\ NotIn(a, d, n - 1)
  <2> HIDE DEF a
  <2> QED BY <1>0, DropFirst
<1>4. GoesAlong(l, a, g, k + 1)
  <2> HIDE DEF a
  <2> QED BY <1>0, <1>1, <1>2, <1>k, PutInFront
<1>5. a \in Numbers /\ a # 0 /\ m.tab \in Numbers
  <2>1. f \in [Numbers -> Numbers] /\ f[0] = m.tab
    BY <1>0 DEF GoesAlong
  <2>2. a \in Numbers /\ a # 0
    BY <1>1, <1>k, SMTT(60) DEF Elements, Numbers
  <2> QED BY <2>1, <2>2, <1>k
<1>6. l \in Links /\ l[0] = 0 /\ \A x \in Numbers : x # a => l[x] = m.link[x]
  BY <1>0, <1>5, <1>k DEF Links
<1>7. GoesAlong(l, m.link[a], d, n - 1)
  <2>1. \A i \in Numbers : i < n - 1 => l[d[i]] = m.link[d[i]]
    BY <1>3, <1>6 DEF NotIn, GoesAlong
  <2> HIDE DEF a, d, l
  <2> QED BY <1>3, <2>1, ListStays
<1>8. \A i \in Numbers : i < n - 1 => d[i] = c[i + 1] /\ i + 1 \in Numbers /\ i + 1 < n
  BY <1>k, <1>0, SMTT(60) DEF Numbers
<1>9. ASSUME NEW i \in Numbers, i < k + 1 PROVE NotIn(g[i], d, n - 1)
  <2>1. CASE i = 0
    <3>1. g[i] = a
      BY <2>1, <1>k, SMTT(60) DEF Behind
    <3> QED BY <3>1, <1>3
  <2>2. CASE i # 0
    <3>1. i - 1 \in Numbers /\ i - 1 < k /\ ~(i =< -1) /\ i # -1 + 1
      BY <2>2, <1>9, <1>k, SMTT(60) DEF Numbers
    <3>2. g[i] = f[i - 1]
      BY <3>1 DEF Behind
    <3>3. NotIn(f[i - 1], c, n)
      BY <3>1, <1>0
    <3> HIDE DEF d, g
    <3> QED BY <3>2, <3>3, <1>8 DEF NotIn
  <2> QED BY <2>1, <2>2
<1>10. memp_free(Mem(m.link, m.h, m.time, m.link[a], m.tab), a) = q
  <2> DEFINE r == Mem(m.link, m.h, m.time, m.link[a], m.tab)
  <2>1. r.link = m.link /\ r.h = m.h /\ r.time = m.time /\ r.next_timeout = m.link[a]
        /\ r.tab = m.tab
    <3>1. r = Mem(m.link, m.h, m.time, m.link[a], m.tab)
      OBVIOUS
    <3> HIDE DEF r, a
    <3> QED BY <3>1 DEF Mem
  <2> HIDE DEF r
  <2>2. memp_free(r, a) = q
    BY <2>1 DEF memp_free
  <2> QED BY <2>2 DEF r
<1>11. q.link = l /\ q.h = m.h /\ q.time = m.time /\ q.next_timeout = m.link[a] /\ q.tab = a
  <2>1. q = Mem(l, m.h, m.time, m.link[a], a)
    OBVIOUS
  <2> HIDE DEF a, l, q
  <2> QED BY <2>1 DEF Mem
<1>12. (n - 1) + (k + 1) = PoolSize
  BY <1>0, <1>k, SMTT(60)
<1> HIDE DEF a, d, g, l, q
<1>13. TwoLists(q, d, n - 1, g, k + 1)
  BY <1>0, <1>4, <1>6, <1>7, <1>9, <1>11, <1>12 DEF TwoLists
<1> QED BY <1>10, <1>13 DEF a, d, g

-----------------------------------------------------------------------------
(* The clock.                                                               *)

\* What TimeoutsAssumption says of the clock: it tells times apart that are an
\* interval and three gaps from each other.
LEMMA ClockFacts ==
  /\ Wrap \in Nat /\ Wrap > 1 /\ MaxGap \in Nat /\ MaxInits \in Nat
  /\ Wrap \div 2 \in Nat /\ Wrap = 2 * (Wrap \div 2)
  /\ \A t \in All : Interval[t] \in Nat /\ Interval[t] > 0 /\ Interval[t] + 3 * MaxGap =< Wrap \div 2
<1>1. Wrap \in Nat /\ MaxGap \in Nat /\ MaxInits \in Nat /\ Wrap % 2 = 0
  BY TimeoutsAssumption
<1>2. \A t \in All : Interval[t] \in Nat /\ Interval[t] > 0 /\ Interval[t] + 3 * MaxGap =< Wrap \div 2
  BY TimeoutsAssumption, SMTT(60)
<1>3. Wrap \div 2 \in Nat /\ Wrap = 2 * (Wrap \div 2)
  BY <1>1, SMTT(60)
<1>4. Interval[Tcp] + 3 * MaxGap =< Wrap \div 2 /\ Interval[Tcp] \in Nat /\ Interval[Tcp] > 0
  BY <1>2 DEF All
<1> QED BY <1>1, <1>2, <1>3, <1>4, SMTT(60)

Clock == 0..(Wrap - 1)

\* What a time near the range of the clock is on the clock.
Reading(x) == IF x < 0 THEN x + Wrap ELSE IF x < Wrap THEN x ELSE x - Wrap

\* Reading is the remainder, near the range of the clock.
LEMMA OnClock ==
  ASSUME NEW x \in Int, -Wrap =< x, x < 2 * Wrap
  PROVE  x % Wrap = Reading(x)
<1> USE DEF Reading
<1>1. Wrap \in Nat /\ Wrap > 1
  BY ClockFacts
<1>2. CASE x < 0
  BY <1>1, <1>2, SMTT(60)
<1>3. CASE x >= 0 /\ x < Wrap
  BY <1>1, <1>3, SMTT(60)
<1>4. CASE x >= Wrap
  BY <1>1, <1>4, SMTT(60)
<1> QED BY <1>1, <1>2, <1>3, <1>4, SMTT(60)

\* TIME_LESS_THAN compares what is less than half the clock apart.
LEMMA LessThan ==
  ASSUME NEW w \in Clock, NEW a \in Int, NEW b \in Int,
         -(Wrap \div 2) =< a, a =< Wrap \div 2, -(Wrap \div 2) =< b, b =< Wrap \div 2,
         a - b < Wrap \div 2, b - a =< Wrap \div 2
  PROVE  TIME_LESS_THAN((w + a) % Wrap, (w + b) % Wrap) <=> a < b
<1> DEFINE H == Wrap \div 2
<1>1. H \in Nat /\ Wrap = 2 * H /\ Wrap \in Nat /\ Wrap > 1 /\ w \in Int /\ 0 =< w /\ w < Wrap
  BY ClockFacts, SMTT(60) DEF Clock
<1>2. -H =< a /\ a =< H /\ -H =< b /\ b =< H /\ a - b < H /\ b - a =< H
  OBVIOUS
<1>3. PICK x \in Int : x = (w + a) % Wrap
  BY <1>1, SMTT(60)
<1>4. PICK y \in Int : y = (w + b) % Wrap
  BY <1>1, SMTT(60)
<1> HIDE DEF H
<1>5. x = Reading(w + a)
  <2>1. w + a \in Int /\ -Wrap =< w + a /\ w + a < 2 * Wrap
    BY <1>1, <1>2, SMTT(60)
  <2> QED BY <2>1, <1>3, OnClock
<1>6. y = Reading(w + b)
  <2>1. w + b \in Int /\ -Wrap =< w + b /\ w + b < 2 * Wrap
    BY <1>1, <1>2, SMTT(60)
  <2> QED BY <2>1, <1>4, OnClock
<1>7. (x - y) % Wrap = Reading(x - y)
  <2>1. x - y \in Int /\ -Wrap =< x - y /\ x - y < 2 * Wrap
    BY <1>1, <1>2, <1>5, <1>6, SMTT(60) DEF Reading
  <2> QED BY <2>1, OnClock
<1>8. x - y \in {a - b, a - b + Wrap, a - b - Wrap}
  BY <1>1, <1>2, <1>5, <1>6, SMTT(60) DEF Reading
<1>9. 0 =< x /\ x < Wrap /\ 0 =< y /\ y < Wrap
  BY <1>1, <1>2, <1>5, <1>6, SMTT(60) DEF Reading
<1>10. (x - y) % Wrap = IF a < b THEN a - b + Wrap ELSE a - b
  BY <1>1, <1>2, <1>7, <1>8, <1>9, SMTT(60) DEF Reading
<1>11. TIME_LESS_THAN(x, y) <=> (x - y) % Wrap > H - 1
  BY DEF TIME_LESS_THAN, H
<1>12. TIME_LESS_THAN(x, y) <=> a < b
  BY <1>1, <1>2, <1>10, <1>11, SMTT(60)
<1> QED BY <1>3, <1>4, <1>12

\* A tick: the reading of what is due is the same.
LEMMA TickKeeps ==
  ASSUME NEW w \in Clock, NEW a \in Int, -(Wrap \div 2) =< a - 1, a =< Wrap \div 2
  PROVE  (((w + 1) % Wrap) + (a - 1)) % Wrap = (w + a) % Wrap /\ (w + 1) % Wrap \in Clock
<1> DEFINE H == Wrap \div 2
<1>1. H \in Nat /\ Wrap = 2 * H /\ Wrap \in Nat /\ Wrap > 1 /\ w \in Int /\ 0 =< w /\ w < Wrap
  BY ClockFacts, SMTT(60) DEF Clock
<1>2. -H =< a - 1 /\ a =< H
  OBVIOUS
<1>3. PICK x \in Int : x = (w + 1) % Wrap
  BY <1>1, SMTT(60)
<1> HIDE DEF H
<1>4. x = IF w + 1 < Wrap THEN w + 1 ELSE 0
  <2>1. w + 1 \in Int /\ -Wrap =< w + 1 /\ w + 1 < 2 * Wrap
    BY <1>1, SMTT(60)
  <2> QED BY <2>1, <1>1, <1>3, OnClock, SMTT(60) DEF Reading
<1>5. x \in Clock
  BY <1>1, <1>4, SMTT(60) DEF Clock
<1>6. (w + a) % Wrap = Reading(w + a)
  <2>1. w + a \in Int /\ -Wrap =< w + a /\ w + a < 2 * Wrap
    BY <1>1, <1>2, SMTT(60)
  <2> QED BY <2>1, OnClock
<1>7. (x + (a - 1)) % Wrap = Reading(x + (a - 1))
  <2>1. x + (a - 1) \in Int /\ -Wrap =< x + (a - 1) /\ x + (a - 1) < 2 * Wrap
    BY <1>1, <1>2, <1>4, SMTT(60)
  <2> QED BY <2>1, OnClock
<1>8. (x + (a - 1)) % Wrap = (w + a) % Wrap
  BY <1>1, <1>2, <1>4, <1>6, <1>7, SMTT(60) DEF Reading
<1> QED BY <1>3, <1>5, <1>8

-----------------------------------------------------------------------------
(* Timers in a list.                                                        *)

\* Along c there are the timers of W, each once, with the times at which they
\* are due, and in the order in which they are.
Timed(h, time, c, n, W, lf, w) ==
  /\ \A i \in Numbers : i < n => h[c[i]] \in W /\ time[c[i]] = (w + lf[h[c[i]]]) % Wrap
  /\ \A i, j \in Numbers : i < n /\ j < n /\ h[c[i]] = h[c[j]] => i = j
  /\ \A t \in W : \E i \in Numbers : i < n /\ h[c[i]] = t
  /\ \A i, j \in Numbers : i < j /\ j < n => lf[h[c[i]]] =< lf[h[c[j]]]

\* The place p an element due in d ticks belongs behind.
PlaceOf(p, h, c, n, lf, d) ==
  /\ p \in Int /\ -1 =< p /\ p < n
  /\ \A i \in Numbers : i =< p => lf[h[c[i]]] =< d
  /\ \A i \in Numbers : i > p /\ i < n => d =< lf[h[c[i]]]

\* Put there, a timer keeps the others timed.
LEMMA StaysTimed ==
  ASSUME NEW link, NEW a, NEW c, NEW n, GoesAlong(link, a, c, n), n < PoolSize,
         NEW e \in Elements, NotIn(e, c, n),
         NEW h \in [Elements -> Handlers], NEW time \in [Elements -> Int],
         NEW W \in SUBSET All, NEW lf \in [All -> Int], NEW w,
         Timed(h, time, c, n, W, lf, w),
         NEW hd \in All \ W, NEW d \in Int, NEW p, PlaceOf(p, h, c, n, lf, d)
  PROVE  Timed([h EXCEPT ![e] = hd], [time EXCEPT ![e] = (w + d) % Wrap],
               Behind(c, p, e), n + 1, W \cup {hd}, [lf EXCEPT ![hd] = d], w)
<1> DEFINE g == [h EXCEPT ![e] = hd]
           tm == [time EXCEPT ![e] = (w + d) % Wrap]
           b == Behind(c, p, e)
           l == [lf EXCEPT ![hd] = d]
           Was(i) == IF i =< p THEN i ELSE i - 1
<1>0. /\ PoolSize \in Nat /\ n \in Nat /\ p \in Int /\ -1 =< p /\ p < n /\ p + 1 \in Numbers
      /\ n < PoolSize
      /\ c \in [Numbers -> Numbers]
  BY PoolFacts, SMTT(60) DEF GoesAlong, Numbers, PlaceOf
<1>n. \A i \in Numbers : i \in Nat /\ i =< PoolSize
  BY PoolFacts, SMTT(60) DEF Numbers
<1>1. b[p + 1] = e /\ g[e] = hd /\ tm[e] = (w + d) % Wrap /\ l[hd] = d
  BY <1>0, SMTT(60) DEF Behind
<1>2. ASSUME NEW i \in Numbers, i < n + 1, i # p + 1
      PROVE  /\ Was(i) \in Numbers /\ Was(i) < n
             /\ g[b[i]] = h[c[Was(i)]] /\ tm[b[i]] = time[c[Was(i)]]
             /\ g[b[i]] \in W /\ l[g[b[i]]] = lf[h[c[Was(i)]]]
  <2>1. Was(i) \in Numbers /\ Was(i) < n /\ b[i] = c[Was(i)]
    <3>0. i \in Nat /\ i =< PoolSize
      BY <1>n
    <3>1. CASE i =< p
      BY <3>0, <3>1, <1>0, SMTT(60) DEF Behind
    <3>2. CASE ~(i =< p)
      <4>1. i - 1 \in Numbers /\ i - 1 < n
        BY <3>0, <3>2, <1>0, <1>2, SMTT(60) DEF Numbers
      <4> QED BY <4>1, <3>2, <1>2 DEF Behind
    <3> QED BY <3>1, <3>2
  <2> HIDE DEF Was, b
  <2>2. c[Was(i)] \in Elements /\ c[Was(i)] # e
    BY <2>1, ElementOf DEF NotIn
  <2>3. g[b[i]] = h[c[Was(i)]] /\ tm[b[i]] = time[c[Was(i)]]
    BY <2>1, <2>2
  <2>4. h[c[Was(i)]] \in W
    BY <2>1 DEF Timed
  <2>5. l[h[c[Was(i)]]] = lf[h[c[Was(i)]]]
    BY <2>4
  <2> QED BY <2>1, <2>3, <2>4, <2>5
<1>3. \A k \in Numbers : k < n => \E i \in Numbers : i < n + 1 /\ i # p + 1 /\ Was(i) = k
  <2> TAKE k \in Numbers
  <2> HAVE k < n
  <2>0. k \in Nat /\ k =< PoolSize
    BY <1>n
  <2>1. CASE k =< p
    BY <2>0, <2>1, <1>0, SMTT(60)
  <2>2. CASE ~(k =< p)
    <3>1. k + 1 \in Numbers /\ k + 1 < n + 1 /\ k + 1 # p + 1 /\ ~(k + 1 =< p) /\ k + 1 - 1 = k
      BY <2>0, <2>2, <1>0, SMTT(60) DEF Numbers
    <3>2. Was(k + 1) = k
      BY <2>0, <3>1, SMTT(60)
    <3> HIDE DEF Was
    <3> QED BY <3>1, <3>2
  <2> QED BY <2>1, <2>2
<1>4. ASSUME NEW i \in Numbers, NEW j \in Numbers, i # p + 1, j # p + 1
      PROVE  (Was(i) = Was(j) => i = j) /\ (i < j => Was(i) < Was(j))
             /\ (i < p + 1 => Was(i) =< p) /\ (i > p + 1 => Was(i) > p)
  <2>1. i \in Nat /\ j \in Nat
    BY <1>n
  <2> QED BY <2>1, <1>0, <1>4, SMTT(60)
<1> HIDE DEF g, tm, b, l, Was
<1>5. ASSUME NEW i \in Numbers, i < n + 1
      PROVE  g[b[i]] \in W \cup {hd} /\ tm[b[i]] = (w + l[g[b[i]]]) % Wrap
  <2>1. CASE i = p + 1
    BY <2>1, <1>1
  <2>2. CASE i # p + 1
    BY <2>2, <1>2, <1>5, SMTT(60) DEF Timed
  <2> QED BY <2>1, <2>2
<1>6. ASSUME NEW i \in Numbers, NEW j \in Numbers, i < n + 1, j < n + 1, g[b[i]] = g[b[j]]
      PROVE  i = j
  <2>1. CASE i = p + 1 \/ j = p + 1
    BY <2>1, <1>1, <1>2, <1>6
  <2>2. CASE i # p + 1 /\ j # p + 1
    <3>1. Was(i) = Was(j)
      BY <2>2, <1>2, <1>6, SMTT(60) DEF Timed
    <3> QED BY <3>1, <2>2, <1>4
  <2> QED BY <2>1, <2>2
<1>7. ASSUME NEW t \in W \cup {hd}
      PROVE  \E i \in Numbers : i < n + 1 /\ g[b[i]] = t
  <2>1. CASE t = hd
    <3>1. p + 1 < n + 1
      BY <1>0, SMTT(60)
    <3> QED BY <3>1, <2>1, <1>0, <1>1
  <2>2. CASE t \in W
    <3>1. PICK k \in Numbers : k < n /\ h[c[k]] = t
      BY <2>2 DEF Timed
    <3>2. PICK i \in Numbers : i < n + 1 /\ i # p + 1 /\ Was(i) = k
      BY <3>1, <1>3
    <3> QED BY <3>1, <3>2, <1>2
  <2> QED BY <2>1, <2>2
<1>8. ASSUME NEW i \in Numbers, NEW j \in Numbers, i < j, j < n + 1
      PROVE  l[g[b[i]]] =< l[g[b[j]]]
  <2>0. i \in Nat /\ j \in Nat /\ i < n + 1
    BY <1>8, <1>n, <1>0, SMTT(60)
  <2>1. CASE i = p + 1
    <3>1. j # p + 1 /\ j > p + 1
      BY <2>0, <2>1, <1>8, SMTT(60)
    <3>2. l[g[b[i]]] = d
      BY <2>1, <1>1
    <3>3. Was(j) > p /\ Was(j) < n /\ Was(j) \in Numbers /\ l[g[b[j]]] = lf[h[c[Was(j)]]]
      BY <3>1, <1>2, <1>4, <1>8
    <3> QED BY <3>2, <3>3 DEF PlaceOf
  <2>2. CASE j = p + 1
    <3>1. i # p + 1 /\ i < p + 1
      BY <2>0, <2>2, <1>8, SMTT(60)
    <3>2. l[g[b[j]]] = d
      BY <2>2, <1>1
    <3>3. Was(i) =< p /\ Was(i) \in Numbers /\ l[g[b[i]]] = lf[h[c[Was(i)]]]
      BY <3>1, <2>0, <1>2, <1>4
    <3> QED BY <3>2, <3>3 DEF PlaceOf
  <2>3. CASE i # p + 1 /\ j # p + 1
    <3>1. Was(i) < Was(j) /\ Was(j) < n /\ Was(i) \in Numbers /\ Was(j) \in Numbers
      BY <2>0, <2>3, <1>2, <1>4, <1>8
    <3>2. l[g[b[i]]] = lf[h[c[Was(i)]]] /\ l[g[b[j]]] = lf[h[c[Was(j)]]]
      BY <2>0, <2>3, <1>2, <1>8
    <3> QED BY <3>1, <3>2, SMTT(60) DEF Timed
  <2> QED BY <2>1, <2>2, <2>3
<1>9. Timed(g, tm, b, n + 1, W \cup {hd}, l, w)
  BY <1>5, <1>6, <1>7, <1>8 DEF Timed
<1> QED BY <1>9 DEF g, tm, b, l

\* No timer is late, or far off, beyond what the clock can tell.
Reach(lf, W) == \A t \in W : lf[t] \in Int /\ 1 - 3 * MaxGap =< lf[t] /\ lf[t] =< Interval[t]

\* The time of each timer along c, compared with that of one due in d ticks.
Compares(m, c, n, t, h, lf, d) ==
  \A i \in Numbers : i < n => /\ lf[h[c[i]]] \in Int
                              /\ TIME_LESS_THAN(t, m.time[c[i]]) <=> d < lf[h[c[i]]]

\* TIME_LESS_THAN tells which of two timers within reach is due first, however
\* the clock has wrapped round.
LEMMA ClockCompares ==
  ASSUME NEW W \in SUBSET All, NEW lf, Reach(lf, W), NEW w \in Clock,
         NEW hd \in All, NEW d \in 0..Interval[hd],
         NEW m, NEW h, NEW c, NEW n,
         \A i \in Numbers : i < n => h[c[i]] \in W /\ m.time[c[i]] = (w + lf[h[c[i]]]) % Wrap
  PROVE  Compares(m, c, n, (w + d) % Wrap, h, lf, d)
<1> SUFFICES ASSUME NEW i \in Numbers, i < n
             PROVE  /\ lf[h[c[i]]] \in Int
                    /\ TIME_LESS_THAN((w + d) % Wrap, m.time[c[i]]) <=> d < lf[h[c[i]]]
  BY DEF Compares
<1>1. h[c[i]] \in W /\ m.time[c[i]] = (w + lf[h[c[i]]]) % Wrap
  OBVIOUS
<1>2. PICK t \in W : t = h[c[i]]
  BY <1>1
<1>3. PICK x \in Int : x = lf[t] /\ 1 - 3 * MaxGap =< x /\ x =< Interval[t]
  BY DEF Reach
<1>4. /\ Interval[t] \in Nat /\ Interval[t] + 3 * MaxGap =< Wrap \div 2
      /\ Interval[hd] \in Nat /\ Interval[hd] + 3 * MaxGap =< Wrap \div 2
      /\ MaxGap \in Nat /\ Wrap \div 2 \in Nat /\ Interval[t] > 0 /\ Interval[hd] > 0
  BY ClockFacts
<1>5. /\ -(Wrap \div 2) =< d /\ d =< Wrap \div 2 /\ -(Wrap \div 2) =< x /\ x =< Wrap \div 2
      /\ d - x < Wrap \div 2 /\ x - d =< Wrap \div 2 /\ d \in Int
  <2>1. PICK H \in Nat : H = Wrap \div 2
    BY <1>4
  <2>2. d \in Int /\ 0 =< d /\ d =< Interval[hd]
    BY <1>4, SMTT(60)
  <2> QED BY <1>3, <1>4, <2>1, <2>2, SMTT(60)
<1>6. TIME_LESS_THAN((w + d) % Wrap, (w + x) % Wrap) <=> d < x
  BY <1>5, LessThan
<1> QED BY <1>1, <1>2, <1>3, <1>6

\* The loop of sys_timeout_abs finds the place.
LEMMA FindPlace ==
  ASSUME NEW m, m.link \in Links, NEW a, NEW c, NEW n, GoesAlong(m.link, a, c, n), n > 0,
         NEW h, NEW lf, NEW d \in Int, NEW t, Compares(m, c, n, t, h, lf, d),
         ~TIME_LESS_THAN(t, m.time[a]),
         \A i, j \in Numbers : i < j /\ j < n => lf[h[c[i]]] =< lf[h[c[j]]]
  PROVE  /\ Places(m, c, t) # {}
         /\ Min(Places(m, c, t)) \in Numbers /\ Min(Places(m, c, t)) < n
         /\ PlaceOf(Min(Places(m, c, t)), h, c, n, lf, d)
<1> DEFINE S == Places(m, c, t)
<1>0. /\ PoolSize \in Nat /\ n \in Nat /\ n - 1 \in Numbers /\ n \in Numbers
      /\ c \in [Numbers -> Numbers] /\ c[0] = a /\ 0 \in Numbers
  <2>1. n \in Numbers /\ c \in [Numbers -> Numbers] /\ c[0] = a
    BY DEF GoesAlong
  <2>2. n \in 0..PoolSize /\ n > 0
    BY <2>1 DEF Numbers
  <2>3. PoolSize \in Nat
    BY PoolFacts
  <2>4. n \in Nat /\ n - 1 \in 0..PoolSize /\ 0 \in 0..PoolSize
    BY <2>2, <2>3, SMTT(60)
  <2> QED BY <2>1, <2>3, <2>4 DEF Numbers
<1>n. \A i \in Numbers : i \in Nat /\ i =< PoolSize /\ (i < n => i + 1 \in Numbers)
  BY <1>0, SMTT(60) DEF Numbers
<1>1. \A i \in Numbers : i \in S <=> /\ c[i] # 0
                                     /\ m.link[c[i]] = 0 \/ TIME_LESS_THAN(t, m.time[m.link[c[i]]])
  BY DEF Places, Numbers, NULL
<1>2. S \in SUBSET Numbers
  BY DEF Places, Numbers
<1> HIDE DEF S
<1>3. \A i \in Numbers : c[i] # 0 <=> i < n
  BY <1>n, <1>0, SMTT(60) DEF GoesAlong
<1>4. \A i \in Numbers : i < n => m.link[c[i]] = c[i + 1]
  BY DEF GoesAlong
<1>5. n - 1 \in S
  <2>1. n - 1 < n /\ n - 1 + 1 = n /\ ~(n < n)
    BY <1>0, SMTT(60)
  <2>2. m.link[c[n - 1]] = 0
    BY <2>1, <1>0, <1>3, <1>4
  <2> QED BY <2>1, <2>2, <1>0, <1>1, <1>3
<1>6. PICK p : p = Min(S)
  OBVIOUS
<1>7. p \in S /\ \A y \in S : p =< y
  <2>1. S \in SUBSET Nat
    BY <1>2, <1>n
  <2> QED BY <2>1, <1>5, <1>6, MinOfNats
<1>8. p \in Numbers /\ p \in Nat /\ p < n
  BY <1>7, <1>2, <1>1, <1>3, <1>n
<1>9. ASSUME NEW i \in Numbers, i =< p PROVE lf[h[c[i]]] =< d
  <2>0. i \in Nat /\ i < n
    BY <1>8, <1>9, <1>n, <1>0, SMTT(60)
  <2>1. ~TIME_LESS_THAN(t, m.time[c[i]])
    <3>1. CASE i = 0
      BY <3>1, <1>0
    <3>2. CASE i # 0
      <4>1. i - 1 \in Numbers /\ i - 1 < n /\ ~(p =< i - 1) /\ i - 1 + 1 = i
        BY <3>2, <2>0, <1>8, <1>9, <1>0, SMTT(60) DEF Numbers
      <4>2. i - 1 \notin S /\ m.link[c[i - 1]] = c[i] /\ c[i - 1] # 0
        BY <4>1, <1>7, <1>4, <1>3
      <4> QED BY <4>1, <4>2, <1>1
    <3> QED BY <3>1, <3>2
  <2>2. lf[h[c[i]]] \in Int /\ ~(d < lf[h[c[i]]])
    BY <2>0, <2>1 DEF Compares
  <2> QED BY <2>2, SMTT(60)
<1>10. ASSUME NEW i \in Numbers, i > p, i < n PROVE d =< lf[h[c[i]]]
  <2>0. i \in Nat /\ p + 1 \in Numbers /\ p + 1 < n + 1 /\ p + 1 =< i
    BY <1>8, <1>10, <1>n, <1>0, SMTT(60)
  <2>1. p + 1 < n
    BY <2>0, <1>8, <1>10, <1>0, SMTT(60)
  <2>2. c[p + 1] # 0 /\ m.link[c[p]] = c[p + 1]
    BY <2>0, <2>1, <1>3, <1>4, <1>8
  <2>3. TIME_LESS_THAN(t, m.time[c[p + 1]])
    BY <2>2, <1>1, <1>7, <1>8
  <2>4. lf[h[c[p + 1]]] \in Int /\ d < lf[h[c[p + 1]]] /\ lf[h[c[i]]] \in Int
    BY <2>0, <2>1, <2>3, <1>10 DEF Compares
  <2>5. lf[h[c[p + 1]]] =< lf[h[c[i]]]
    <3>1. CASE i = p + 1
      BY <3>1, <2>4, SMTT(60)
    <3>2. CASE i # p + 1
      <4>1. p + 1 < i
        BY <2>0, <3>2, <1>8, SMTT(60)
      <4> QED BY <4>1, <2>0, <1>10
    <3> QED BY <3>1, <3>2
  <2> QED BY <2>4, <2>5, SMTT(60)
<1>11. PlaceOf(p, h, c, n, lf, d)
  <2>1. p \in Int /\ -1 =< p
    BY <1>8, SMTT(60)
  <2> QED BY <2>1, <1>8, <1>9, <1>10 DEF PlaceOf
<1> QED BY <1>5, <1>6, <1>8, <1>11 DEF S

\* An element that is neither in the list nor the one put there is not in the
\* longer list.
LEMMA NotBehind ==
  ASSUME NEW c, NEW n \in Numbers, NEW p \in Int, -1 =< p, p < n, NEW e, NEW x, x # e, NotIn(x, c, n)
  PROVE  NotIn(x, Behind(c, p, e), n + 1)
<1> SUFFICES ASSUME NEW i \in Numbers, i < n + 1 PROVE Behind(c, p, e)[i] # x
  BY DEF NotIn
<1>0. i \in Nat /\ n \in Nat /\ PoolSize \in Nat /\ i =< PoolSize
  BY PoolFacts, SMTT(60) DEF Numbers
<1>1. CASE i =< p
  <2>1. i < n
    BY <1>0, <1>1, SMTT(60)
  <2> QED BY <2>1, <1>1 DEF NotIn, Behind
<1>2. CASE i = p + 1
  BY <1>2, <1>0, SMTT(60) DEF Behind
<1>3. CASE i > p + 1
  <2>1. i - 1 \in Numbers /\ i - 1 < n /\ ~(i =< p) /\ i # p + 1
    BY <1>0, <1>3, SMTT(60) DEF Numbers
  <2> QED BY <2>1 DEF NotIn, Behind
<1> QED BY <1>0, <1>1, <1>2, <1>3, SMTT(60)

\* In q element e is behind place p of the timer list c.
IsBehind(q, l, b, e, c, n, p) ==
  /\ p \in Int /\ -1 =< p /\ p < n
  /\ q.link \in Links /\ q.link[0] = 0 /\ q.tab = b
  /\ q.h \in [Elements -> Handlers] /\ q.time \in [Elements -> Int]
  /\ GoesAlong(q.link, q.next_timeout, Behind(c, p, e), n + 1)
  /\ \A x \in Numbers : x # e /\ NotIn(x, c, n) => q.link[x] = l[x]

\* The element that was taken is in the timer list.
LEMMA Joined ==
  ASSUME NEW m, NEW e, NEW l, NEW b, NEW c, NEW n, NEW g, NEW k, TookOne(m, e, l, b, c, n, g, k),
         NEW q, NEW p, IsBehind(q, l, b, e, c, n, p), n + 1 + k = PoolSize
  PROVE  TwoLists(q, Behind(c, p, e), n + 1, g, k)
<1> USE DEF IsBehind
<1>0. /\ GoesAlong(l, b, g, k) /\ NotIn(e, g, k) /\ n \in Numbers
      /\ \A i \in Numbers : i < k => NotIn(g[i], c, n)
  BY DEF TookOne, GoesAlong
<1>1. ASSUME NEW i \in Numbers, i < k PROVE g[i] # e /\ g[i] \in Numbers /\ NotIn(g[i], c, n)
  BY <1>0, <1>1, SMTT(60) DEF NotIn, GoesAlong
<1>2. \A i \in Numbers : i < k => q.link[g[i]] = l[g[i]]
  BY <1>1 DEF NotIn
<1>3. GoesAlong(q.link, q.tab, g, k)
  BY <1>0, <1>2, ListStays, SMTT(60)
<1>4. \A i \in Numbers : i < k => NotIn(g[i], Behind(c, p, e), n + 1)
  BY <1>0, <1>1, NotBehind
<1> QED BY <1>3, <1>4 DEF TwoLists

\* The two lists and the timers in the first.
Keeps(m, c, n, f, k, W, lf, w) == TwoLists(m, c, n, f, k) /\ Timed(m.h, m.time, c, n, W, lf, w)

\* sys_timeout_abs finds an element and a place and keeps the timers in order.
LEMMA Inserted ==
  ASSUME NEW m, NEW c, NEW n, NEW f, NEW k, NEW W \in SUBSET All, NEW lf \in [All -> Int],
         NEW w \in Clock, Keeps(m, c, n, f, k, W, lf, w), k > 0, Reach(lf, W),
         NEW hd \in All \ W, NEW d \in 0..Interval[hd]
  PROVE  /\ CanInsert(m, (w + d) % Wrap, hd)
         /\ \E b, g : Keeps(sys_timeout_abs(m, (w + d) % Wrap, hd), b, n + 1, g, k - 1,
                            W \cup {hd}, [lf EXCEPT ![hd] = d], w)
<1> DEFINE t == (w + d) % Wrap
           e == m.tab
           a == m.next_timeout
           l == [m.link EXCEPT ![e] = NULL]
           h == [m.h EXCEPT ![e] = hd]
           tm == [m.time EXCEPT ![e] = t]
           N == Taken(m, t, hd)
           lf2 == [lf EXCEPT ![hd] = d]
<1>0. TwoLists(m, c, n, f, k) /\ Timed(m.h, m.time, c, n, W, lf, w)
  BY DEF Keeps
<1>k. k \in Nat /\ n \in Nat /\ n < PoolSize /\ PoolSize \in Nat /\ n + 1 + (k - 1) = PoolSize
  BY <1>0, PoolFacts, SMTT(60) DEF TwoLists, GoesAlong, Numbers
<1>d. d \in Int /\ t \in Int
  BY ClockFacts, SMTT(60) DEF Clock
<1>1. /\ N.link = l /\ N.h = h /\ N.time = tm /\ N.next_timeout = a /\ N.tab = m.link[e]
  <2>1. N = Mem(l, h, tm, a, m.link[e])
    BY DEF Taken
  <2> HIDE DEF N, l, h, tm, a, e
  <2> QED BY <2>1 DEF Mem
<1>2. PICK g : TookOne(m, e, l, m.link[e], c, n, g, k - 1)
  BY <1>0, TakeOne
<1>3. /\ e \in Elements /\ NotIn(e, c, n) /\ l \in Links /\ l[0] = 0 /\ l[e] = 0
      /\ GoesAlong(l, a, c, n) /\ e # 0 /\ e \in Numbers
  BY <1>2, PoolFacts, SMTT(60) DEF TookOne, Elements, Numbers
<1>4. /\ m.h \in [Elements -> Handlers] /\ m.time \in [Elements -> Int]
      /\ h \in [Elements -> Handlers] /\ tm \in [Elements -> Int]
  <2>1. m.h \in [Elements -> Handlers] /\ m.time \in [Elements -> Int]
    BY <1>0 DEF TwoLists
  <2>2. hd \in Handlers
    BY DEF Handlers
  <2> HIDE DEF t
  <2> QED BY <2>1, <2>2, <1>d
<1> HIDE DEF t, e, a, l, h, tm, N, lf2
<1>5. Chain(N, a) = c
  BY <1>1, <1>3, ChainIs
<1>6. Compares(N, c, n, t, m.h, lf, d)
  <2>1. ASSUME NEW i \in Numbers, i < n
        PROVE  m.h[c[i]] \in W /\ N.time[c[i]] = (w + lf[m.h[c[i]]]) % Wrap
    <3>1. c[i] \in Elements /\ c[i] # e
      BY <1>3, <2>1, ElementOf DEF NotIn
    <3>2. tm[c[i]] = m.time[c[i]]
      BY <3>1, <1>4 DEF tm
    <3> QED BY <3>2, <1>1, <1>0, <2>1 DEF Timed
  <2> QED BY <2>1, ClockCompares DEF t
<1>7. \A i, j \in Numbers : i < j /\ j < n => lf[m.h[c[i]]] =< lf[m.h[c[j]]]
  BY <1>0 DEF Timed
<1>8. ASSUME NEW p, PlaceOf(p, m.h, c, n, lf, d)
      PROVE  Timed(h, tm, Behind(c, p, e), n + 1, W \cup {hd}, lf2, w)
  BY <1>8, <1>0, <1>3, <1>4, <1>d, <1>k, StaysTimed DEF h, tm, lf2, t
<1>9. CanInsert(m, t, hd) <=> m.tab # NULL /\ (InFront(N, t) \/ Places(N, c, t) # {})
  BY <1>1, <1>5 DEF CanInsert, N
<1>10. m.tab # NULL
  BY <1>3 DEF e, NULL
<1>11. CASE InFront(N, t)
  <2> DEFINE L == [l EXCEPT ![e] = a]
             q == Mem(L, h, tm, e, m.link[e])
             B == Behind(c, -1, e)
  <2>1. sys_timeout_abs(m, t, hd) = q
    BY <1>11, <1>1 DEF sys_timeout_abs, N, e
  <2>2. PlaceOf(-1, m.h, c, n, lf, d)
    <3>1. ASSUME NEW i \in Numbers, i < n PROVE d =< lf[m.h[c[i]]]
      <4>0. i \in Nat /\ 0 \in Numbers /\ 0 < n
        BY <3>1, <1>k, PoolFacts, SMTT(60) DEF Numbers
      <4>1. a = c[0] /\ a # NULL
        BY <4>0, <1>3 DEF GoesAlong, NULL
      <4>2. TIME_LESS_THAN(t, N.time[c[0]])
        BY <4>1, <1>1, <1>11 DEF InFront
      <4>3. lf[m.h[c[0]]] \in Int /\ d < lf[m.h[c[0]]] /\ lf[m.h[c[i]]] \in Int
        BY <4>0, <4>2, <1>6, <3>1 DEF Compares
      <4>4. CASE i = 0
        BY <4>4, <4>3, <1>d, SMTT(60)
      <4>5. CASE i # 0
        <5>1. lf[m.h[c[0]]] =< lf[m.h[c[i]]]
          BY <4>0, <4>5, <1>7, <3>1, SMTT(60)
        <5> QED BY <5>1, <4>3, <1>d, SMTT(60)
      <4> QED BY <4>4, <4>5
    <3>2. \A i \in Numbers : ~(i =< -1)
      BY PoolFacts, SMTT(60) DEF Numbers
    <3> QED BY <3>1, <3>2, <1>k, SMTT(60) DEF PlaceOf
  <2>3. Timed(h, tm, B, n + 1, W \cup {hd}, lf2, w)
    BY <2>2, <1>8
  <2>4. /\ q.link = L /\ q.h = h /\ q.time = tm /\ q.next_timeout = e
        /\ q.tab = m.link[e]
    <3>1. q = Mem(L, h, tm, e, m.link[e])
      OBVIOUS
    <3> HIDE DEF q, L
    <3> QED BY <3>1 DEF Mem
  <2>5. GoesAlong(q.link, e, B, n + 1)
    <3>1. n < PoolSize
      BY <1>k
    <3>2. GoesAlong(L, e, Behind(c, -1, e), n + 1)
      BY <3>1, <1>3, PutInFront
    <3> QED BY <3>2, <2>4
  <2>6. a \in Numbers
    BY <1>3, PoolFacts DEF GoesAlong
  <2>7. /\ q.link \in Links /\ q.link[0] = 0
        /\ \A x \in Numbers : x # e => q.link[x] = l[x]
    BY <2>4, <2>6, <1>3, PoolFacts DEF Links
  <2> HIDE DEF q
  <2>8. TwoLists(q, B, n + 1, g, k - 1)
    <3>1. -1 \in Int /\ -1 =< -1 /\ -1 < n
      BY <1>k, SMTT(60)
    <3> HIDE DEF B
    <3>2. GoesAlong(q.link, q.next_timeout, B, n + 1) /\ q.tab = m.link[e]
      BY <2>4, <2>5
    <3>3. IsBehind(q, l, m.link[e], e, c, n, -1)
      BY <3>1, <3>2, <2>4, <2>7, <1>4 DEF B, IsBehind
    <3> QED BY <3>3, <1>2, <1>k, Joined DEF B
  <2> HIDE DEF B
  <2> QED BY <2>1, <2>3, <2>4, <2>8, <1>9, <1>10, <1>11 DEF Keeps, t, lf2
<1>12. CASE ~InFront(N, t)
  <2> DEFINE p == Min(Places(N, c, t))
             L == [l EXCEPT ![e] = l[c[p]], ![c[p]] = e]
             q == Mem(L, h, tm, a, m.link[e])
             B == Behind(c, p, e)
  <2>1. a # 0 /\ ~TIME_LESS_THAN(t, N.time[a])
    BY <1>12, <1>1 DEF InFront, NULL
  <2>2. n > 0
    BY <2>1, <1>3, <1>k, PoolFacts, SMTT(60) DEF GoesAlong
  <2>3. Places(N, c, t) # {} /\ p \in Numbers /\ p < n /\ PlaceOf(p, m.h, c, n, lf, d)
    <3>1. N.link \in Links /\ GoesAlong(N.link, a, c, n) /\ d \in Int
      BY <1>1, <1>3, <1>d
    <3> QED BY <3>1, <2>1, <2>2, <1>6, <1>7, FindPlace
  <2>4. sys_timeout_abs(m, t, hd) = q
    BY <1>12, <1>1, <1>5 DEF sys_timeout_abs, N, e
  <2> HIDE DEF p
  <2>5. Timed(h, tm, B, n + 1, W \cup {hd}, lf2, w)
    BY <2>3, <1>8
  <2>6. /\ q.link = L /\ q.h = h /\ q.time = tm
        /\ q.next_timeout = a /\ q.tab = m.link[e]
    <3>1. q = Mem(L, h, tm, a, m.link[e])
      OBVIOUS
    <3> HIDE DEF q, L
    <3> QED BY <3>1 DEF Mem
  <2>7. GoesAlong(q.link, a, B, n + 1)
    <3>1. GoesAlong(L, a, B, n + 1)
      BY <2>3, <1>3, <1>k, PutBehind
    <3> QED BY <3>1, <2>6
  <2>8. c[p] \in Numbers /\ c[p] # 0 /\ l[c[p]] \in Numbers
    BY <2>3, <1>3 DEF GoesAlong, Links
  <2>9. /\ q.link \in Links /\ q.link[0] = 0
        /\ \A x \in Numbers : x # e /\ x # c[p] => q.link[x] = l[x]
    BY <2>6, <2>8, <1>3, PoolFacts DEF Links
  <2> HIDE DEF q
  <2>10. TwoLists(q, B, n + 1, g, k - 1)
    <3>1. p \in Int /\ -1 =< p
      BY <2>3 DEF PlaceOf
    <3> HIDE DEF B
    <3>2. GoesAlong(q.link, q.next_timeout, B, n + 1) /\ q.tab = m.link[e]
      BY <2>6, <2>7
    <3>3. \A x \in Numbers : x # e /\ NotIn(x, c, n) => q.link[x] = l[x]
      BY <2>3, <2>9 DEF NotIn
    <3>4. IsBehind(q, l, m.link[e], e, c, n, p)
      BY <3>1, <3>2, <3>3, <2>3, <2>6, <2>9, <1>4 DEF B, IsBehind
    <3> QED BY <3>4, <1>2, <1>k, Joined DEF B
  <2> HIDE DEF B
  <2> QED BY <2>3, <2>4, <2>5, <2>6, <2>10, <1>9, <1>10 DEF Keeps, t, lf2
<1> QED BY <1>11, <1>12

\* Without its first element the list is still timed.
LEMMA RestTimed ==
  ASSUME NEW link, NEW a, NEW c, NEW n, GoesAlong(link, a, c, n), n > 0,
         NEW h, NEW time, NEW W, NEW lf, NEW w, Timed(h, time, c, n, W, lf, w)
  PROVE  /\ h[a] \in W
         /\ Timed(h, time, [i \in Numbers |-> IF i = PoolSize THEN 0 ELSE c[i + 1]], n - 1,
                  W \ {h[a]}, lf, w)
<1> DEFINE d == [i \in Numbers |-> IF i = PoolSize THEN 0 ELSE c[i + 1]]
<1>0. PoolSize \in Nat /\ n \in Nat /\ 0 \in Numbers /\ c[0] = a /\ n =< PoolSize /\ 0 < n
  BY PoolFacts, SMTT(60) DEF GoesAlong, Numbers
<1>1. \A i \in Numbers : i < n - 1 => i \in Nat /\ d[i] = c[i + 1] /\ i + 1 \in Numbers /\ i + 1 < n
  BY <1>0, SMTT(60) DEF Numbers
<1>2. h[a] \in W
  BY <1>0 DEF Timed
<1> HIDE DEF d
<1>3. ASSUME NEW i \in Numbers, i < n - 1
      PROVE  h[d[i]] \in W \ {h[a]} /\ time[d[i]] = (w + lf[h[d[i]]]) % Wrap
  <2>1. i \in Nat /\ d[i] = c[i + 1] /\ i + 1 \in Numbers /\ i + 1 < n /\ i + 1 # 0
    BY <1>1, <1>3, SMTT(60)
  <2>2. h[c[i + 1]] # h[c[0]]
    BY <2>1, <1>0 DEF Timed
  <2> QED BY <2>1, <2>2, <1>0, SMTT(60) DEF Timed
<1>4. ASSUME NEW i \in Numbers, NEW j \in Numbers, i < n - 1, j < n - 1, h[d[i]] = h[d[j]]
      PROVE  i = j
  <2>1. i \in Nat /\ j \in Nat /\ i + 1 = j + 1
    BY <1>1, <1>4, SMTT(60) DEF Timed
  <2> QED BY <2>1, SMTT(60)
<1>5. ASSUME NEW t \in W \ {h[a]} PROVE \E i \in Numbers : i < n - 1 /\ h[d[i]] = t
  <2>1. PICK k \in Numbers : k < n /\ h[c[k]] = t
    BY DEF Timed
  <2>2. k # 0
    BY <2>1, <1>0
  <2>3. k - 1 \in Numbers /\ k - 1 < n - 1 /\ k - 1 + 1 = k
    BY <2>1, <2>2, <1>0, SMTT(60) DEF Numbers
  <2> QED BY <2>1, <2>3, <1>1
<1>6. ASSUME NEW i \in Numbers, NEW j \in Numbers, i < j, j < n - 1
      PROVE  lf[h[d[i]]] =< lf[h[d[j]]]
  <2>1. i \in Nat /\ j \in Nat /\ i < n - 1
    BY <1>0, <1>6, SMTT(60) DEF Numbers
  <2>2. i + 1 < j + 1
    BY <2>1, <1>6, SMTT(60)
  <2> QED BY <2>1, <2>2, <1>1, <1>6, SMTT(60) DEF Timed
<1>7. Timed(h, time, d, n - 1, W \ {h[a]}, lf, w)
  BY <1>3, <1>4, <1>5, <1>6 DEF Timed
<1> QED BY <1>2, <1>7 DEF d

\* There are n elements in the timer list, those of the timers of W, and the
\* others are free.
InLists(m, n, W, lf, w) ==
  Keeps(m, Chain(m, m.next_timeout), n, Chain(m, m.tab), PoolSize - n, W, lf, w)

\* The lists that Chain walks are the only ones there are.
LEMMA InListsIf ==
  ASSUME NEW m, NEW c, NEW n, NEW f, NEW k, NEW W, NEW lf, NEW w, Keeps(m, c, n, f, k, W, lf, w)
  PROVE  InLists(m, n, W, lf, w)
<1>1. /\ m.link \in Links /\ m.link[0] = 0
      /\ GoesAlong(m.link, m.next_timeout, c, n) /\ GoesAlong(m.link, m.tab, f, k)
      /\ n + k = PoolSize
  BY DEF Keeps, TwoLists
<1>2. n \in Nat /\ k \in Nat
  BY <1>1, PoolFacts, SMTT(60) DEF GoesAlong, Numbers
<1>3. k = PoolSize - n
  BY <1>1, <1>2, SMTT(60)
<1>4. Chain(m, m.next_timeout) = c /\ Chain(m, m.tab) = f
  BY <1>1, ChainIs
<1> QED BY <1>3, <1>4 DEF InLists

\* sys_timeout_abs: the same, of the lists as the heads give them.
LEMMA InsertedIn ==
  ASSUME NEW m, NEW n, NEW W \in SUBSET All, NEW lf \in [All -> Int], NEW w \in Clock,
         InLists(m, n, W, lf, w), n < PoolSize, Reach(lf, W),
         NEW hd \in All \ W, NEW d \in 0..Interval[hd]
  PROVE  /\ CanInsert(m, (w + d) % Wrap, hd)
         /\ InLists(sys_timeout_abs(m, (w + d) % Wrap, hd), n + 1,
                    W \cup {hd}, [lf EXCEPT ![hd] = d], w)
<1> DEFINE c == Chain(m, m.next_timeout)
           f == Chain(m, m.tab)
           k == PoolSize - n
<1>1. Keeps(m, c, n, f, k, W, lf, w)
  BY DEF InLists
<1>2. k > 0
  <2>1. n \in Numbers
    BY <1>1 DEF Keeps, TwoLists, GoesAlong
  <2> QED BY <2>1, PoolFacts, SMTT(60) DEF Numbers
<1> HIDE DEF c, f, k
<1>3. /\ CanInsert(m, (w + d) % Wrap, hd)
      /\ \E b, g : Keeps(sys_timeout_abs(m, (w + d) % Wrap, hd), b, n + 1, g, k - 1,
                         W \cup {hd}, [lf EXCEPT ![hd] = d], w)
  BY <1>1, <1>2, Inserted
<1> QED BY <1>3, InListsIf

\* The first timer of the list, and the lists once its element is free again.
LEMMA PoppedFrom ==
  ASSUME NEW m, NEW n, NEW W, NEW lf, NEW w, InLists(m, n, W, lf, w), m.next_timeout # NULL
  PROVE  LET a == m.next_timeout IN
         /\ n \in Nat /\ n > 0 /\ n =< PoolSize /\ m.h[a] \in W
         /\ m.time[a] = (w + lf[m.h[a]]) % Wrap
         /\ InLists(memp_free(Mem(m.link, m.h, m.time, m.link[a], m.tab), a), n - 1,
                    W \ {m.h[a]}, lf, w)
<1> DEFINE a == m.next_timeout
           c == Chain(m, a)
           f == Chain(m, m.tab)
           k == PoolSize - n
           d == [i \in Numbers |-> IF i = PoolSize THEN 0 ELSE c[i + 1]]
           q == memp_free(Mem(m.link, m.h, m.time, m.link[a], m.tab), a)
<1>1. TwoLists(m, c, n, f, k) /\ Timed(m.h, m.time, c, n, W, lf, w)
  BY DEF InLists, Keeps
<1> HIDE DEF c, f, k
<1>2. GoesAlong(m.link, a, c, n)
  BY <1>1 DEF TwoLists
<1>3. n \in Nat /\ n =< PoolSize /\ 0 \in Numbers /\ c[0] = a /\ PoolSize \in Nat
  BY <1>2, PoolFacts, SMTT(60) DEF GoesAlong, Numbers
<1>4. n > 0
  BY <1>2, <1>3, SMTT(60) DEF GoesAlong, NULL
<1>5. m.time[a] = (w + lf[m.h[a]]) % Wrap
  BY <1>1, <1>3, <1>4 DEF Timed
<1>6. m.h[a] \in W /\ Timed(m.h, m.time, d, n - 1, W \ {m.h[a]}, lf, w)
  <2>1. Timed(m.h, m.time, c, n, W, lf, w)
    BY <1>1
  <2> QED BY <2>1, <1>2, <1>4, RestTimed
<1>7. TwoLists(q, d, n - 1, Behind(f, -1, a), k + 1)
  BY <1>1, <1>4, GiveBack
<1>8. q.h = m.h /\ q.time = m.time
  <2> DEFINE r == Mem(m.link, m.h, m.time, m.link[a], m.tab)
             L == [r.link EXCEPT ![a] = r.tab]
  <2>1. r.h = m.h /\ r.time = m.time
    <3>1. r = Mem(m.link, m.h, m.time, m.link[a], m.tab)
      OBVIOUS
    <3> HIDE DEF r
    <3> QED BY <3>1 DEF Mem
  <2>2. q = Mem(L, r.h, r.time, r.next_timeout, a)
    BY DEF memp_free
  <2> HIDE DEF q, r, L
  <2>3. q.h = r.h /\ q.time = r.time
    BY <2>2 DEF Mem
  <2> QED BY <2>1, <2>3
<1> HIDE DEF d, q
<1>9. Keeps(q, d, n - 1, Behind(f, -1, a), k + 1, W \ {m.h[a]}, lf, w)
  BY <1>6, <1>7, <1>8 DEF Keeps
<1>10. InLists(q, n - 1, W \ {m.h[a]}, lf, w)
  BY <1>9, InListsIf
<1> QED BY <1>3, <1>4, <1>5, <1>6, <1>10 DEF q

\* memp_init_pool: all elements are free, if there is no timer.
LEMMA InitPool ==
  ASSUME NEW m, m.h \in [Elements -> Handlers], m.time \in [Elements -> Int], m.next_timeout = NULL,
         NEW lf, NEW w
  PROVE  InLists(memp_init_pool(m), 0, {}, lf, w)
<1> DEFINE q == memp_init_pool(m)
           l == [e \in 0..PoolSize |-> IF e = NULL THEN NULL ELSE e - 1]
           c == [i \in Numbers |-> 0]
           f == [i \in Numbers |-> PoolSize - i]
<1>0. PoolSize \in Nat /\ PoolSize > 0
  BY PoolFacts
<1>1. q.link = l /\ q.h = m.h /\ q.time = m.time /\ q.next_timeout = 0 /\ q.tab = PoolSize
  <2>1. q = Mem(l, m.h, m.time, m.next_timeout, PoolSize)
    BY DEF memp_init_pool
  <2> HIDE DEF q, l
  <2> QED BY <2>1 DEF Mem, NULL
<1>2. l \in Links /\ l[0] = 0
  BY <1>0, SMTT(60) DEF Links, Numbers, NULL
<1>3. GoesAlong(l, 0, c, 0)
  BY <1>0, SMTT(60) DEF GoesAlong, Numbers
<1>4. GoesAlong(l, PoolSize, f, PoolSize)
  <2>1. f \in [Numbers -> Numbers] /\ f[0] = PoolSize /\ PoolSize \in Numbers
    BY <1>0, SMTT(60) DEF Numbers
  <2>2. ASSUME NEW i \in Numbers, i < PoolSize PROVE f[i] # 0 /\ f[i + 1] = l[f[i]]
    BY <2>2, <1>0, SMTT(60) DEF Numbers, NULL
  <2>3. ASSUME NEW i \in Numbers, i >= PoolSize PROVE f[i] = 0
    BY <2>3, <1>0, SMTT(60) DEF Numbers
  <2>4. ASSUME NEW i \in Numbers, NEW j \in Numbers, f[i] = f[j] PROVE i = j
    BY <2>4, <1>0, SMTT(60) DEF Numbers
  <2> HIDE DEF f, l
  <2> QED BY <2>1, <2>2, <2>3, <2>4 DEF GoesAlong
<1>5. \A i \in Numbers : ~(i < 0)
  BY <1>0, SMTT(60) DEF Numbers
<1>6. TwoLists(q, c, 0, f, PoolSize)
  <2>1. 0 + PoolSize = PoolSize
    BY <1>0, SMTT(60)
  <2>2. \A x : NotIn(x, c, 0)
    BY <1>5 DEF NotIn
  <2> HIDE DEF q, c, f, l
  <2> QED BY <1>1, <1>2, <1>3, <1>4, <2>1, <2>2 DEF TwoLists
<1>7. Timed(q.h, q.time, c, 0, {}, lf, w)
  <2> HIDE DEF q, c
  <2>1. \A i, j \in Numbers : i < j => ~(j < 0)
    BY <1>5
  <2> QED BY <1>5, <2>1 DEF Timed
<1> HIDE DEF q, c, f
<1>8. Keeps(q, c, 0, f, PoolSize, {}, lf, w)
  BY <1>6, <1>7 DEF Keeps
<1> QED BY <1>8, InListsIf DEF q

-----------------------------------------------------------------------------
(* The invariant.                                                           *)

\* How late a timer may be: the loop of the desktop comes round in time, but
\* what is left of one round, and the lwip command, come on top.
LateBy ==
  IF lw_pc = "init" THEN gap ELSE IF lw_pc = "idle" THEN MaxGap + gap ELSE 2 * MaxGap + gap

InTime == \A t \in Wanted : left[t] \in Int /\ 1 - LateBy =< left[t] /\ left[t] =< Interval[t]

\* The timers sys_timeouts_init has still to start, each of them once.
Ahead(s) ==
  /\ s \in Seq(TimerSet) /\ Len(s) =< Len(Timers)
  /\ \A i, j \in 1..Len(s) : s[i] = s[j] => i = j

\* How many timers there are in the list.
Held == Len(Timers) - Len(todo) + (IF tcp_timer_active THEN 1 ELSE 0)

Running ==
  /\ Ahead(todo) /\ (lw_pc # "init" => todo = <<>>)
  /\ (lw_pc = "init" => ~tcp_timer_active)
  /\ InTime
  /\ (lw_pc = "check" => snap \in Clock /\ now = (snap + gap) % Wrap)
  /\ InLists(mem, Held, Wanted, left, now)

NotYet ==
  /\ mem.next_timeout = NULL /\ mem.h \in [Elements -> Handlers] /\ mem.time \in [Elements -> Int]
  /\ ~tcp_timer_active

\* After the first lwip command.
FirstRun ==
  /\ tcp_timer_active \in BOOLEAN /\ tcp_pcbs \in BOOLEAN
  /\ now \in Clock /\ gap \in 0..MaxGap /\ left \in [All -> Int]
  /\ lw_pc \in {"off", "init", "idle", "check"} /\ (lw_pc = "off" <=> inits = 0)
  /\ (lw_pc = "off" => NotYet) /\ (lw_pc # "off" => Running)

LwInv == inits \in Nat /\ inits =< MaxInits /\ (inits =< 1 => FirstRun)

\* Adding to a reading.
LEMMA AddOn ==
  ASSUME NEW w \in Clock, NEW a \in Int, NEW b \in Int, -(Wrap \div 2) =< a, a =< Wrap \div 2,
         -(Wrap \div 2) =< a + b, a + b =< Wrap \div 2
  PROVE  (((w + a) % Wrap) + b) % Wrap = (w + (a + b)) % Wrap /\ (w + a) % Wrap \in Clock
<1> DEFINE H == Wrap \div 2
<1>1. H \in Nat /\ Wrap = 2 * H /\ Wrap \in Nat /\ Wrap > 1 /\ w \in Int /\ 0 =< w /\ w < Wrap
  BY ClockFacts, SMTT(60) DEF Clock
<1>2. -H =< a /\ a =< H /\ -H =< a + b /\ a + b =< H
  OBVIOUS
<1>3. PICK x \in Int : x = (w + a) % Wrap
  BY <1>1, SMTT(60)
<1> HIDE DEF H
<1>4. x = Reading(w + a)
  <2>1. w + a \in Int /\ -Wrap =< w + a /\ w + a < 2 * Wrap
    BY <1>1, <1>2, SMTT(60)
  <2> QED BY <2>1, <1>3, OnClock
<1>5. (w + (a + b)) % Wrap = Reading(w + (a + b))
  <2>1. w + (a + b) \in Int /\ -Wrap =< w + (a + b) /\ w + (a + b) < 2 * Wrap
    BY <1>1, <1>2, SMTT(60)
  <2> QED BY <2>1, OnClock
<1>6. x \in Clock
  BY <1>1, <1>2, <1>4, SMTT(60) DEF Clock, Reading
<1>7. (x + b) % Wrap = Reading(x + b)
  <2>1. 0 =< x /\ x < Wrap
    BY <1>1, <1>6, SMTT(60) DEF Clock
  <2>2. x + b \in Int /\ -Wrap =< x + b /\ x + b < 2 * Wrap
    BY <1>1, <1>2, <1>4, <2>1, SMTT(60) DEF Reading
  <2> QED BY <2>2, OnClock
<1>8. Reading(x + b) = Reading(w + (a + b))
  BY <1>1, <1>2, <1>4, SMTT(60) DEF Reading
<1> QED BY <1>3, <1>5, <1>6, <1>7, <1>8

\* The clock now is its own reading, no ticks on.
LEMMA NowIs ==
  ASSUME NEW w \in Clock
  PROVE  w = (w + 0) % Wrap
<1>1. w \in Int /\ 0 =< w /\ w < Wrap /\ Wrap \in Nat /\ Wrap > 1
  BY ClockFacts, SMTT(60) DEF Clock
<1>2. w + 0 \in Int /\ -Wrap =< w + 0 /\ w + 0 < 2 * Wrap
  BY <1>1, SMTT(60)
<1>3. (w + 0) % Wrap = Reading(w + 0)
  BY <1>2, OnClock
<1> QED BY <1>1, <1>3, SMTT(60) DEF Reading

\* lwip_cyclic_timer: when a timer that is due, or late, is due again.
LEMMA DueAgain ==
  ASSUME now \in Clock, NEW t \in TimerSet, NEW x \in Int, 1 - 3 * MaxGap =< x, x =< 0
  PROVE  NextDue((now + x) % Wrap, t) = IF x + Interval[t] < 0 THEN Interval[t] ELSE x + Interval[t]
<1> DEFINE H == Wrap \div 2
           I == Interval[t]
           due == (now + x) % Wrap
<1>1. /\ H \in Nat /\ Wrap = 2 * H /\ Wrap \in Nat /\ Wrap > 1 /\ MaxGap \in Nat
      /\ I \in Nat /\ I > 0 /\ I + 3 * MaxGap =< H
  BY ClockFacts DEF All
<1>2. now \in Int /\ 0 =< now /\ now < Wrap /\ 1 - 3 * MaxGap =< x
  BY <1>1, SMTT(60) DEF Clock
<1>3. /\ -H =< x /\ x =< H /\ -H =< x + I /\ x + I < H /\ x + I =< H /\ x + I - 0 < H
      /\ 0 - (x + I) =< H /\ x + I \in Int
  BY <1>1, <1>2, SMTT(60)
<1>4. (due + I) % Wrap = (now + (x + I)) % Wrap /\ due \in Clock
  <2> HIDE DEF I
  <2> QED BY <1>1, <1>3, AddOn, SMTT(60)
<1>5. TIME_LESS_THAN((now + (x + I)) % Wrap, (now + 0) % Wrap) <=> x + I < 0
  <2>1. PICK y \in Int : y = x + I
    BY <1>3
  <2>2. TIME_LESS_THAN((now + y) % Wrap, (now + 0) % Wrap) <=> y < 0
    <3>1. -H =< y /\ y =< H /\ -H =< 0 /\ 0 =< H /\ y - 0 < H /\ 0 - y =< H /\ 0 \in Int
      BY <1>1, <1>3, <2>1, SMTT(60)
    <3> HIDE DEF I
    <3> QED BY <3>1, LessThan
  <2> QED BY <2>1, <2>2
<1>6. TIME_LESS_THAN((due + I) % Wrap, now) <=> x + I < 0
  BY <1>4, <1>5, NowIs
<1>7. CASE x + I < 0
  BY <1>6, <1>7 DEF NextDue
<1>8. CASE ~(x + I < 0)
  <2>1. due = Reading(now + x)
    <3>1. now + x \in Int /\ -Wrap =< now + x /\ now + x < 2 * Wrap
      BY <1>1, <1>2, <1>3, SMTT(60)
    <3> QED BY <3>1, OnClock
  <2>2. due \in Int /\ 0 =< due /\ due < Wrap
    BY <1>4, <1>1, SMTT(60) DEF Clock
  <2> HIDE DEF due, I, H
  <2>3. due + I - now \in Int /\ -Wrap =< due + I - now /\ due + I - now < 2 * Wrap
    BY <1>1, <1>2, <1>3, <1>8, <2>1, <2>2, SMTT(60) DEF Reading
  <2>4. (due + I - now) % Wrap = Reading(due + I - now)
    BY <2>3, OnClock
  <2>5. Reading(due + I - now) = x + I
    BY <1>1, <1>2, <1>3, <1>8, <2>1, SMTT(60) DEF Reading
  <2>6. NextDue(due, t) = (due + I - now) % Wrap
    BY <1>6, <1>8 DEF NextDue, I
  <2> QED BY <2>4, <2>5, <2>6, <1>8 DEF I, due
<1> QED BY <1>7, <1>8

-----------------------------------------------------------------------------
(* The steps.                                                               *)

\* The timers wanted are timers of the stack.
LEMMA WantedOnes ==
  /\ Wanted \in SUBSET All /\ Tcp \notin TimerSet /\ Tcp \in All /\ TimerSet \in SUBSET All
<1>1. Tcp \notin TimerSet
  BY TimeoutsAssumption
<1> QED BY <1>1 DEF Wanted, All

\* No timer is further from its time than the clock can tell.
LEMMA InReach ==
  ASSUME FirstRun, Running
  PROVE  Reach(left, Wanted) /\ LateBy \in Nat /\ LateBy =< 3 * MaxGap
<1>1. gap \in Nat /\ gap =< MaxGap /\ MaxGap \in Nat
  BY ClockFacts, SMTT(60) DEF FirstRun
<1>2. LateBy \in Nat /\ LateBy =< 3 * MaxGap
  BY <1>1, SMTT(60) DEF LateBy
<1>3. \A t \in Wanted : Interval[t] \in Nat
  BY WantedOnes, ClockFacts
<1>4. ASSUME NEW t \in Wanted
      PROVE left[t] \in Int /\ 1 - 3 * MaxGap =< left[t] /\ left[t] =< Interval[t]
  <2>1. left[t] \in Int /\ 1 - LateBy =< left[t] /\ left[t] =< Interval[t]
    BY DEF Running, InTime
  <2> HIDE DEF LateBy
  <2> QED BY <2>1, <1>1, <1>2, SMTT(60)
<1> QED BY <1>2, <1>4 DEF Reach

\* Start: with an element in the pool the timer gets into the list.
LEMMA Starts ==
  ASSUME NEW m, NEW n, NEW W \in SUBSET All, left \in [All -> Int], now \in Clock,
         InLists(m, n, W, left, now), n < PoolSize, Reach(left, W),
         NEW hd \in All \ W, NEW d \in 0..Interval[hd], NEW q, Start(m, d, hd, q)
  PROVE  /\ lw_pc' = q /\ left' = [left EXCEPT ![hd] = d] /\ left' \in [All -> Int]
         /\ InLists(mem', n + 1, W \cup {hd}, left', now)
<1>1. /\ CanInsert(m, (now + d) % Wrap, hd)
      /\ InLists(sys_timeout_abs(m, (now + d) % Wrap, hd), n + 1, W \cup {hd}, [left EXCEPT ![hd] = d], now)
  BY InsertedIn
<1>2. left' = [left EXCEPT ![hd] = d]
  BY DEF Start
<1>3. lw_pc' = q /\ mem' = sys_timeout_abs(m, (now + d) % Wrap, hd)
  BY <1>1 DEF Start
<1>4. d \in Int
  BY ClockFacts, SMTT(60)
<1> QED BY <1>1, <1>2, <1>3, <1>4

\* How many timers are in the list, and that there is room for another one.
LEMMA HowMany ==
  ASSUME FirstRun, Running
  PROVE  /\ Held \in Nat /\ Len(todo) \in Nat /\ Len(Timers) \in Nat /\ Len(todo) =< Len(Timers)
         /\ Len(Timers) < PoolSize
         /\ ~tcp_timer_active => Held = Len(Timers) - Len(todo) /\ Held < PoolSize
<1>1. Len(todo) \in Nat /\ Len(todo) =< Len(Timers)
  BY SMTT(60) DEF Running, Ahead
<1>2. Len(Timers) \in Nat /\ Len(Timers) < PoolSize /\ PoolSize \in Nat
  BY TimeoutsAssumption, SMTT(60)
<1> QED BY <1>1, <1>2, SMTT(60) DEF Held, FirstRun

\* The first lwip command finds no timer and has all of them to start.
LEMMA InitPortStep ==
  ASSUME FirstRun, inits = 0, lwip_init_port
  PROVE  FirstRun'
<1>1. lw_pc = "off" /\ NotYet
  BY DEF FirstRun
<1>2. /\ mem' = memp_init_pool(mem) /\ todo' = Timers /\ lw_pc' = "init" /\ inits' = 1
      /\ tcp_timer_active' = tcp_timer_active /\ tcp_pcbs' = tcp_pcbs
      /\ now' = now /\ gap' = gap /\ left' = left
  BY SMTT(60) DEF lwip_init_port, clock
<1>3. Ahead(Timers)
  <2>1. Len(Timers) \in Nat
    BY TimeoutsAssumption, SMTT(60)
  <2> QED BY <2>1, TimeoutsAssumption, SMTT(60) DEF Ahead
<1>4. Wanted' = {}
  BY <1>1, <1>2 DEF Wanted, TimerSet, NotYet
<1>5. Held' = 0
  <2>1. Len(Timers) \in Nat
    BY TimeoutsAssumption, SMTT(60)
  <2> QED BY <2>1, <1>1, <1>2, SMTT(60) DEF Held, NotYet
<1>6. InLists(mem', 0, {}, left', now')
  BY <1>1, <1>2, InitPool DEF NotYet
<1>7. InTime'
  BY <1>4 DEF InTime
<1>8. Running'
  BY <1>1, <1>2, <1>3, <1>4, <1>5, <1>6, <1>7 DEF Running, NotYet
<1> QED BY <1>1, <1>2, <1>8, SMTT(60) DEF FirstRun

\* sys_timeouts_init starts the timers one by one.
LEMMA InitStep ==
  ASSUME FirstRun, sys_timeouts_init
  PROVE  FirstRun'
<1> DEFINE hd == Head(todo)
<1>1. /\ lw_pc = "init" /\ todo # <<>> /\ Start(mem, Interval[hd], hd, "init")
      /\ todo' = Tail(todo)
      /\ tcp_timer_active' = tcp_timer_active /\ tcp_pcbs' = tcp_pcbs
      /\ now' = now /\ gap' = gap /\ snap' = snap /\ inits' = inits
  BY DEF sys_timeouts_init
<1>2. Running /\ Ahead(todo) /\ ~tcp_timer_active
  BY <1>1 DEF FirstRun, Running
<1>3. /\ todo \in Seq(TimerSet) /\ Len(todo) \in Nat /\ Len(todo) > 0
      /\ hd \in TimerSet /\ hd = todo[1] /\ Len(todo') = Len(todo) - 1 /\ todo' \in Seq(TimerSet)
      /\ \A i \in 1..Len(todo') : todo'[i] = todo[i + 1] /\ i + 1 \in 1..Len(todo)
  BY <1>1, <1>2, SMTT(60) DEF Ahead
<1>4. Ahead(todo')
  BY <1>2, <1>3, HowMany, SMTT(60) DEF Ahead
<1>5. /\ {todo[i] : i \in 1..Len(todo)} = {todo'[i] : i \in 1..Len(todo')} \cup {hd}
      /\ hd \notin {todo'[i] : i \in 1..Len(todo')}
  <2>1. ASSUME NEW i \in 1..Len(todo), i # 1
        PROVE i - 1 \in 1..Len(todo') /\ todo'[i - 1] = todo[i]
    BY <2>1, <1>3, SMTT(60)
  <2>2. 1 \in 1..Len(todo)
    BY <1>3, SMTT(60)
  <2>3. ASSUME NEW i \in 1..Len(todo') PROVE todo'[i] # hd
    <3>1. i + 1 # 1 /\ i + 1 \in 1..Len(todo) /\ todo'[i] = todo[i + 1]
      BY <1>3, SMTT(60)
    <3> QED BY <3>1, <2>2, <1>2, <1>3 DEF Ahead
  <2> HIDE DEF hd
  <2> QED BY <2>1, <2>2, <2>3, <1>3, SMTT(60)
<1>6. hd \in All \ Wanted /\ Wanted' = Wanted \cup {hd}
  <2>1. hd \in TimerSet /\ hd \notin {Tcp}
    BY <1>3, WantedOnes
  <2> HIDE DEF hd
  <2> QED BY <2>1, <1>1, <1>2, <1>5 DEF Wanted, All
<1>7. Interval[hd] \in 0..Interval[hd] /\ Interval[hd] \in Nat /\ Interval[hd] > 0
  BY <1>6, ClockFacts, SMTT(60)
<1>8. Held \in Nat /\ Held < PoolSize /\ Held' = Held + 1
  BY <1>1, <1>2, <1>3, HowMany, SMTT(60) DEF Held
<1>9. /\ InLists(mem, Held, Wanted, left, now) /\ Reach(left, Wanted) /\ left \in [All -> Int]
      /\ now \in Clock
  BY <1>2, InReach DEF Running, FirstRun
<1>10. /\ lw_pc' = "init" /\ left' = [left EXCEPT ![hd] = Interval[hd]] /\ left' \in [All -> Int]
       /\ InLists(mem', Held + 1, Wanted \cup {hd}, left', now)
  <2> HIDE DEF hd
  <2> QED BY <1>1, <1>6, <1>7, <1>8, <1>9, WantedOnes, Starts
<1>11. InTime'
  <2>1. LateBy' = LateBy /\ LateBy \in Nat
    BY <1>1, <1>2, <1>10, InReach DEF LateBy
  <2>2. ASSUME NEW t \in Wanted \cup {hd}
        PROVE  left'[t] \in Int /\ 1 - LateBy =< left'[t] /\ left'[t] =< Interval[t]
    <3>1. CASE t = hd
      BY <3>1, <1>6, <1>7, <1>9, <1>10, <2>1, SMTT(60)
    <3>2. CASE t # hd
      <4>1. left'[t] = left[t] /\ t \in Wanted
        BY <3>2, <1>9, <1>10, WantedOnes
      <4> QED BY <4>1, <1>2 DEF Running, InTime
    <3> QED BY <3>1, <3>2
  <2> HIDE DEF hd, LateBy
  <2> QED BY <2>1, <2>2, <1>6 DEF InTime
<1>12. Running'
  <2> HIDE DEF hd
  <2> QED BY <1>1, <1>2, <1>4, <1>6, <1>8, <1>10, <1>11 DEF Running
<1> QED BY <1>1, <1>10, <1>12 DEF FirstRun

\* A step that leaves the lists and the timers alone and begins a new gap.
LEMMA NextPart ==
  ASSUME FirstRun, Running, gap' \in 0..MaxGap,
         lw_pc' \in {"idle", "check"}, LateBy' \in Nat, LateBy =< LateBy',
         todo = <<>>, todo' = todo, mem' = mem, left' = left, now' = now, inits' = inits, inits # 0,
         tcp_timer_active' = tcp_timer_active, tcp_pcbs' \in BOOLEAN,
         lw_pc' = "check" => snap' \in Clock /\ now' = (snap' + gap') % Wrap
  PROVE  FirstRun'
<1>1. Wanted' = Wanted /\ Held' = Held
  BY DEF Wanted, Held
<1>2. InTime'
  <2>1. ASSUME NEW t \in Wanted
        PROVE left[t] \in Int /\ 1 - LateBy' =< left[t] /\ left[t] =< Interval[t]
    <3>1. left[t] \in Int /\ 1 - LateBy =< left[t] /\ left[t] =< Interval[t] /\ LateBy \in Nat
      BY InReach DEF Running, InTime
    <3> QED BY <3>1, SMTT(60)
  <2> QED BY <2>1, <1>1 DEF InTime
<1>3. Running'
  BY <1>1, <1>2 DEF Running
<1> QED BY <1>3 DEF FirstRun

\* The stack is ready.
LEMMA InitDoneStep ==
  ASSUME FirstRun, InitDone
  PROVE  FirstRun'
<1>1. /\ lw_pc = "init" /\ todo = <<>> /\ lw_pc' = "idle" /\ gap' = 0 /\ mem' = mem
      /\ tcp_timer_active' = tcp_timer_active /\ tcp_pcbs' = tcp_pcbs /\ now' = now
      /\ left' = left /\ todo' = todo /\ inits' = inits
  BY DEF InitDone
<1>2. /\ Running /\ inits # 0 /\ tcp_pcbs \in BOOLEAN /\ gap \in Nat /\ gap =< MaxGap
      /\ MaxGap \in Nat
  BY <1>1, ClockFacts, SMTT(60) DEF FirstRun
<1>3. LateBy = gap /\ LateBy' = MaxGap + 0
  BY <1>1 DEF LateBy
<1>4. LateBy' \in Nat /\ LateBy =< LateBy' /\ gap' \in 0..MaxGap
  BY <1>1, <1>2, <1>3, SMTT(60)
<1> QED BY <1>1, <1>2, <1>4, NextPart

\* lwip_poll looks at the clock.
LEMMA PollStep ==
  ASSUME FirstRun, lwip_poll
  PROVE  FirstRun'
<1>1. /\ lw_pc = "idle" /\ lw_pc' = "check" /\ gap' = 0 /\ mem' = mem /\ snap' = now
      /\ tcp_timer_active' = tcp_timer_active /\ tcp_pcbs' = tcp_pcbs /\ now' = now
      /\ left' = left /\ todo' = todo /\ inits' = inits
  BY DEF lwip_poll
<1>2. /\ Running /\ inits # 0 /\ tcp_pcbs \in BOOLEAN /\ gap \in Nat /\ gap =< MaxGap
      /\ MaxGap \in Nat
  BY <1>1, ClockFacts, SMTT(60) DEF FirstRun
<1>3. LateBy = MaxGap + gap /\ LateBy' = 2 * MaxGap + 0
  BY <1>1 DEF LateBy
<1>4. LateBy' \in Nat /\ LateBy =< LateBy' /\ gap' \in 0..MaxGap
  BY <1>1, <1>2, <1>3, SMTT(60)
<1>5. snap' \in Clock /\ now' = (snap' + gap') % Wrap
  BY <1>1, NowIs DEF FirstRun
<1>6. todo = <<>>
  BY <1>1, <1>2 DEF Running
<1> QED BY <1>1, <1>2, <1>4, <1>5, <1>6, NextPart

\* A connection is gone.
LEMMA ClosedStep ==
  ASSUME FirstRun, TcpClosed
  PROVE  FirstRun'
<1>1. /\ lw_pc = "idle" /\ lw_pc' = lw_pc /\ gap' = gap /\ mem' = mem /\ snap' = snap
      /\ tcp_timer_active' = tcp_timer_active /\ tcp_pcbs' = FALSE /\ now' = now
      /\ left' = left /\ todo' = todo /\ inits' = inits
  BY DEF TcpClosed, clock
<1>2. Running /\ inits # 0 /\ gap \in 0..MaxGap
  BY <1>1 DEF FirstRun
<1>3. LateBy' = LateBy
  BY <1>1 DEF LateBy
<1>4. LateBy' \in Nat /\ LateBy =< LateBy'
  BY <1>2, <1>3, InReach, SMTT(60)
<1>5. todo = <<>>
  BY <1>1, <1>2 DEF Running
<1> QED BY <1>1, <1>2, <1>4, <1>5, NextPart

\* What the first element of the list tells: whose it is, that no other timer
\* is due before it, and when sys_check_timeouts takes it for expired.
LEMMA FirstOne ==
  ASSUME FirstRun, lw_pc = "check", Earliest # NULL
  PROVE  LET t == mem.h[Earliest] IN
         /\ t \in Wanted /\ left[t] \in Int
         /\ mem.time[Earliest] = (now + left[t]) % Wrap
         /\ Expired <=> left[t] + gap =< 0
         /\ \A u \in Wanted : left[t] =< left[u]
<1> DEFINE a == mem.next_timeout
           t == mem.h[a]
           c == Chain(mem, a)
           H == Wrap \div 2
<1>1. /\ Running /\ now \in Clock /\ gap \in Nat /\ gap =< MaxGap
      /\ MaxGap \in Nat /\ snap \in Clock /\ now = (snap + gap) % Wrap
      /\ InLists(mem, Held, Wanted, left, now)
  BY ClockFacts, SMTT(60) DEF FirstRun, Running
<1>2. Held \in Nat /\ Held > 0 /\ t \in Wanted /\ mem.time[a] = (now + left[t]) % Wrap
  BY <1>1, PoppedFrom DEF Earliest
<1>3. GoesAlong(mem.link, a, c, Held) /\ Timed(mem.h, mem.time, c, Held, Wanted, left, now)
  BY <1>1 DEF InLists, Keeps, TwoLists
<1>4. \A u \in Wanted : left[u] \in Int
  BY <1>1, InReach DEF Reach
<1>5. ASSUME NEW u \in Wanted PROVE left[t] =< left[u]
  <2>1. PICK i \in Numbers : i < Held /\ mem.h[c[i]] = u
    BY <1>3 DEF Timed
  <2>2. c[0] = a /\ 0 \in Numbers
    BY <1>3, PoolFacts DEF GoesAlong
  <2>3. CASE i = 0
    BY <2>1, <2>2, <2>3, <1>4, SMTT(60)
  <2>4. CASE i # 0
    <3>1. 0 < i
      BY <2>4, PoolFacts, SMTT(60) DEF Numbers
    <3> QED BY <3>1, <2>1, <2>2, <1>3 DEF Timed
  <2> QED BY <2>3, <2>4
<1>6. PICK x \in Int : x = left[t]
  BY <1>2, <1>4
<1>7. /\ 1 - 2 * MaxGap - gap =< x /\ x =< Interval[t] /\ Interval[t] \in Nat
      /\ Interval[t] + 3 * MaxGap =< H
      /\ H \in Nat
  <2>1. LateBy = 2 * MaxGap + gap
    BY DEF LateBy
  <2>2. 1 - LateBy =< x /\ x =< Interval[t]
    BY <1>1, <1>2, <1>6 DEF Running, InTime
  <2>3. Interval[t] \in Nat /\ Interval[t] + 3 * MaxGap =< H /\ H \in Nat
    BY <1>2, WantedOnes, ClockFacts
  <2>4. PICK b \in Int : b = Interval[t]
    BY <2>3, SMTT(60)
  <2> HIDE DEF t, H
  <2> QED BY <2>1, <2>2, <2>3, <2>4, <1>1, SMTT(60)
<1>8. PICK y \in Int : y = gap + x
  BY <1>1, SMTT(60)
<1> HIDE DEF t, H
<1>9. /\ -H =< gap /\ gap =< H /\ -H =< gap + x /\ gap + x =< H /\ 0 - y < H /\ y - 0 =< H
      /\ -H =< 0 /\ 0 =< H
      /\ gap \in Int
  BY <1>1, <1>7, <1>8, SMTT(60)
<1>10. (now + x) % Wrap = (snap + y) % Wrap
  BY <1>1, <1>8, <1>9, AddOn DEF H
<1>11. TIME_LESS_THAN((snap + 0) % Wrap, (snap + y) % Wrap) <=> 0 < y
  <2>1. -H =< y /\ y =< H /\ 0 \in Int
    BY <1>8, <1>9, SMTT(60)
  <2> QED BY <2>1, <1>1, <1>9, LessThan DEF H
<1>12. TIME_LESS_THAN(snap, mem.time[a]) <=> 0 < y
  BY <1>1, <1>2, <1>6, <1>10, <1>11, NowIs
<1>13. Expired <=> ~(0 < y)
  BY <1>12 DEF Expired, Earliest
<1>14. Expired <=> left[t] + gap =< 0
  BY <1>13, <1>6, <1>8, <1>1, SMTT(60)
<1> QED BY <1>2, <1>4, <1>5, <1>14 DEF t, Earliest

\* sys_check_timeouts returns: the timers left are late by one gap at most.
LEMMA CheckDoneStep ==
  ASSUME FirstRun, CheckDone
  PROVE  FirstRun'
<1>1. /\ lw_pc = "check" /\ ~Expired /\ lw_pc' = "idle" /\ gap' = gap /\ mem' = mem
      /\ snap' = snap
      /\ tcp_timer_active' = tcp_timer_active /\ tcp_pcbs' = tcp_pcbs /\ now' = now
      /\ left' = left /\ todo' = todo /\ inits' = inits
  BY DEF CheckDone, clock
<1>2. /\ Running /\ inits # 0 /\ gap \in 0..MaxGap /\ gap \in Nat /\ MaxGap \in Nat
      /\ InLists(mem, Held, Wanted, left, now)
  BY <1>1, ClockFacts, SMTT(60) DEF FirstRun, Running
<1>3. LateBy' = MaxGap + gap /\ Wanted' = Wanted /\ Held' = Held
  BY <1>1 DEF LateBy, Wanted, Held
<1>4. ASSUME NEW u \in Wanted
      PROVE left[u] \in Int /\ 1 - gap =< left[u] /\ left[u] =< Interval[u]
  <2>1. left[u] \in Int /\ left[u] =< Interval[u]
    BY <1>2 DEF Running, InTime
  <2>2. Earliest # NULL
    <3>1. GoesAlong(mem.link, Earliest, Chain(mem, Earliest), Held)
          /\ Timed(mem.h, mem.time, Chain(mem, Earliest), Held, Wanted, left, now)
      BY <1>2 DEF InLists, Keeps, TwoLists, Earliest
    <3>2. PICK i \in Numbers : i < Held
      BY <3>1 DEF Timed
    <3>3. 0 < Held /\ 0 \in Numbers
      BY <3>2, <1>2, HowMany, PoolFacts, SMTT(60) DEF Numbers
    <3> QED BY <3>1, <3>3 DEF GoesAlong, NULL
  <2>3. LET t == mem.h[Earliest] IN left[t] \in Int /\ ~(left[t] + gap =< 0) /\ left[t] =< left[u]
    BY <2>2, <1>1, FirstOne
  <2> QED BY <2>1, <2>3, <1>2, SMTT(60)
<1>5. InTime'
  <2>1. ASSUME NEW u \in Wanted
        PROVE left[u] \in Int /\ 1 - (MaxGap + gap) =< left[u] /\ left[u] =< Interval[u]
    BY <1>2, <1>4, SMTT(60)
  <2> QED BY <2>1, <1>1, <1>3 DEF InTime
<1>6. Running'
  BY <1>1, <1>2, <1>3, <1>5 DEF Running
<1> QED BY <1>1, <1>2, <1>6 DEF FirstRun

\* Popped: the first timer is out of the list.
LEMMA PopOne ==
  ASSUME FirstRun, lw_pc = "check", Expired
  PROVE  LET t == mem.h[Earliest] IN
         /\ Running /\ inits # 0 /\ todo = <<>> /\ left \in [All -> Int] /\ now \in Clock
         /\ gap \in Nat
         /\ t \in Wanted /\ left[t] \in Int /\ left[t] + gap =< 0
         /\ mem.time[Earliest] = (now + left[t]) % Wrap
         /\ Held \in Nat /\ Held > 0 /\ Held - 1 < PoolSize
         /\ InLists(Popped, Held - 1, Wanted \ {t}, left, now)
         /\ Reach(left, Wanted \ {t}) /\ Wanted \ {t} \in SUBSET All /\ t \in All \ (Wanted \ {t})
         /\ (Wanted \ {t}) \cup {t} = Wanted
<1> DEFINE t == mem.h[Earliest]
<1>1. /\ Running /\ inits # 0 /\ todo = <<>> /\ left \in [All -> Int] /\ now \in Clock
      /\ gap \in Nat
      /\ InLists(mem, Held, Wanted, left, now)
  BY ClockFacts, SMTT(60) DEF FirstRun, Running
<1>2. Earliest # NULL
  BY DEF Expired
<1>3. /\ t \in Wanted /\ left[t] \in Int /\ mem.time[Earliest] = (now + left[t]) % Wrap
      /\ left[t] + gap =< 0
  BY <1>2, FirstOne
<1>4. /\ Held \in Nat /\ Held > 0 /\ Held =< PoolSize
      /\ InLists(Popped, Held - 1, Wanted \ {t}, left, now)
  BY <1>1, <1>2, PoppedFrom DEF Popped, Earliest
<1>5. Held - 1 < PoolSize
  BY <1>4, PoolFacts, SMTT(60)
<1>6. Reach(left, Wanted)
  BY <1>1, InReach
<1> HIDE DEF t
<1>7. /\ Reach(left, Wanted \ {t}) /\ Wanted \ {t} \in SUBSET All /\ t \in All \ (Wanted \ {t})
      /\ (Wanted \ {t}) \cup {t} = Wanted
  BY <1>3, <1>6, WantedOnes DEF Reach
<1> QED BY <1>1, <1>3, <1>4, <1>5, <1>7 DEF t

\* The timer that was due first is started again, in d ticks.
LEMMA Again ==
  ASSUME FirstRun, lw_pc = "check", Expired, NEW d \in 0..Interval[mem.h[Earliest]],
         Start(Popped, d, mem.h[Earliest], "check"),
         tcp_timer_active' = tcp_timer_active, tcp_pcbs' \in BOOLEAN, now' = now, gap' = gap,
         todo' = todo, snap' = snap, inits' = inits
  PROVE  FirstRun' /\ left' = [left EXCEPT ![mem.h[Earliest]] = d]
<1> DEFINE t == mem.h[Earliest]
           W == Wanted \ {t}
<1>1. /\ Running /\ inits # 0 /\ todo = <<>> /\ left \in [All -> Int] /\ now \in Clock
      /\ gap \in Nat
      /\ t \in Wanted /\ left[t] \in Int /\ left[t] + gap =< 0
      /\ Held \in Nat /\ Held > 0 /\ Held - 1 < PoolSize
      /\ InLists(Popped, Held - 1, W, left, now)
      /\ Reach(left, W) /\ W \in SUBSET All /\ t \in All \ W /\ W \cup {t} = Wanted
  BY PopOne
<1> HIDE DEF t, W
<1>2. /\ lw_pc' = "check" /\ left' = [left EXCEPT ![t] = d] /\ left' \in [All -> Int]
      /\ InLists(mem', Held - 1 + 1, W \cup {t}, left', now)
  BY <1>1, Starts DEF t
<1>3. Held - 1 + 1 = Held
  <2>1. Held \in Nat
    BY <1>1
  <2> QED BY <2>1, SMTT(60)
<1>4. Wanted' = Wanted /\ Held' = Held
  BY DEF Wanted, Held
<1>5. InTime'
  <2>1. LateBy' = LateBy /\ LateBy \in Nat
    BY <1>1, <1>2, InReach DEF LateBy
  <2>2. ASSUME NEW u \in Wanted
        PROVE left'[u] \in Int /\ 1 - LateBy =< left'[u] /\ left'[u] =< Interval[u]
    <3>1. left[u] \in Int /\ 1 - LateBy =< left[u] /\ left[u] =< Interval[u] /\ u \in All
      BY <1>1, WantedOnes DEF Running, InTime
    <3>2. CASE u = t
      <4>1. left'[u] = d /\ Interval[u] \in Nat /\ d \in 0..Interval[u]
        BY <3>1, <3>2, <1>1, <1>2, ClockFacts DEF t
      <4> QED BY <4>1, <3>1, <3>2, <1>1, <2>1, SMTT(60)
    <3>3. CASE u # t
      BY <3>1, <3>3, <1>1, <1>2
    <3> QED BY <3>2, <3>3
  <2> QED BY <2>1, <2>2, <1>4 DEF InTime
<1>6. Running'
  BY <1>1, <1>2, <1>3, <1>4, <1>5 DEF Running, FirstRun
<1>7. FirstRun'
  BY <1>1, <1>2, <1>6 DEF FirstRun
<1> QED BY <1>2, <1>7 DEF t

\* lwip_cyclic_timer: the timer was due, and keeps its rhythm.
LEMMA CyclicStep ==
  ASSUME FirstRun, lwip_cyclic_timer
  PROVE  LET t == mem.h[Earliest] IN
         /\ FirstRun' /\ t \in TimerSet /\ fired' = t /\ left[t] =< 0
         /\ left'[t] = IF left[t] + Interval[t] < 0 THEN Interval[t] ELSE left[t] + Interval[t]
<1> DEFINE t == mem.h[Earliest]
           d == NextDue(mem.time[Earliest], t)
<1>1. /\ lw_pc = "check" /\ Expired /\ t \in TimerSet /\ Start(Popped, d, t, "check")
      /\ fired' = t
      /\ tcp_timer_active' = tcp_timer_active /\ tcp_pcbs' = tcp_pcbs /\ now' = now /\ gap' = gap
      /\ todo' = todo /\ snap' = snap /\ inits' = inits
  BY DEF lwip_cyclic_timer
<1>2. /\ Running /\ now \in Clock /\ gap \in Nat /\ left \in [All -> Int]
      /\ t \in Wanted /\ left[t] \in Int /\ left[t] + gap =< 0
      /\ mem.time[Earliest] = (now + left[t]) % Wrap
  BY <1>1, PopOne
<1>3. /\ 1 - 3 * MaxGap =< left[t] /\ t \in All /\ MaxGap \in Nat
      /\ Interval[t] \in Nat /\ Interval[t] > 0
  BY <1>2, InReach, WantedOnes, ClockFacts DEF Reach
<1>4. left[t] =< 0
  BY <1>2, SMTT(60)
<1>5. d = IF left[t] + Interval[t] < 0 THEN Interval[t] ELSE left[t] + Interval[t]
  <2> HIDE DEF t
  <2> QED BY <1>1, <1>2, <1>3, <1>4, DueAgain
<1>6. PICK x \in Int, i \in Nat : x = left[t] /\ i = Interval[t]
  BY <1>2, <1>3
<1>7. d \in 0..Interval[t]
  <2> HIDE DEF t, d
  <2> QED BY <1>4, <1>5, <1>6, SMTT(60)
<1>8. tcp_pcbs' \in BOOLEAN
  BY <1>1 DEF FirstRun
<1>9. FirstRun' /\ left' = [left EXCEPT ![t] = d]
  <2> HIDE DEF d
  <2> QED BY <1>1, <1>7, <1>8, Again
<1> HIDE DEF d
<1>10. left'[t] = d
  BY <1>2, <1>3, <1>9
<1> QED BY <1>1, <1>4, <1>5, <1>9, <1>10

\* tcpip_tcp_timer: the timer again, or no timer.
LEMMA TcpTimerStep ==
  ASSUME FirstRun, tcpip_tcp_timer
  PROVE  FirstRun'
<1> DEFINE W == Wanted \ {Tcp}
<1>1. /\ lw_pc = "check" /\ Expired /\ mem.h[Earliest] = Tcp
      /\ now' = now /\ gap' = gap /\ todo' = todo /\ snap' = snap /\ inits' = inits
  BY DEF tcpip_tcp_timer
<1>2. tcp_pcbs' \in BOOLEAN
  BY DEF tcpip_tcp_timer, FirstRun
<1>3. Interval[Tcp] \in 0..Interval[Tcp]
  BY ClockFacts, WantedOnes, SMTT(60)
<1>4. CASE tcp_pcbs'
  <2>1. Start(Popped, Interval[Tcp], Tcp, "check") /\ tcp_timer_active' = tcp_timer_active
    BY <1>4 DEF tcpip_tcp_timer
  <2> QED BY <2>1, <1>1, <1>2, <1>3, Again
<1>5. CASE ~tcp_pcbs'
  <2>1. mem' = Popped /\ tcp_timer_active' = FALSE /\ lw_pc' = lw_pc /\ left' = left
    BY <1>5 DEF tcpip_tcp_timer
  <2>2. /\ Running /\ inits # 0 /\ todo = <<>> /\ left \in [All -> Int] /\ now \in Clock
        /\ Tcp \in Wanted /\ Held \in Nat /\ InLists(Popped, Held - 1, W, left, now)
    BY <1>1, PopOne
  <2>3. tcp_timer_active
    BY <2>2, WantedOnes DEF Wanted
  <2>4. Wanted' = W
    BY <2>1, <2>2, <1>1, WantedOnes DEF Wanted
  <2>5. Held' = Held - 1
    BY <2>1, <2>2, <2>3, <1>1, HowMany, SMTT(60) DEF Held
  <2>6. LateBy' = LateBy
    BY <2>1, <1>1 DEF LateBy
  <2>7. InTime'
    BY <2>1, <2>2, <2>4, <2>6 DEF InTime, Running
  <2>8. Running'
    BY <2>1, <2>2, <2>4, <2>5, <2>7, <1>1 DEF Running
  <2> QED BY <2>1, <2>2, <2>8, <1>1, <1>2 DEF FirstRun
<1> QED BY <1>4, <1>5

\* tcp_timer_needed: the first connection starts the timer.
LEMMA NeededStep ==
  ASSUME FirstRun, tcp_timer_needed
  PROVE  FirstRun'
<1>1. /\ lw_pc = "idle" /\ tcp_pcbs' = TRUE /\ now' = now /\ gap' = gap /\ todo' = todo
      /\ snap' = snap /\ inits' = inits
  BY DEF tcp_timer_needed
<1>2. Running /\ inits # 0 /\ todo = <<>> /\ gap \in 0..MaxGap
  BY <1>1 DEF FirstRun, Running
<1>3. CASE tcp_timer_active
  <2>1. mem' = mem /\ tcp_timer_active' = tcp_timer_active /\ lw_pc' = lw_pc /\ left' = left
    BY <1>3 DEF tcp_timer_needed
  <2>2. LateBy' = LateBy
    BY <2>1, <1>1 DEF LateBy
  <2>3. LateBy' \in Nat /\ LateBy =< LateBy'
    BY <2>2, <1>2, InReach, SMTT(60)
  <2> QED BY <2>1, <2>3, <1>1, <1>2, NextPart
<1>4. CASE ~tcp_timer_active
  <2>1. Start(mem, Interval[Tcp], Tcp, lw_pc) /\ tcp_timer_active' = TRUE
    BY <1>4 DEF tcp_timer_needed
  <2>2. Tcp \in All \ Wanted
    BY <1>4, WantedOnes DEF Wanted
  <2>3. Interval[Tcp] \in 0..Interval[Tcp] /\ Interval[Tcp] \in Nat /\ Interval[Tcp] > 0
    BY ClockFacts, WantedOnes, SMTT(60)
  <2>4. Held \in Nat /\ Held < PoolSize /\ Held' = Held + 1
    BY <2>1, <1>1, <1>2, <1>4, HowMany DEF Held
  <2>5. /\ InLists(mem, Held, Wanted, left, now) /\ Reach(left, Wanted) /\ left \in [All -> Int]
        /\ now \in Clock
    BY <1>2, InReach DEF Running, FirstRun
  <2>6. /\ lw_pc' = lw_pc /\ left' = [left EXCEPT ![Tcp] = Interval[Tcp]]
        /\ left' \in [All -> Int]
        /\ InLists(mem', Held + 1, Wanted \cup {Tcp}, left', now)
    BY <2>1, <2>2, <2>3, <2>4, <2>5, WantedOnes, Starts
  <2>7. Wanted' = Wanted \cup {Tcp}
    BY <2>1, <1>1, <1>4 DEF Wanted
  <2>8. InTime'
    <3>1. LateBy' = LateBy /\ LateBy \in Nat
      BY <2>6, <1>1, <1>2, InReach DEF LateBy
    <3>2. ASSUME NEW u \in Wanted \cup {Tcp}
          PROVE  left'[u] \in Int /\ 1 - LateBy =< left'[u] /\ left'[u] =< Interval[u]
      <4>1. CASE u = Tcp
        <5>1. left'[u] = Interval[u]
          BY <4>1, <2>5, <2>6, WantedOnes
        <5> QED BY <5>1, <4>1, <2>3, <3>1, SMTT(60)
      <4>2. CASE u # Tcp
        <5>1. left'[u] = left[u] /\ u \in Wanted
          BY <4>2, <2>5, <2>6, WantedOnes
        <5> QED BY <5>1, <1>2 DEF Running, InTime
      <4> QED BY <4>1, <4>2
    <3> QED BY <3>1, <3>2, <2>7 DEF InTime
  <2>9. Running'
    BY <2>4, <2>6, <2>7, <2>8, <1>1, <1>2 DEF Running
  <2> QED BY <2>1, <2>6, <2>9, <1>1, <1>2 DEF FirstRun
<1> QED BY <1>3, <1>4

\* A tick of the clock: every timer is one tick nearer, and their order and
\* the times in the list stay true.
LEMMA TickTimed ==
  ASSUME NEW m, NEW n, NEW W \in SUBSET All, NEW lf, NEW w \in Clock, NEW l2,
         InLists(m, n, W, lf, w), Reach(lf, W),
         \A t \in W : 1 - 3 * MaxGap =< lf[t] - 1 /\ l2[t] = lf[t] - 1
  PROVE  InLists(m, n, W, l2, (w + 1) % Wrap)
<1> DEFINE c == Chain(m, m.next_timeout)
           v == (w + 1) % Wrap
<1>1. TwoLists(m, c, n, Chain(m, m.tab), PoolSize - n) /\ Timed(m.h, m.time, c, n, W, lf, w)
  BY DEF InLists, Keeps
<1>2. ASSUME NEW t \in W
      PROVE  lf[t] \in Int /\ l2[t] = lf[t] - 1 /\ (v + l2[t]) % Wrap = (w + lf[t]) % Wrap
  <2>1. lf[t] \in Int /\ 1 - 3 * MaxGap =< lf[t] - 1 /\ lf[t] =< Interval[t] /\ l2[t] = lf[t] - 1
    BY DEF Reach
  <2>2. /\ Interval[t] \in Nat /\ Interval[t] + 3 * MaxGap =< Wrap \div 2 /\ MaxGap \in Nat
        /\ Wrap \div 2 \in Nat
    BY ClockFacts
  <2>3. PICK a \in Int, i \in Nat, H \in Nat : a = lf[t] /\ i = Interval[t] /\ H = Wrap \div 2
    BY <2>1, <2>2
  <2>4. -H =< a - 1 /\ a =< H
    BY <2>1, <2>2, <2>3, SMTT(60)
  <2>5. (v + (a - 1)) % Wrap = (w + a) % Wrap
    BY <2>3, <2>4, TickKeeps
  <2> QED BY <2>1, <2>3, <2>5
<1> HIDE DEF c, v
<1>3. Timed(m.h, m.time, c, n, W, l2, v)
  <2>1. ASSUME NEW i \in Numbers, i < n
        PROVE m.h[c[i]] \in W /\ m.time[c[i]] = (v + l2[m.h[c[i]]]) % Wrap
    <3>1. m.h[c[i]] \in W /\ m.time[c[i]] = (w + lf[m.h[c[i]]]) % Wrap
      BY <2>1, <1>1 DEF Timed
    <3> QED BY <3>1, <1>2
  <2>2. ASSUME NEW i \in Numbers, NEW j \in Numbers, i < j, j < n
        PROVE l2[m.h[c[i]]] =< l2[m.h[c[j]]]
    <3>1. i < n
      <4>1. i \in Nat /\ j \in Nat /\ n \in Nat
        <5>1. n \in Numbers
          BY <1>1 DEF TwoLists, GoesAlong
        <5> QED BY <5>1, PoolFacts, SMTT(60) DEF Numbers
      <4> QED BY <4>1, <2>2, SMTT(60)
    <3>2. m.h[c[i]] \in W /\ m.h[c[j]] \in W
      BY <2>1, <2>2, <3>1
    <3>3. lf[m.h[c[i]]] =< lf[m.h[c[j]]]
      BY <2>2, <1>1 DEF Timed
    <3> QED BY <3>2, <3>3, <1>2, SMTT(60)
  <2> QED BY <2>1, <2>2, <1>1 DEF Timed
<1> QED BY <1>1, <1>3 DEF InLists, Keeps, c, v

\* Max of two numbers.
LEMMA MaxOfTwo ==
  ASSUME NEW a \in Int, NEW b \in Int, b =< a
  PROVE  Max({a, b}) = a
<1>1. a \in {a, b} /\ \A y \in {a, b} : a >= y
  BY SMTT(60)
<1>2. \A x \in {a, b} : (\A y \in {a, b} : x >= y) => x = a
  BY SMTT(60)
<1> QED BY <1>1, <1>2 DEF Max

\* irq0_c.
LEMMA TickStep ==
  ASSUME FirstRun, LwTick
  PROVE  FirstRun'
<1> DEFINE W == Wanted
<1>1. /\ lw_pc # "off" /\ gap < MaxGap /\ now' = (now + 1) % Wrap /\ gap' = gap + 1
      /\ left' = [t \in All |-> IF t \in W THEN Max({left[t] - 1, -(Wrap \div 2)}) ELSE 0]
      /\ mem' = mem /\ tcp_timer_active' = tcp_timer_active /\ tcp_pcbs' = tcp_pcbs
      /\ lw_pc' = lw_pc
      /\ todo' = todo /\ snap' = snap /\ inits' = inits
  BY DEF LwTick
<1>2. /\ Running /\ inits # 0 /\ gap \in Nat /\ MaxGap \in Nat /\ now \in Clock
      /\ left \in [All -> Int]
      /\ InLists(mem, Held, W, left, now) /\ Reach(left, W) /\ W \in SUBSET All
  BY <1>1, ClockFacts, InReach, WantedOnes, SMTT(60) DEF FirstRun, Running
<1>3. Wanted' = W /\ Held' = Held
  BY <1>1 DEF Wanted, Held
<1>4. LateBy' = LateBy + 1 /\ LateBy \in Nat /\ LateBy' =< 3 * MaxGap
  BY <1>1, <1>2, SMTT(60) DEF LateBy
<1> HIDE DEF W
<1>5. ASSUME NEW t \in W
      PROVE  /\ left[t] \in Int /\ 1 - LateBy' =< left[t] - 1 /\ 1 - 3 * MaxGap =< left[t] - 1
             /\ left[t] - 1 =< Interval[t] /\ left'[t] = left[t] - 1
  <2>1. left[t] \in Int /\ 1 - LateBy =< left[t] /\ left[t] =< Interval[t]
    BY <1>2 DEF Running, InTime, W
  <2>2. Interval[t] \in Nat /\ Interval[t] + 3 * MaxGap =< Wrap \div 2 /\ Wrap \div 2 \in Nat
    BY <1>2, ClockFacts
  <2>3. PICK a \in Int, i \in Nat, H \in Nat, l \in Nat :
          a = left[t] /\ i = Interval[t] /\ H = Wrap \div 2 /\ l = LateBy
    BY <2>1, <2>2, <1>4
  <2>4. 1 - (l + 1) =< a - 1 /\ 1 - 3 * MaxGap =< a - 1 /\ a - 1 =< i /\ -H =< a - 1 /\ -H \in Int
    BY <2>1, <2>2, <2>3, <1>2, <1>4, SMTT(60)
  <2>5. Max({a - 1, -H}) = a - 1
    BY <2>4, MaxOfTwo, SMTT(60)
  <2>6. left'[t] = a - 1
    BY <2>3, <2>5, <1>1, <1>2
  <2> QED BY <2>3, <2>4, <2>6, <1>4
<1>6. left' \in [All -> Int]
  <2>1. ASSUME NEW t \in All PROVE left'[t] \in Int
    <3>1. CASE t \in W
      BY <3>1, <1>5, SMTT(60)
    <3>2. CASE t \notin W
      BY <3>2, <1>1, SMTT(60)
    <3> QED BY <3>1, <3>2
  <2>2. left' = [t \in All |-> left'[t]]
    BY <1>1
  <2> QED BY <2>1, <2>2
<1>7. InLists(mem, Held, W, left', (now + 1) % Wrap)
  BY <1>2, <1>5, TickTimed
<1>8. now' \in Clock /\ (lw_pc = "check" => now' = (snap + gap') % Wrap)
  <2>1. 1 \in Int /\ -(Wrap \div 2) =< 1 - 1 /\ 1 =< Wrap \div 2
    BY ClockFacts, SMTT(60)
  <2>2. now' \in Clock
    BY <2>1, <1>1, <1>2, TickKeeps
  <2>3. ASSUME lw_pc = "check" PROVE now' = (snap + (gap + 1)) % Wrap
    <3>1. snap \in Clock /\ now = (snap + gap) % Wrap
      BY <2>3, <1>2 DEF Running
    <3>2. /\ Interval[Tcp] \in Nat /\ Interval[Tcp] > 0
          /\ Interval[Tcp] + 3 * MaxGap =< Wrap \div 2 /\ Wrap \div 2 \in Nat
      BY ClockFacts, WantedOnes
    <3>3. /\ gap \in Int /\ 1 \in Int /\ -(Wrap \div 2) =< gap /\ gap =< Wrap \div 2
          /\ -(Wrap \div 2) =< gap + 1 /\ gap + 1 =< Wrap \div 2
      BY <3>2, <1>1, <1>2, SMTT(60)
    <3>4. (((snap + gap) % Wrap) + 1) % Wrap = (snap + (gap + 1)) % Wrap
      BY <3>1, <3>3, AddOn
    <3> QED BY <3>1, <3>4, <1>1
  <2> QED BY <2>2, <2>3, <1>1
<1>9. InTime'
  <2>1. \A t \in W : left'[t] \in Int /\ 1 - LateBy' =< left'[t] /\ left'[t] =< Interval[t]
    BY <1>5, SMTT(60)
  <2> QED BY <2>1, <1>3 DEF InTime
<1>10. Running'
  BY <1>1, <1>2, <1>3, <1>7, <1>8, <1>9 DEF Running, W
<1>11. gap' \in 0..MaxGap
  BY <1>1, <1>2, SMTT(60)
<1> QED BY <1>1, <1>2, <1>6, <1>8, <1>10, <1>11 DEF FirstRun

\* Every step keeps the invariant; a second lwip command ends it.
LEMMA LwInvStep ==
  ASSUME LwInv, [LwNext]_ltvars
  PROVE  LwInv'
<1>1. CASE lwip_init_port
  <2>1. inits' = inits + 1 /\ inits < MaxInits /\ inits \in Nat /\ MaxInits \in Nat
    BY <1>1, ClockFacts DEF lwip_init_port, LwInv
  <2>2. inits' \in Nat /\ inits' =< MaxInits /\ (inits' =< 1 => inits = 0)
    BY <2>1, SMTT(60)
  <2>3. inits = 0 => FirstRun
    BY <2>1, SMTT(60) DEF LwInv
  <2> QED BY <2>2, <2>3, <1>1, InitPortStep DEF LwInv
<1>2. ASSUME inits' = inits, FirstRun => FirstRun' PROVE LwInv'
  BY <1>2 DEF LwInv
<1>3. CASE sys_timeouts_init
  BY <1>2, <1>3, InitStep DEF sys_timeouts_init
<1>4. CASE InitDone
  BY <1>2, <1>4, InitDoneStep DEF InitDone
<1>5. CASE lwip_poll
  BY <1>2, <1>5, PollStep DEF lwip_poll
<1>6. CASE CheckDone
  BY <1>2, <1>6, CheckDoneStep DEF CheckDone
<1>7. CASE lwip_cyclic_timer
  BY <1>2, <1>7, CyclicStep DEF lwip_cyclic_timer
<1>8. CASE tcpip_tcp_timer
  BY <1>2, <1>8, TcpTimerStep DEF tcpip_tcp_timer
<1>9. CASE tcp_timer_needed
  BY <1>2, <1>9, NeededStep DEF tcp_timer_needed
<1>10. CASE TcpClosed
  BY <1>2, <1>10, ClosedStep DEF TcpClosed
<1>11. CASE LwTick
  BY <1>2, <1>11, TickStep DEF LwTick
<1>12. CASE UNCHANGED ltvars
  <2>1. /\ mem' = mem /\ tcp_timer_active' = tcp_timer_active /\ tcp_pcbs' = tcp_pcbs
        /\ now' = now
        /\ gap' = gap /\ left' = left /\ lw_pc' = lw_pc /\ todo' = todo /\ snap' = snap
        /\ inits' = inits
    BY <1>12 DEF ltvars, clock
  <2>2. Wanted' = Wanted /\ Held' = Held /\ LateBy' = LateBy
    BY <2>1 DEF Wanted, Held, LateBy
  <2>3. FirstRun => FirstRun'
    BY <2>1, <2>2 DEF FirstRun, Running, NotYet, InTime
  <2> QED BY <1>2, <2>1, <2>3
<1> QED BY <1>1, <1>3, <1>4, <1>5, <1>6, <1>7, <1>8, <1>9, <1>10, <1>11, <1>12 DEF LwNext, LwStep

\* No timer runs before the lwip command.
LEMMA LwInvInit == LwInit => LwInv
<1> SUFFICES ASSUME LwInit PROVE LwInv
  OBVIOUS
<1>1. /\ tcp_timer_active = FALSE /\ tcp_pcbs = FALSE /\ now = 0 /\ gap = 0
      /\ lw_pc = "off" /\ inits = 0 /\ left = [t \in All |-> 0]
  BY DEF LwInit
<1>2. mem.h = [e \in Elements |-> NoTimer] /\ mem.time = [e \in Elements |-> 0] /\ mem.next_timeout = NULL
  BY DEF LwInit, Mem
<1>3. NotYet
  BY <1>1, <1>2, SMTT(60) DEF NotYet, Handlers
<1>4. /\ now \in Clock /\ gap \in 0..MaxGap /\ left \in [All -> Int] /\ inits \in Nat
      /\ inits =< MaxInits
  BY <1>1, ClockFacts, SMTT(60) DEF Clock
<1> QED BY <1>1, <1>3, <1>4 DEF LwInv, FirstRun

\* Between two commands the list is what sys_check_timeouts needs.
LEMMA InOrder ==
  ASSUME FirstRun
  PROVE  TimersInOrder
<1> SUFFICES ASSUME lw_pc \in {"idle", "check"} PROVE TimersInOrder
  BY DEF TimersInOrder
<1> DEFINE c == Chain(mem, Earliest)
           h == mem.h
           f == [e \in Listed |-> h[e]]
<1>1. Running /\ InLists(mem, Held, Wanted, left, now)
  BY DEF FirstRun, Running
<1>2. GoesAlong(mem.link, Earliest, c, Held) /\ Timed(h, mem.time, c, Held, Wanted, left, now)
  BY <1>1 DEF InLists, Keeps, TwoLists, Earliest
<1>3. /\ Held \in Numbers /\ Held \in Nat /\ Held =< PoolSize /\ PoolSize \in Nat
      /\ PoolSize \in Numbers
      /\ \A i \in Numbers : c[i] \in Numbers /\ i \in Nat
  BY <1>2, PoolFacts, SMTT(60) DEF GoesAlong, Numbers
<1> HIDE DEF c, h
<1>4. c[PoolSize] = NULL
  BY <1>2, <1>3 DEF GoesAlong, NULL
<1>5. \A i \in Numbers : c[i] # 0 <=> i < Held
  BY <1>2, <1>3, SMTT(60) DEF GoesAlong
<1>6. \A e : e \in Listed <=> \E i \in Numbers : i < Held /\ c[i] = e
  <2>1. \A i \in Numbers : c[i] # 0 <=> c[i] \in Elements
    BY <1>3, SMTT(60) DEF Elements, Numbers
  <2> QED BY <2>1, <1>5 DEF Listed, c, Numbers
<1>7. {h[e] : e \in Listed} = Wanted
  BY <1>2, <1>6, SMTT(60) DEF Timed
<1>8. f \in [Listed -> Wanted]
  BY <1>7
<1>9. ASSUME NEW e \in Listed, NEW g \in Listed, f[e] = f[g] PROVE e = g
  <2>1. PICK i \in Numbers : i < Held /\ c[i] = e
    BY <1>6
  <2>2. PICK j \in Numbers : j < Held /\ c[j] = g
    BY <1>6
  <2> QED BY <2>1, <2>2, <1>2, <1>9 DEF Timed
<1>10. Cardinality(Wanted) = Cardinality(Listed)
  <2>1. IsFiniteSet(Listed)
    <3>1. IsFiniteSet(1..PoolSize)
      BY <1>3, FS_Interval, SMTT(60)
    <3>2. Listed \in SUBSET (1..PoolSize)
      BY DEF Listed, Elements
    <3> QED BY <3>1, <3>2, FS_Subset
  <2>2. \A t \in Wanted : \E e \in Listed : f[e] = t
    BY <1>7
  <2>3. f \in Bijection(Listed, Wanted)
    BY <1>8, <1>9, <2>2 DEF Bijection, Injection, Surjection, IsInjective
  <2>4. ExistsBijection(Listed, Wanted)
    BY <2>3 DEF ExistsBijection
  <2> QED BY <2>1, <2>4, FS_Bijection
<1>11. ASSUME NEW i \in 0..(PoolSize - 1), c[i] # NULL, c[i + 1] # NULL
       PROVE  left[h[c[i]]] =< left[h[c[i + 1]]]
  <2>1. i \in Numbers /\ i + 1 \in Numbers /\ i < i + 1
    BY <1>3, SMTT(60) DEF Numbers
  <2>2. i + 1 < Held
    BY <2>1, <1>5, <1>11 DEF NULL
  <2> QED BY <2>1, <2>2, <1>2 DEF Timed
<1> QED BY <1>4, <1>7, <1>10, <1>11 DEF TimersInOrder, c, h

\* Until the lwip command is given a second time the timer list is complete
\* and in the order in which the timers are really due, whatever the timers,
\* their intervals, the clock's wrap and the pauses of the desktop's loop.
THEOREM TimersAlwaysInOrder == LwSpec => [](inits =< 1 => TimersInOrder)
<1>1. LwInv => (inits =< 1 => TimersInOrder)
  BY InOrder DEF LwInv
<1>2. LwInit /\ [][LwNext]_ltvars => []LwInv
  BY LwInvInit, LwInvStep, PTL
<1> QED BY <1>1, <1>2, PTL DEF LwSpec

\* The first lwip command and all that follows it come to an end: there is an
\* element of the pool, and a place in the list, for every timer started.
THEOREM NeverHung == LwSpec => [](inits =< 1 => lw_pc # "hung")
<1>1. LwInv => (inits =< 1 => lw_pc # "hung")
  BY DEF LwInv, FirstRun
<1>2. LwInit /\ [][LwNext]_ltvars => []LwInv
  BY LwInvInit, LwInvStep, PTL
<1> QED BY <1>1, <1>2, PTL DEF LwSpec

\* With one lwip command every handler is called when it is due, not before,
\* and a cyclic timer keeps its rhythm unless it is late by an interval.
THEOREM TimersOnTime == MaxInits =< 1 => (LwSpec => OnTime)
<1> SUFFICES ASSUME MaxInits =< 1 PROVE LwSpec => OnTime
  OBVIOUS
<1> DEFINE Act ==
      \A t \in TimerSet :
        mem.next_timeout # mem'.next_timeout /\ lw_pc = "check" /\ fired' = t
          /\ mem.h[Earliest] = t
        => /\ left[t] =< 0
           /\ left'[t] = IF left[t] + Interval[t] < 0 THEN Interval[t] ELSE left[t] + Interval[t]
<1>1. LwInv /\ [LwNext]_ltvars => [Act]_ltvars
  <2> SUFFICES ASSUME LwInv, LwNext, NEW t \in TimerSet,
                      mem.next_timeout # mem'.next_timeout, lw_pc = "check", fired' = t, mem.h[Earliest] = t
               PROVE  /\ left[t] =< 0
                      /\ left'[t] = IF left[t] + Interval[t] < 0 THEN Interval[t] ELSE left[t] + Interval[t]
    BY DEF Act
  <2>1. FirstRun
    <3>1. inits =< 1
      BY ClockFacts, SMTT(60) DEF LwInv
    <3> QED BY <3>1 DEF LwInv
  <2>2. ~tcpip_tcp_timer
    BY WantedOnes DEF tcpip_tcp_timer
  <2>3. lwip_cyclic_timer
    BY <2>2 DEF LwNext, LwStep, sys_timeouts_init, InitDone, lwip_poll, CheckDone,
                lwip_init_port, LwTick, tcp_timer_needed, TcpClosed
  <2> QED BY <2>1, <2>3, CyclicStep
<1>2. LwInit /\ [][LwNext]_ltvars => []LwInv
  BY LwInvInit, LwInvStep, PTL
<1> QED BY <1>1, <1>2, PTL DEF LwSpec, OnTime
=============================================================================
