------------------------- MODULE RateLimiterProofs -------------------------
(***************************************************************************)
(* The safety of RateLimiter for any hosts, limit, window and clock: what  *)
(* the limiters keep of a host agrees with the history of its requests.    *)
(***************************************************************************)
EXTENDS RateLimiter, FiniteSetTheorems, SequenceTheorems, TLAPS

USE DEF limiter, vars

-----------------------------------------------------------------------------
(* The inductive invariant.                                                *)

Drop(s, j) == SubSeq(s, j + 1, Len(s))

\* A history of the Window that ends with t.
Recent(s, t) ==
  /\ s \in Seq(Ticks) /\ InOrder(s)
  /\ \A i \in 1 .. Len(s) : s[i] <= t /\ s[i] + Window > t

Timed ==
  /\ last_cleanup <= now
  /\ \A h \in Hosts : /\ Recent(accepted[h], now) /\ Recent(failed[h], now)
                      /\ \A i \in 1 .. Len(windows[h]) : windows[h][i] <= now

\* Of a window in memory, all but the history is a Window ago.
InMemory(h) ==
  backend = "memory" =>
    \E j \in 0 .. Len(windows[h]) :
      /\ accepted[h] = Drop(windows[h], j)
      /\ \A i \in 1 .. j : windows[h][i] + Window <= now

\* Since the last cleanup all windows that are kept were in use around it.
Kept(h) ==
  windows[h] # << >> =>
    Last(windows[h]) + Window >= last_cleanup /\ Last(windows[h]) <= last_cleanup + Window

Least(m, n) == IF m <= n THEN m ELSE n

\* Of the history k times precede the window in Redis, and the others are not
\* more than it has counted; while it lives, the others and those that failed
\* in it are not less.
Fixed(h, k, f) ==
  LET count   == Least(counter[h].count, Limit)
      expires == counter[h].expires
  IN  /\ k <= Limit /\ Len(accepted[h]) - k <= count
      /\ \A i \in 1 .. k : accepted[h][i] + Window < expires
      /\ \A i \in k + 1 .. Len(accepted[h]) : accepted[h][i] + Window >= expires
      /\ \A i \in f + 1 .. Len(failed[h]) : failed[h][i] + Window >= expires
      /\ now < expires => (Len(accepted[h]) - k) + (Len(failed[h]) - f) >= count

InRedis(h) ==
  backend = "redis" =>
    /\ counter[h].count = 0 => accepted[h] = << >>
    /\ counter[h].expires <= now + Window
    /\ \A i \in 1 .. Len(accepted[h]) : accepted[h][i] < counter[h].expires
    /\ \E k \in 0 .. Len(accepted[h]), f \in 0 .. Len(failed[h]) : Fixed(h, k, f)

IInv ==
  /\ TypeOK
  /\ Timed
  /\ \A h \in Hosts : InMemory(h) /\ Kept(h) /\ InRedis(h)
  /\ RefusedOnlyWhenFull

-----------------------------------------------------------------------------
(* Sequences of times.                                                     *)

\* Numbers have a least one: the initial segments are well-founded.
LEMMA LeastOf ==
  ASSUME NEW T, T \subseteq Nat, T # {}
  PROVE  \E x \in T : \A y \in T : x <= y
<1> DEFINE F == {0 .. x : x \in T}
<1>1. F \subseteq FiniteSubsetsOf(Nat) /\ F # {}
  <2>1. ASSUME NEW x \in T PROVE 0 .. x \in FiniteSubsetsOf(Nat)
    <3>1. x \in Int /\ 0 .. x \subseteq Nat
      OBVIOUS
    <3>2. IsFiniteSet(0 .. x)
      BY <3>1, FS_Interval
    <3> QED BY <3>1, <3>2 DEF FiniteSubsetsOf
  <2> QED BY <2>1
<1>2. IsWellFoundedOn(StrictSubsetOrdering(Nat), FiniteSubsetsOf(Nat))
  BY FS_StrictSubsetOrderingWellFounded
<1> HIDE DEF F
<1>3. PICK I \in F : \A J \in F : <<J, I>> \notin StrictSubsetOrdering(Nat)
  BY <1>1, <1>2, WFMin
<1>4. PICK x \in T : I = 0 .. x
  BY DEF F
<1>5. ASSUME NEW y \in T, y < x PROVE FALSE
  <2>1. 0 .. y \in F /\ 0 .. y \subseteq 0 .. x /\ x \notin 0 .. y /\ x \in 0 .. x
    BY <1>5 DEF F
  <2>2. 0 .. x \subseteq Nat /\ 0 .. y \subseteq Nat
    OBVIOUS
  <2> QED BY <1>3, <1>4, <2>1, <2>2 DEF StrictSubsetOrdering
<1> QED BY <1>5


\* What is left of a sequence without its first elements.
LEMMA DropFacts ==
  ASSUME NEW S, NEW s \in Seq(S), NEW j \in 0 .. Len(s)
  PROVE  /\ Drop(s, j) \in Seq(S)
         /\ Len(Drop(s, j)) = Len(s) - j
         /\ \A i \in 1 .. Len(s) - j : Drop(s, j)[i] = s[i + j]
<1>1. j + 1 \in 1 .. Len(s) + 1 /\ Len(s) \in Nat /\ j \in Nat
  OBVIOUS
<1>2. Len(SubSeq(s, j + 1, Len(s))) = IF j + 1 <= Len(s) THEN Len(s) - (j + 1) + 1 ELSE 0
  BY <1>1
<1>3. \A i \in 1 .. Len(s) - j : SubSeq(s, j + 1, Len(s))[i] = s[i + j]
  <2> TAKE i \in 1 .. Len(s) - j
  <2>1. i \in 1 .. (Len(s) - (j + 1) + 1) /\ (j + 1) + i - 1 = i + j
    BY <1>1
  <2>2. SubSeq(s, j + 1, Len(s))[i] = s[(j + 1) + i - 1]
    BY <1>1, <2>1
  <2> QED BY <2>1, <2>2
<1>4. SubSeq(s, j + 1, Len(s)) \in Seq(S)
  BY <1>1
<1> QED BY <1>1, <1>2, <1>3, <1>4 DEF Drop

\* Sequences with the same elements are the same.
LEMMA SameSequence ==
  ASSUME NEW S, NEW s \in Seq(S), NEW t \in Seq(S), Len(s) = Len(t),
         \A i \in 1 .. Len(s) : s[i] = t[i]
  PROVE  s = t
OBVIOUS

\* First elements may be left off in two steps, or not at all.
LEMMA DropTwice ==
  ASSUME NEW S, NEW s \in Seq(S), NEW j \in 0 .. Len(s), NEW k \in 0 .. Len(s) - j
  PROVE  /\ j + k \in 0 .. Len(s)
         /\ Drop(Drop(s, j), k) = Drop(s, j + k)
         /\ Drop(s, 0) = s
<1>1. Len(s) \in Nat /\ j \in Nat /\ k \in Nat /\ j + k \in 0 .. Len(s)
  OBVIOUS
<1> DEFINE d == Drop(s, j)
<1>2. d \in Seq(S) /\ Len(d) = Len(s) - j /\ \A i \in 1 .. Len(s) - j : d[i] = s[i + j]
  BY DropFacts
<1> HIDE DEF d
<1>3. /\ Drop(d, k) \in Seq(S) /\ Len(Drop(d, k)) = Len(d) - k
      /\ \A i \in 1 .. Len(d) - k : Drop(d, k)[i] = d[i + k]
  <2>1. k \in 0 .. Len(d)
    BY <1>2
  <2> QED BY <1>2, <2>1, DropFacts
<1>4. /\ Drop(s, j + k) \in Seq(S) /\ Len(Drop(s, j + k)) = Len(s) - (j + k)
      /\ \A i \in 1 .. Len(s) - (j + k) : Drop(s, j + k)[i] = s[i + (j + k)]
  BY <1>1, DropFacts
<1>5. Drop(d, k) = Drop(s, j + k)
  <2>1. Len(Drop(d, k)) = Len(Drop(s, j + k))
    BY <1>1, <1>2, <1>3, <1>4
  <2>2. ASSUME NEW i \in 1 .. Len(Drop(d, k)) PROVE Drop(d, k)[i] = Drop(s, j + k)[i]
    <3>1. i \in 1 .. Len(d) - k /\ i + k \in 1 .. Len(s) - j /\ (i + k) + j = i + (j + k)
          /\ i \in 1 .. Len(s) - (j + k)
      BY <1>1, <1>2, <1>3
    <3> QED BY <1>2, <1>3, <1>4, <3>1
  <2> QED BY <1>3, <1>4, <2>1, <2>2, SameSequence
<1>6. Drop(s, 0) = s
  <2>1. 0 \in 0 .. Len(s)
    BY <1>1
  <2>2. /\ Drop(s, 0) \in Seq(S) /\ Len(Drop(s, 0)) = Len(s) - 0
        /\ \A i \in 1 .. Len(s) - 0 : Drop(s, 0)[i] = s[i + 0]
    BY <2>1, DropFacts
  <2>3. Len(Drop(s, 0)) = Len(s) /\ \A i \in 1 .. Len(Drop(s, 0)) : Drop(s, 0)[i] = s[i]
    BY <1>1, <2>2
  <2> QED BY <2>2, <2>3, SameSequence
<1> QED BY <1>1, <1>5, <1>6 DEF d

\* What is left keeps its order and its last element.
LEMMA DropOrder ==
  ASSUME NEW s \in Seq(Nat), NEW j \in 0 .. Len(s)
  PROVE  /\ InOrder(s) => InOrder(Drop(s, j))
         /\ Drop(s, j) # << >> => s # << >> /\ Last(Drop(s, j)) = Last(s)
         /\ j = Len(s) => Drop(s, j) = << >>
<1>1. Len(s) \in Nat /\ j \in Nat
  OBVIOUS
<1> DEFINE d == Drop(s, j)
<1>2. d \in Seq(Nat) /\ Len(d) = Len(s) - j /\ \A i \in 1 .. Len(s) - j : d[i] = s[i + j]
  BY DropFacts
<1> HIDE DEF d
<1>3. InOrder(s) => InOrder(d)
  <2> SUFFICES ASSUME InOrder(s), NEW i \in DOMAIN d, NEW k \in DOMAIN d, i <= k
      PROVE  d[i] <= d[k]
    BY DEF InOrder
  <2>1. DOMAIN d = 1 .. Len(s) - j
    BY <1>2
  <2>2. i + j \in DOMAIN s /\ k + j \in DOMAIN s /\ i + j <= k + j
    BY <1>1, <2>1
  <2>3. s[i + j] <= s[k + j]
    BY <2>2 DEF InOrder
  <2>4. d[i] = s[i + j] /\ d[k] = s[k + j]
    BY <1>2, <2>1
  <2> QED BY <2>3, <2>4
<1>4. d # << >> => s # << >> /\ Last(d) = Last(s)
  <2> SUFFICES ASSUME d # << >> PROVE s # << >> /\ Last(d) = Last(s)
    OBVIOUS
  <2>1. Len(d) \in 1 .. Len(s) - j /\ Len(d) + j = Len(s)
    BY <1>1, <1>2
  <2>2. d[Len(d)] = s[Len(s)]
    BY <1>2, <2>1
  <2> QED BY <1>1, <2>1, <2>2 DEF Last
<1>5. j = Len(s) => d = << >>
  BY <1>1, <1>2
<1> QED BY <1>3, <1>4, <1>5 DEF d

\* Where the times of s that are a Window before t end.
Cut(s, t, j) ==
  /\ j \in 0 .. Len(s)
  /\ \A i \in 1 .. j : s[i] + Window <= t
  /\ \A i \in j + 1 .. Len(s) : s[i] + Window > t

\* In an orderly sequence they end somewhere.
LEMMA CutExists ==
  ASSUME NEW s \in Seq(Nat), InOrder(s), NEW t \in Nat
  PROVE  \E j \in 0 .. Len(s) : Cut(s, t, j)
<1> DEFINE T == {k \in 1 .. Len(s) + 1 : k = Len(s) + 1 \/ s[k] + Window > t}
<1>1. T \subseteq Nat /\ T # {} /\ Len(s) \in Nat
  <2>1. Len(s) \in Nat /\ Len(s) + 1 \in 1 .. Len(s) + 1
    OBVIOUS
  <2> QED BY <2>1
<1>2. \A k \in 1 .. Len(s) + 1 : k \in T <=> k = Len(s) + 1 \/ s[k] + Window > t
  OBVIOUS
<1>3. T \subseteq 1 .. Len(s) + 1
  OBVIOUS
<1> HIDE DEF T
<1>4. PICK m \in T : \A y \in T : m <= y
  BY <1>1, LeastOf
<1>5. m \in 1 .. Len(s) + 1 /\ m - 1 \in 0 .. Len(s) /\ (m - 1) + 1 = m
  BY <1>1, <1>3
<1>6. \A i \in 1 .. Len(s) : s[i] \in Nat
  OBVIOUS
<1>7. ASSUME NEW i \in 1 .. m - 1 PROVE s[i] + Window <= t
  <2>1. i \in 1 .. Len(s) + 1 /\ i # Len(s) + 1 /\ ~(m <= i) /\ i \in 1 .. Len(s)
    BY <1>1, <1>5
  <2>2. ~(s[i] + Window > t)
    BY <1>2, <1>4, <2>1
  <2> QED BY <1>6, <2>1, <2>2, LimiterAssumption
<1>8. ASSUME NEW i \in m .. Len(s) PROVE s[i] + Window > t
  <2>1. m \in 1 .. Len(s) /\ i \in 1 .. Len(s) /\ m <= i
    BY <1>1, <1>5
  <2>2. s[m] + Window > t
    BY <1>1, <1>2, <1>4, <1>5, <2>1
  <2>3. s[m] <= s[i]
    <3>1. DOMAIN s = 1 .. Len(s)
      OBVIOUS
    <3> QED BY <2>1, <3>1 DEF InOrder
  <2> QED BY <1>6, <2>1, <2>2, <2>3, LimiterAssumption
<1> QED BY <1>5, <1>7, <1>8 DEF Cut

\* And nowhere else.
LEMMA CutUnique ==
  ASSUME NEW s \in Seq(Nat), NEW t \in Nat, NEW j, NEW k, Cut(s, t, j), Cut(s, t, k)
  PROVE  j = k
<1>1. j \in 0 .. Len(s) /\ k \in 0 .. Len(s) /\ Len(s) \in Nat
  BY DEF Cut
<1>2. ASSUME NEW i \in 1 .. Len(s), s[i] + Window <= t, s[i] + Window > t PROVE FALSE
  BY <1>2, LimiterAssumption
<1>3. CASE j < k
  <2>1. k \in 1 .. k /\ k \in j + 1 .. Len(s) /\ k \in 1 .. Len(s)
    BY <1>1, <1>3
  <2> QED BY <1>2, <2>1 DEF Cut
<1>4. CASE k < j
  <2>1. j \in 1 .. j /\ j \in k + 1 .. Len(s) /\ j \in 1 .. Len(s)
    BY <1>1, <1>4
  <2> QED BY <1>2, <2>1 DEF Cut
<1> QED BY <1>1, <1>3, <1>4

\* The history of the last Window.
LEMMA LatestIs ==
  ASSUME NEW s \in Seq(Nat), InOrder(s), NEW t \in Nat
  PROVE  \E j \in 0 .. Len(s) : Cut(s, t, j) /\ Latest(s, t) = Drop(s, j)
<1>1. PICK j \in 0 .. Len(s) : Cut(s, t, j)
  BY CutExists
<1>2. Len(s) \in Nat /\ DOMAIN s = 1 .. Len(s) /\ \A i \in 1 .. Len(s) : s[i] \in Nat
  OBVIOUS
<1>3. {i \in DOMAIN s : s[i] + Window <= t} = 1 .. j
  <2>1. \A i \in 1 .. Len(s) : i \in 1 .. j \/ i \in j + 1 .. Len(s)
    BY <1>2
  <2>2. 1 .. j \subseteq 1 .. Len(s)
    BY <1>2
  <2>3. \A i \in 1 .. Len(s) : s[i] + Window > t => ~(s[i] + Window <= t)
    BY <1>2, LimiterAssumption
  <2> QED BY <1>1, <1>2, <2>1, <2>2, <2>3 DEF Cut
<1>4. Cardinality(1 .. j) = j
  <2>1. j \in Nat /\ 1 \in Int /\ j \in Int
    BY <1>2
  <2>2. Cardinality(1 .. j) = IF 1 > j THEN 0 ELSE j - 1 + 1
    BY <2>1, FS_Interval
  <2> QED BY <2>1, <2>2
<1> QED BY <1>1, <1>3, <1>4 DEF Latest, Drop

\* What is left of a window in memory.
LEMMA PoppedIs ==
  ASSUME NEW s \in Seq(Nat), InOrder(s), now \in Nat
  PROVE  \E j \in 0 .. Len(s) : Cut(s, now, j) /\ Popped(s) = Drop(s, j)
<1> DEFINE P(k) == /\ \A i \in 1 .. k : s[i] + Window <= now
                   /\ k < Len(s) => s[k + 1] + Window > now
           n == CHOOSE k \in 0 .. Len(s) : P(k)
<1>1. Len(s) \in Nat /\ DOMAIN s = 1 .. Len(s) /\ \A i \in 1 .. Len(s) : s[i] \in Nat
  OBVIOUS
<1>2. \E k \in 0 .. Len(s) : P(k)
  <2>1. PICK t \in Nat : t = now
    OBVIOUS
  <2>2. PICK k \in 0 .. Len(s) : Cut(s, t, k)
    BY CutExists
  <2>3. k < Len(s) => k + 1 \in k + 1 .. Len(s)
    BY <1>1
  <2>4. P(k)
    BY <2>1, <2>2, <2>3 DEF Cut
  <2> QED BY <2>4
<1>3. n \in 0 .. Len(s) /\ P(n)
  BY <1>2
<1>4. Popped(s) = Drop(s, n)
  BY DEF Popped, Drop
<1> HIDE DEF n
<1>5. \A i \in n + 1 .. Len(s) : s[i] + Window > now
  <2> TAKE i \in n + 1 .. Len(s)
  <2>1. n < Len(s) /\ n + 1 \in 1 .. Len(s) /\ i \in 1 .. Len(s) /\ n + 1 <= i
    BY <1>1, <1>3
  <2>2. s[n + 1] + Window > now /\ s[n + 1] <= s[i]
    BY <1>1, <1>3, <2>1 DEF InOrder
  <2> QED BY <1>1, <2>1, <2>2, LimiterAssumption
<1> QED BY <1>3, <1>4, <1>5 DEF Cut

\* Another time at the end.
LEMMA Appended ==
  ASSUME NEW S, NEW s \in Seq(S), NEW x \in S
  PROVE  /\ Append(s, x) \in Seq(S) /\ Len(Append(s, x)) = Len(s) + 1 /\ Len(s) \in Nat
         /\ \A i \in 1 .. Len(s) : Append(s, x)[i] = s[i]
         /\ Append(s, x)[Len(s) + 1] = x
         /\ Append(s, x) # << >> /\ Last(Append(s, x)) = x
<1>1. /\ Append(s, x) \in Seq(S) /\ Len(Append(s, x)) = Len(s) + 1 /\ Len(s) \in Nat
      /\ \A i \in 1 .. Len(s) : Append(s, x)[i] = s[i]
      /\ Append(s, x)[Len(s) + 1] = x
      /\ Append(s, x) # << >>
  OBVIOUS
<1> QED BY <1>1 DEF Last

\* The latest time keeps the order.
LEMMA AppendOrder ==
  ASSUME NEW s \in Seq(Nat), InOrder(s), NEW x \in Nat, \A i \in 1 .. Len(s) : s[i] <= x
  PROVE  InOrder(Append(s, x))
<1>1. /\ Append(s, x) \in Seq(Nat) /\ Len(Append(s, x)) = Len(s) + 1 /\ Len(s) \in Nat
      /\ \A i \in 1 .. Len(s) : Append(s, x)[i] = s[i]
      /\ Append(s, x)[Len(s) + 1] = x
  BY Appended
<1> DEFINE a == Append(s, x)
<1>2. DOMAIN a = 1 .. Len(s) + 1 /\ DOMAIN s = 1 .. Len(s)
  BY <1>1
<1>3. \A i \in 1 .. Len(s) : a[i] = s[i] /\ s[i] \in Nat
  BY <1>1
<1>4. a[Len(s) + 1] = x
  BY <1>1
<1> HIDE DEF a
<1>5. ASSUME NEW i \in 1 .. Len(s) + 1, NEW k \in 1 .. Len(s) + 1, i <= k
      PROVE  a[i] <= a[k]
  <2>1. CASE k = Len(s) + 1
    <3>1. CASE i = k
      <4>1. x <= x
        OBVIOUS
      <4> QED BY <1>4, <2>1, <3>1, <4>1
    <3>2. CASE i # k
      <4>1. i \in 1 .. Len(s)
        BY <1>1, <1>5, <2>1, <3>2
      <4> QED BY <1>3, <1>4, <2>1, <4>1
    <3> QED BY <3>1, <3>2
  <2>2. CASE k # Len(s) + 1
    <3>1. i \in 1 .. Len(s) /\ k \in 1 .. Len(s)
      BY <1>1, <1>5, <2>2
    <3>2. s[i] <= s[k]
      BY <1>2, <1>5, <3>1 DEF InOrder
    <3> QED BY <1>3, <3>1, <3>2
  <2> QED BY <2>1, <2>2
<1>6. InOrder(a)
  BY <1>2, <1>5 DEF InOrder
<1> QED BY <1>6 DEF a

\* Times are numbers.
LEMMA TickFacts ==
  /\ Ticks \subseteq Nat /\ Limit \in Nat \ {0} /\ Window \in Nat \ {0}
  /\ \A s \in Seq(Ticks) : s \in Seq(Nat) /\ Len(s) \in Nat
  /\ \A s \in Seq(Ticks) : \A i \in 1 .. Len(s) : s[i] \in Nat /\ s[i] \in Ticks
<1>1. Ticks \subseteq Nat /\ Limit \in Nat \ {0} /\ Window \in Nat \ {0}
  BY LimiterAssumption DEF Ticks
<1> HIDE DEF Ticks
<1>2. \A s \in Seq(Ticks) : \A i \in 1 .. Len(s) : s[i] \in Ticks
  OBVIOUS
<1>3. \A s \in Seq(Ticks) : s \in Seq(Nat) /\ Len(s) \in Nat
  <2> TAKE s \in Seq(Ticks)
  <2>1. s \in Seq(Nat)
    BY <1>1, SeqMonotonic
  <2> QED BY <2>1
<1> QED BY <1>1, <1>2, <1>3

\* A history that is followed by the present.
LEMMA RecentNow ==
  ASSUME NEW t \in Ticks, NEW s, Recent(s, t)
  PROVE  Recent(Append(s, t), t)
<1>1. /\ s \in Seq(Ticks) /\ s \in Seq(Nat) /\ Len(s) \in Nat /\ t \in Nat /\ InOrder(s)
      /\ \A i \in 1 .. Len(s) : s[i] <= t /\ s[i] + Window > t
  BY TickFacts DEF Recent
<1>2. /\ Append(s, t) \in Seq(Ticks) /\ Len(Append(s, t)) = Len(s) + 1
      /\ \A i \in 1 .. Len(s) : Append(s, t)[i] = s[i]
      /\ Append(s, t)[Len(s) + 1] = t
  BY <1>1, Appended
<1>3. InOrder(Append(s, t))
  BY <1>1, AppendOrder
<1>4. t <= t /\ t + Window > t
  BY <1>1, TickFacts
<1>5. \A i \in 1 .. Len(s) + 1 : i \in 1 .. Len(s) \/ i = Len(s) + 1
  BY <1>1
<1>6. \A i \in 1 .. Len(Append(s, t)) : Append(s, t)[i] <= t /\ Append(s, t)[i] + Window > t
  BY <1>1, <1>2, <1>4, <1>5
<1> QED BY <1>2, <1>3, <1>6 DEF Recent

\* A history a tick later.
LEMMA RecentLater ==
  ASSUME NEW t \in Ticks, t + 1 \in Ticks, NEW s, Recent(s, t)
  PROVE  \E j \in 0 .. Len(s) : /\ Latest(s, t + 1) = Drop(s, j)
                                /\ \A i \in 1 .. j : s[i] + Window <= t + 1
                                /\ Recent(Latest(s, t + 1), t + 1)
<1>1. /\ s \in Seq(Ticks) /\ s \in Seq(Nat) /\ Len(s) \in Nat /\ t \in Nat /\ InOrder(s)
      /\ \A i \in 1 .. Len(s) : s[i] <= t /\ s[i] \in Nat
      /\ t + 1 \in Nat
  BY TickFacts DEF Recent
<1>2. PICK j \in 0 .. Len(s) : Cut(s, t + 1, j) /\ Latest(s, t + 1) = Drop(s, j)
  BY <1>1, LatestIs
<1>3. /\ Drop(s, j) \in Seq(Ticks) /\ Len(Drop(s, j)) = Len(s) - j
      /\ \A i \in 1 .. Len(s) - j : Drop(s, j)[i] = s[i + j]
  BY <1>1, DropFacts
<1>4. InOrder(Drop(s, j))
  BY <1>1, DropOrder
<1>5. \A i \in 1 .. Len(s) - j : i + j \in j + 1 .. Len(s) /\ i + j \in 1 .. Len(s)
  BY <1>1
<1>6. ASSUME NEW i \in 1 .. Len(s) - j
      PROVE  Drop(s, j)[i] <= t + 1 /\ Drop(s, j)[i] + Window > t + 1
  <2>1. s[i + j] <= t /\ s[i + j] \in Nat
    BY <1>1, <1>5
  <2>2. s[i + j] + Window > t + 1
    BY <1>2, <1>5 DEF Cut
  <2>3. s[i + j] <= t + 1
    BY <1>1, <2>1
  <2> QED BY <1>3, <2>2, <2>3
<1>7. Recent(Drop(s, j), t + 1)
  BY <1>3, <1>4, <1>6 DEF Recent
<1>8. \A i \in 1 .. j : s[i] + Window <= t + 1
  BY <1>2 DEF Cut
<1> QED BY <1>2, <1>7, <1>8

-----------------------------------------------------------------------------
(* The invariant holds at first.                                           *)

\* Nobody has asked yet.
LEMMA InitInv ==
  ASSUME Init
  PROVE  IInv
<1>1. /\ << >> \in Seq(Ticks) /\ << >> \in Seq(Nat) /\ Len(<< >>) = 0 /\ InOrder(<< >>)
      /\ \A i \in 1 .. Len(<< >>) : FALSE
  BY DEF InOrder
<1>2. /\ now = 0 /\ last_cleanup = 0 /\ 0 \in Ticks /\ backend \in {"memory", "redis"}
      /\ refused = {}
  BY LimiterAssumption DEF Init, Ticks
<1>3. \A h \in Hosts : /\ windows[h] = << >> /\ accepted[h] = << >> /\ failed[h] = << >>
                       /\ counter[h].count = 0 /\ counter[h].expires = 0
  BY DEF Init
<1>4. TypeOK
  <2>1. counter \in [Hosts -> [count : Nat, expires : Nat]]
    BY DEF Init
  <2>2. accepted \in [Hosts -> Seq(Ticks)] /\ failed \in [Hosts -> Seq(Ticks)]
    BY <1>1 DEF Init
  <2>3. DOMAIN windows = Hosts
    BY DEF Init
  <2>4. 0 <= Limit
    BY TickFacts
  <2> QED BY <1>1, <1>2, <1>3, <2>1, <2>2, <2>3, <2>4 DEF TypeOK
<1>5. Timed
  <2>1. Recent(<< >>, now)
    BY <1>1 DEF Recent
  <2>2. last_cleanup <= now
    BY <1>2
  <2> QED BY <1>1, <1>3, <2>1, <2>2 DEF Timed
<1>6. ASSUME NEW h \in Hosts PROVE InMemory(h) /\ Kept(h) /\ InRedis(h)
  <2>1. Drop(<< >>, 0) = << >> /\ 0 \in 0 .. Len(<< >>)
    <3>1. 0 \in 0 .. Len(<< >>) /\ 0 \in 0 .. Len(<< >>) - 0
      BY <1>1
    <3> QED BY <1>1, <3>1, DropTwice
  <2>2. InMemory(h)
    BY <1>1, <1>3, <2>1 DEF InMemory
  <2>3. Kept(h)
    BY <1>3 DEF Kept
  <2>4. Least(0, Limit) = 0 /\ 0 <= Limit /\ 0 <= 0 + Window /\ ~(0 < 0)
    BY TickFacts DEF Least
  <2>5. Fixed(h, 0, 0)
    <3>1. \A i \in 1 .. 0 : FALSE
      OBVIOUS
    <3>2. \A i \in 0 + 1 .. 0 : FALSE
      OBVIOUS
    <3>3. Least(counter[h].count, Limit) = 0
      BY <1>3, <2>4
    <3>4. Len(accepted[h]) = 0 /\ Len(failed[h]) = 0 /\ 0 - 0 <= 0
      BY <1>1, <1>3
    <3>5. ~(now < counter[h].expires)
      BY <1>2, <1>3
    <3> QED BY <2>4, <3>1, <3>2, <3>3, <3>4, <3>5 DEF Fixed
  <2>6. InRedis(h)
    BY <1>1, <1>2, <1>3, <2>4, <2>5 DEF InRedis
  <2> QED BY <2>2, <2>3, <2>6
<1>7. RefusedOnlyWhenFull
  BY <1>2 DEF RefusedOnlyWhenFull
<1> QED BY <1>4, <1>5, <1>6, <1>7 DEF IInv

-----------------------------------------------------------------------------
(* Time passes.                                                            *)

\* What the types say of one host.
LEMMA HostTypes ==
  ASSUME TypeOK, NEW h \in Hosts
  PROVE  /\ now \in Ticks /\ now \in Nat /\ last_cleanup \in Ticks /\ last_cleanup \in Nat
         /\ windows[h] \in Seq(Ticks) /\ windows[h] \in Seq(Nat)
         /\ Len(windows[h]) \in Nat /\ Len(windows[h]) <= Limit /\ InOrder(windows[h])
         /\ \A i \in 1 .. Len(windows[h]) : windows[h][i] \in Nat
         /\ counter[h] \in [count : Nat, expires : Nat]
         /\ accepted[h] \in Seq(Ticks) /\ accepted[h] \in Seq(Nat)
         /\ Len(accepted[h]) \in Nat
         /\ \A i \in 1 .. Len(accepted[h]) : accepted[h][i] \in Nat
         /\ failed[h] \in Seq(Ticks) /\ failed[h] \in Seq(Nat) /\ Len(failed[h]) \in Nat
         /\ \A i \in 1 .. Len(failed[h]) : failed[h][i] \in Nat
<1>1. /\ now \in Ticks /\ last_cleanup \in Ticks /\ windows[h] \in Seq(Ticks)
      /\ Len(windows[h]) <= Limit /\ InOrder(windows[h])
      /\ counter[h] \in [count : Nat, expires : Nat]
      /\ accepted[h] \in Seq(Ticks) /\ failed[h] \in Seq(Ticks)
  BY DEF TypeOK
<1> QED BY <1>1, TickFacts

\* A window in memory keeps agreeing with the history.
LEMMA TickMemory ==
  ASSUME TypeOK, Timed, NEW h \in Hosts, InMemory(h), Tick,
         NEW k \in 0 .. Len(accepted[h]), accepted'[h] = Drop(accepted[h], k),
         \A i \in 1 .. k : accepted[h][i] + Window <= now + 1
  PROVE  InMemory(h)'
<1>1. UNCHANGED <<backend, windows>> /\ now' = now + 1
  BY DEF Tick
<1>2. SUFFICES ASSUME backend = "memory" PROVE InMemory(h)'
  BY <1>1 DEF InMemory
<1>3. PICK j \in 0 .. Len(windows[h]) :
        /\ accepted[h] = Drop(windows[h], j)
        /\ \A i \in 1 .. j : windows[h][i] + Window <= now
  BY <1>2 DEF InMemory
<1>4. /\ now \in Nat /\ windows[h] \in Seq(Nat) /\ Len(windows[h]) \in Nat
      /\ \A i \in 1 .. Len(windows[h]) : windows[h][i] \in Nat
  BY HostTypes
<1>5. /\ Len(accepted[h]) = Len(windows[h]) - j
      /\ \A i \in 1 .. Len(windows[h]) - j : accepted[h][i] = windows[h][i + j]
  BY <1>3, <1>4, DropFacts
<1>6. accepted'[h] = Drop(windows[h], j + k) /\ j + k \in 0 .. Len(windows[h])
  BY <1>3, <1>4, <1>5, DropTwice
<1>7. ASSUME NEW i \in 1 .. j + k PROVE windows[h][i] + Window <= now + 1
  <2>1. i \in 1 .. Len(windows[h]) /\ windows[h][i] \in Nat
    BY <1>4, <1>6
  <2>2. CASE i <= j
    <3>1. windows[h][i] + Window <= now
      BY <1>3, <1>4, <2>2
    <3> QED BY <1>4, <2>1, <3>1, TickFacts
  <2>3. CASE i > j
    <3>1. i - j \in 1 .. k /\ i - j \in 1 .. Len(windows[h]) - j /\ (i - j) + j = i
      BY <1>4, <1>6, <2>3
    <3>2. accepted[h][i - j] + Window <= now + 1 /\ accepted[h][i - j] = windows[h][i]
      BY <1>5, <3>1
    <3> QED BY <3>2
  <2> QED BY <1>4, <2>2, <2>3
<1> QED BY <1>1, <1>6, <1>7 DEF InMemory

\* So does the counter in Redis.
LEMMA TickRedis ==
  ASSUME TypeOK, Timed, NEW h \in Hosts, InRedis(h), Tick,
         NEW j \in 0 .. Len(accepted[h]), accepted'[h] = Drop(accepted[h], j),
         \A i \in 1 .. j : accepted[h][i] + Window <= now + 1,
         NEW m \in 0 .. Len(failed[h]), failed'[h] = Drop(failed[h], m),
         \A i \in 1 .. m : failed[h][i] + Window <= now + 1
  PROVE  InRedis(h)'
<1>1. UNCHANGED <<backend, counter>> /\ now' = now + 1
  BY DEF Tick
<1>2. SUFFICES ASSUME backend = "redis" PROVE InRedis(h)'
  BY <1>1 DEF InRedis
<1>3. /\ counter[h].count = 0 => accepted[h] = << >>
      /\ counter[h].expires <= now + Window
      /\ \A i \in 1 .. Len(accepted[h]) : accepted[h][i] < counter[h].expires
  BY <1>2 DEF InRedis
<1>4. PICK k \in 0 .. Len(accepted[h]), f \in 0 .. Len(failed[h]) : Fixed(h, k, f)
  BY <1>2 DEF InRedis
<1>5. /\ now \in Nat /\ Window \in Nat
      /\ accepted[h] \in Seq(Nat) /\ Len(accepted[h]) \in Nat
      /\ failed[h] \in Seq(Nat) /\ Len(failed[h]) \in Nat
      /\ \A i \in 1 .. Len(accepted[h]) : accepted[h][i] \in Nat
      /\ \A i \in 1 .. Len(failed[h]) : failed[h][i] \in Nat
      /\ counter[h].count \in Nat /\ counter[h].expires \in Nat
  BY HostTypes, TickFacts
<1>6. /\ accepted'[h] \in Seq(Nat) /\ Len(accepted'[h]) = Len(accepted[h]) - j
      /\ \A i \in 1 .. Len(accepted[h]) - j : accepted'[h][i] = accepted[h][i + j]
  <2>1. accepted[h] \in Seq(Nat)
    BY <1>5
  <2> QED BY <2>1, DropFacts
<1>7. /\ failed'[h] \in Seq(Nat) /\ Len(failed'[h]) = Len(failed[h]) - m
      /\ \A i \in 1 .. Len(failed[h]) - m : failed'[h][i] = failed[h][i + m]
  <2>1. failed[h] \in Seq(Nat)
    BY <1>5
  <2> QED BY <2>1, DropFacts
<1> DEFINE k1 == IF j <= k THEN k - j ELSE 0
           f1 == IF m <= f THEN f - m ELSE 0
           count == Least(counter[h].count, Limit)
           expires == counter[h].expires
<1>8. /\ k1 \in 0 .. Len(accepted'[h]) /\ f1 \in 0 .. Len(failed'[h]) /\ k1 <= k
      /\ k <= k1 + j /\ f <= f1 + m
      /\ k1 > 0 => k1 + j <= k
      /\ j <= k => k1 = k - j
      /\ m <= f => f1 = f - m
  <2>1. ASSUME NEW n \in Nat, NEW x \in 0 .. n, NEW y \in 0 .. n,
               NEW z, z = IF y <= x THEN x - y ELSE 0
        PROVE  /\ z \in 0 .. n - y /\ z <= x /\ x <= z + y
               /\ z > 0 => z + y <= x
               /\ y <= x => z = x - y
    BY <2>1
  <2>2. /\ k1 \in 0 .. Len(accepted[h]) - j /\ k1 <= k /\ k <= k1 + j
        /\ k1 > 0 => k1 + j <= k
        /\ j <= k => k1 = k - j
    BY <1>5, <2>1
  <2>3. /\ f1 \in 0 .. Len(failed[h]) - m /\ f <= f1 + m
        /\ m <= f => f1 = f - m
    BY <1>5, <2>1
  <2> HIDE DEF k1, f1
  <2> QED BY <1>6, <1>7, <2>2, <2>3
<1> HIDE DEF k1, f1
<1>9. count \in Nat /\ expires \in Nat /\ Limit \in Nat
  BY <1>5, TickFacts DEF Least
<1>10. /\ k <= Limit /\ Len(accepted[h]) - k <= count
       /\ \A i \in 1 .. k : accepted[h][i] + Window < expires
       /\ \A i \in k + 1 .. Len(accepted[h]) : accepted[h][i] + Window >= expires
       /\ \A i \in f + 1 .. Len(failed[h]) : failed[h][i] + Window >= expires
       /\ now < expires => (Len(accepted[h]) - k) + (Len(failed[h]) - f) >= count
  BY <1>4 DEF Fixed
<1> HIDE DEF count, expires
<1>11. ASSUME now + 1 < expires PROVE j <= k /\ m <= f
  <2>1. ASSUME j > k PROVE FALSE
    <3>1. /\ k + 1 \in 1 .. j /\ k + 1 \in k + 1 .. Len(accepted[h])
          /\ k + 1 \in 1 .. Len(accepted[h])
      BY <1>5, <2>1
    <3>2. /\ accepted[h][k + 1] + Window <= now + 1
          /\ accepted[h][k + 1] + Window >= expires
          /\ accepted[h][k + 1] \in Nat
      BY <1>5, <1>10, <3>1
    <3>3. PICK t \in Nat : t = accepted[h][k + 1]
      BY <3>2
    <3>4. t + Window <= now + 1 /\ t + Window >= expires
      BY <3>2, <3>3
    <3>5. now \in Nat /\ Window \in Nat /\ expires \in Nat
      BY <1>5, <1>9
    <3> QED BY <1>11, <3>4, <3>5
  <2>2. ASSUME m > f PROVE FALSE
    <3>1. f + 1 \in 1 .. m /\ f + 1 \in f + 1 .. Len(failed[h]) /\ f + 1 \in 1 .. Len(failed[h])
      BY <1>5, <2>2
    <3>2. /\ failed[h][f + 1] + Window <= now + 1
          /\ failed[h][f + 1] + Window >= expires
          /\ failed[h][f + 1] \in Nat
      BY <1>5, <1>10, <3>1
    <3>3. PICK t \in Nat : t = failed[h][f + 1]
      BY <3>2
    <3>4. t + Window <= now + 1 /\ t + Window >= expires
      BY <3>2, <3>3
    <3>5. now \in Nat /\ Window \in Nat /\ expires \in Nat
      BY <1>5, <1>9
    <3> QED BY <1>11, <3>4, <3>5
  <2> QED BY <1>5, <2>1, <2>2
<1>12. k1 <= Limit /\ Len(accepted'[h]) - k1 <= count
  <2>1. k <= Limit /\ Len(accepted[h]) - k <= count
    BY <1>10
  <2>2. k1 <= Limit
    BY <1>8, <1>9, <2>1
  <2>3. Len(accepted'[h]) = Len(accepted[h]) - j
    BY <1>6
  <2>4. Len(accepted[h]) - j - k1 <= Len(accepted[h]) - k
    BY <1>5, <1>8
  <2>5. Len(accepted'[h]) - k1 <= count
    BY <1>5, <1>8, <1>9, <2>1, <2>3, <2>4
  <2> QED BY <2>2, <2>5
<1>13. ASSUME NEW i \in 1 .. k1 PROVE accepted'[h][i] + Window < expires
  <2>1. i + j \in 1 .. k /\ i \in 1 .. Len(accepted[h]) - j
    BY <1>5, <1>6, <1>8
  <2> QED BY <1>6, <1>10, <2>1
<1>14. ASSUME NEW i \in k1 + 1 .. Len(accepted'[h]) PROVE accepted'[h][i] + Window >= expires
  <2>1. i + j \in k + 1 .. Len(accepted[h]) /\ i \in 1 .. Len(accepted[h]) - j
    BY <1>5, <1>6, <1>8
  <2> QED BY <1>6, <1>10, <2>1
<1>15. ASSUME NEW i \in f1 + 1 .. Len(failed'[h]) PROVE failed'[h][i] + Window >= expires
  <2>1. i + m \in f + 1 .. Len(failed[h]) /\ i \in 1 .. Len(failed[h]) - m
    BY <1>5, <1>7, <1>8
  <2> QED BY <1>7, <1>10, <2>1
<1>16. now + 1 < expires => (Len(accepted'[h]) - k1) + (Len(failed'[h]) - f1) >= count
  <2> SUFFICES ASSUME now + 1 < expires
      PROVE  (Len(accepted'[h]) - k1) + (Len(failed'[h]) - f1) >= count
    OBVIOUS
  <2>1. k1 = k - j /\ f1 = f - m
    BY <1>8, <1>11
  <2>2. (Len(accepted[h]) - k) + (Len(failed[h]) - f) >= count
    <3>1. now < expires
      BY <1>5, <1>9
    <3> QED BY <1>10, <3>1
  <2> QED BY <1>5, <1>6, <1>7, <2>1, <2>2
<1>17. Fixed(h, k1, f1)'
  BY <1>1, <1>12, <1>13, <1>14, <1>15, <1>16 DEF Fixed, count, expires
<1>18. counter'[h].count = 0 => accepted'[h] = << >>
  <2>1. accepted[h] = << >> => Len(accepted'[h]) = 0
    BY <1>5, <1>6
  <2> QED BY <1>1, <1>3, <1>6, <2>1
<1>19. counter'[h].expires <= now' + Window
  BY <1>1, <1>3, <1>5
<1>20. ASSUME NEW i \in 1 .. Len(accepted'[h]) PROVE accepted'[h][i] < counter'[h].expires
  <2>1. i \in Nat /\ j \in Nat /\ 1 <= i /\ i <= Len(accepted[h]) - j
    BY <1>5, <1>6
  <2>2. i + j \in 1 .. Len(accepted[h]) /\ i \in 1 .. Len(accepted[h]) - j
    BY <1>5, <2>1
  <2> QED BY <1>1, <1>3, <1>6, <2>2
<1> QED BY <1>8, <1>17, <1>18, <1>19, <1>20 DEF InRedis

\* The histories lose what is a Window ago, and nothing else changes.
LEMMA TickInv ==
  ASSUME IInv, Tick
  PROVE  IInv'
<1>0. TypeOK /\ Timed
  BY DEF IInv
<1>1. /\ now' = now + 1 /\ now \in Ticks /\ now' \in Ticks /\ now \in Nat /\ refused' = {}
      /\ UNCHANGED <<backend, windows, last_cleanup, counter>>
      /\ \A h \in Hosts : /\ accepted'[h] = Latest(accepted[h], now + 1)
                          /\ failed'[h] = Latest(failed[h], now + 1)
  <2>1. now \in 0 .. MaxTime /\ now < MaxTime
    BY <1>0 DEF Tick, TypeOK, Ticks
  <2>2. now + 1 \in 0 .. MaxTime /\ now \in Nat
    BY <2>1, LimiterAssumption
  <2> QED BY <2>1, <2>2 DEF Tick, Ticks
<1>2. ASSUME NEW h \in Hosts
      PROVE  \E j \in 0 .. Len(accepted[h]) :
               /\ accepted'[h] = Drop(accepted[h], j)
               /\ \A i \in 1 .. j : accepted[h][i] + Window <= now + 1
               /\ Recent(accepted'[h], now')
  <2>1. Recent(accepted[h], now)
    BY <1>0 DEF Timed
  <2>2. PICK t \in Ticks : t = now /\ t + 1 \in Ticks
    BY <1>1
  <2>3. PICK s : s = accepted[h] /\ Recent(s, t)
    BY <2>1, <2>2
  <2>4. \E j \in 0 .. Len(s) : /\ Latest(s, t + 1) = Drop(s, j)
                               /\ \A i \in 1 .. j : s[i] + Window <= t + 1
                               /\ Recent(Latest(s, t + 1), t + 1)
    BY <2>2, <2>3, RecentLater
  <2>5. now' = t + 1 /\ accepted'[h] = Latest(s, t + 1)
    BY <1>1, <2>2, <2>3
  <2> QED BY <2>2, <2>3, <2>4, <2>5
<1>3. ASSUME NEW h \in Hosts
      PROVE  \E j \in 0 .. Len(failed[h]) :
               /\ failed'[h] = Drop(failed[h], j)
               /\ \A i \in 1 .. j : failed[h][i] + Window <= now + 1
               /\ Recent(failed'[h], now')
  <2>1. Recent(failed[h], now)
    BY <1>0 DEF Timed
  <2>2. PICK t \in Ticks : t = now /\ t + 1 \in Ticks
    BY <1>1
  <2>3. PICK s : s = failed[h] /\ Recent(s, t)
    BY <2>1, <2>2
  <2>4. \E j \in 0 .. Len(s) : /\ Latest(s, t + 1) = Drop(s, j)
                               /\ \A i \in 1 .. j : s[i] + Window <= t + 1
                               /\ Recent(Latest(s, t + 1), t + 1)
    BY <2>2, <2>3, RecentLater
  <2>5. now' = t + 1 /\ failed'[h] = Latest(s, t + 1)
    BY <1>1, <2>2, <2>3
  <2> QED BY <2>2, <2>3, <2>4, <2>5
<1>4. TypeOK'
  <2>1. \A h \in Hosts : accepted'[h] \in Seq(Ticks) /\ failed'[h] \in Seq(Ticks)
    BY <1>2, <1>3 DEF Recent
  <2>2. accepted' \in [Hosts -> Seq(Ticks)] /\ failed' \in [Hosts -> Seq(Ticks)]
    BY <2>1 DEF Tick
  <2> QED BY <1>0, <1>1, <2>2 DEF TypeOK
<1>5. Timed'
  <2>1. last_cleanup' <= now'
    BY <1>0, <1>1, TickFacts DEF Timed, TypeOK
  <2>2. ASSUME NEW h \in Hosts, NEW i \in 1 .. Len(windows'[h]) PROVE windows'[h][i] <= now'
    <3>1. windows[h][i] <= now /\ windows[h][i] \in Nat /\ windows'[h][i] = windows[h][i]
      BY <1>0, <1>1, <2>2, HostTypes DEF Timed
    <3> QED BY <1>1, <3>1
  <2>3. \A h \in Hosts : Recent(accepted'[h], now') /\ Recent(failed'[h], now')
    BY <1>2, <1>3
  <2> QED BY <2>1, <2>2, <2>3 DEF Timed
<1>6. ASSUME NEW h \in Hosts PROVE InMemory(h)' /\ Kept(h)' /\ InRedis(h)'
  <2>1. InMemory(h) /\ Kept(h) /\ InRedis(h)
    BY DEF IInv
  <2>2. PICK j \in 0 .. Len(accepted[h]) :
          /\ accepted'[h] = Drop(accepted[h], j)
          /\ \A i \in 1 .. j : accepted[h][i] + Window <= now + 1
    BY <1>2
  <2>3. PICK m \in 0 .. Len(failed[h]) :
          /\ failed'[h] = Drop(failed[h], m)
          /\ \A i \in 1 .. m : failed[h][i] + Window <= now + 1
    BY <1>3
  <2>4. InMemory(h)'
    BY <1>0, <2>1, <2>2, TickMemory
  <2>5. Kept(h)'
    BY <1>1, <2>1 DEF Kept
  <2>6. InRedis(h)'
    BY <1>0, <2>1, <2>2, <2>3, TickRedis
  <2> QED BY <2>4, <2>5, <2>6
<1>7. RefusedOnlyWhenFull'
  BY <1>1 DEF RefusedOnlyWhenFull
<1> QED BY <1>4, <1>5, <1>6, <1>7 DEF IInv

-----------------------------------------------------------------------------
(* The limiter in memory.                                                  *)

\* A host that is forgotten has no request in the last Window.
LEMMA SweptIs ==
  ASSUME TypeOK, Timed, NEW h \in Hosts, NEW g \in Hosts
  PROVE  /\ DOMAIN Swept(h) = Hosts
         /\ \/ /\ Swept(h)[g] = windows[g]
               /\ CleanupDue /\ windows[g] # << >> => Last(windows[g]) + Window > now
            \/ /\ Swept(h)[g] = << >>
               /\ \A i \in 1 .. Len(windows[g]) : windows[g][i] + Window <= now
<1>1. CASE ~CleanupDue
  BY <1>1 DEF Swept, TypeOK
<1>2. CASE CleanupDue
  <2>1. /\ Swept(h)[g] = IF windows[g] # << >> /\ Last(windows[g]) + Window > now
                         THEN windows[g] ELSE << >>
        /\ DOMAIN Swept(h) = Hosts
    BY <1>2 DEF Swept, Cleaned
  <2>2. CASE windows[g] # << >> /\ Last(windows[g]) + Window > now
    BY <2>1, <2>2
  <2>3. CASE ~(windows[g] # << >> /\ Last(windows[g]) + Window > now)
    <3>1. ASSUME NEW i \in 1 .. Len(windows[g]) PROVE windows[g][i] + Window <= now
      <4>1. /\ windows[g] \in Seq(Nat) /\ Len(windows[g]) \in Nat /\ InOrder(windows[g])
            /\ now \in Nat /\ windows[g][i] \in Nat
        BY HostTypes
      <4>2. /\ windows[g] # << >> /\ Len(windows[g]) \in 1 .. Len(windows[g])
            /\ DOMAIN windows[g] = 1 .. Len(windows[g])
        BY <4>1
      <4>3. windows[g][i] <= Last(windows[g]) /\ Last(windows[g]) \in Nat
        <5>1. /\ Last(windows[g]) = windows[g][Len(windows[g])]
              /\ Len(windows[g]) = i \/ i < Len(windows[g])
          BY <4>1 DEF Last
        <5>2. windows[g][Len(windows[g])] \in Nat
          BY <4>1, <4>2
        <5>3. CASE Len(windows[g]) = i
          BY <4>1, <5>1, <5>3
        <5>4. CASE i < Len(windows[g])
          BY <4>1, <4>2, <5>1, <5>4 DEF InOrder
        <5> QED BY <5>1, <5>2, <5>3, <5>4
      <4>4. ~(Last(windows[g]) + Window > now)
        BY <2>3, <4>2
      <4> QED BY <4>1, <4>3, <4>4, TickFacts
    <3> QED BY <2>1, <2>3, <3>1
  <2> QED BY <2>2, <2>3
<1> QED BY <1>1, <1>2

\* So what is kept of a host still agrees with its history.
LEMMA SweptInMemory ==
  ASSUME TypeOK, Timed, NEW h \in Hosts, NEW g \in Hosts, InMemory(g), backend = "memory"
  PROVE  /\ Swept(h)[g] \in Seq(Ticks) /\ Len(Swept(h)[g]) <= Limit /\ InOrder(Swept(h)[g])
         /\ \A i \in 1 .. Len(Swept(h)[g]) : Swept(h)[g][i] <= now
         /\ \E j \in 0 .. Len(Swept(h)[g]) :
              /\ accepted[g] = Drop(Swept(h)[g], j)
              /\ \A i \in 1 .. j : Swept(h)[g][i] + Window <= now
<1>1. PICK j \in 0 .. Len(windows[g]) :
        /\ accepted[g] = Drop(windows[g], j)
        /\ \A i \in 1 .. j : windows[g][i] + Window <= now
  BY DEF InMemory
<1>2. CASE Swept(h)[g] = windows[g]
  BY <1>1, <1>2, HostTypes DEF Timed
<1>3. CASE Swept(h)[g] # windows[g]
  <2>1. /\ Swept(h)[g] = << >>
        /\ \A i \in 1 .. Len(windows[g]) : windows[g][i] + Window <= now
    BY <1>3, SweptIs
  <2>2. /\ windows[g] \in Seq(Nat) /\ Len(windows[g]) \in Nat /\ now \in Nat
        /\ \A i \in 1 .. Len(windows[g]) : windows[g][i] \in Nat
        /\ accepted[g] \in Seq(Nat) /\ Len(accepted[g]) \in Nat
    BY HostTypes
  <2>3. /\ Len(accepted[g]) = Len(windows[g]) - j
        /\ \A i \in 1 .. Len(windows[g]) - j : accepted[g][i] = windows[g][i + j]
    BY <1>1, <2>2, DropFacts
  <2>4. ASSUME NEW i \in 1 .. Len(accepted[g]) PROVE FALSE
    <3>1. accepted[g][i] + Window > now
      BY DEF Timed, Recent
    <3>2. i + j \in 1 .. Len(windows[g]) /\ accepted[g][i] = windows[g][i + j]
      BY <2>2, <2>3
    <3>3. windows[g][i + j] + Window <= now /\ windows[g][i + j] \in Nat
      BY <2>1, <2>2, <3>2
    <3>4. PICK t \in Nat : t = windows[g][i + j]
      BY <3>3
    <3>5. t + Window > now /\ t + Window <= now
      BY <3>1, <3>2, <3>3, <3>4
    <3>6. Window \in Nat /\ now \in Nat
      BY <2>2, TickFacts
    <3> QED BY <3>5, <3>6
  <2>5. accepted[g] = << >>
    <3>1. Len(accepted[g]) \in 1 .. Len(accepted[g]) \/ Len(accepted[g]) = 0
      BY <2>2
    <3>2. Len(accepted[g]) = 0
      BY <2>4, <3>1
    <3> QED BY <2>2, <3>2
  <2>6. /\ << >> \in Seq(Ticks) /\ << >> \in Seq(Nat) /\ Len(<< >>) = 0 /\ InOrder(<< >>)
        /\ 0 \in 0 .. Len(<< >>) /\ 0 \in 0 .. Len(<< >>) - 0 /\ Len(<< >>) <= Limit
        /\ \A i \in 1 .. Len(<< >>) : FALSE
        /\ \A i \in 1 .. 0 : FALSE
    BY TickFacts DEF InOrder
  <2>7. Drop(<< >>, 0) = << >>
    BY <2>6, DropTwice
  <2> QED BY <2>1, <2>5, <2>6, <2>7
<1> QED BY <1>2, <1>3

\* What a request finds in its window is its host's history.
LEMMA WindowIsHistory ==
  ASSUME TypeOK, Timed, NEW h \in Hosts, InMemory(h), backend = "memory"
  PROVE  Popped(Swept(h)[h]) = accepted[h]
<1> DEFINE s == Swept(h)[h]
<1>1. s \in Seq(Ticks) /\ InOrder(s)
  BY SweptInMemory
<1>2. PICK j \in 0 .. Len(s) : /\ accepted[h] = Drop(s, j)
                               /\ \A i \in 1 .. j : s[i] + Window <= now
  BY SweptInMemory
<1> HIDE DEF s
<1>3. s \in Seq(Nat) /\ Len(s) \in Nat /\ now \in Nat
  BY <1>1, TickFacts, HostTypes
<1>4. PICK k \in 0 .. Len(s) : Cut(s, now, k) /\ Popped(s) = Drop(s, k)
  <2>1. PICK w \in Seq(Nat) : w = s /\ InOrder(w)
    BY <1>1, <1>3
  <2>2. \E k \in 0 .. Len(w) : Cut(w, now, k) /\ Popped(w) = Drop(w, k)
    BY <1>3, <2>1, PoppedIs
  <2> QED BY <2>1, <2>2
<1>5. Cut(s, now, j)
  <2>1. /\ Len(accepted[h]) = Len(s) - j
        /\ \A i \in 1 .. Len(s) - j : accepted[h][i] = s[i + j]
    BY <1>2, <1>3, DropFacts
  <2>2. ASSUME NEW i \in j + 1 .. Len(s) PROVE s[i] + Window > now
    <3>1. i - j \in 1 .. Len(s) - j /\ (i - j) + j = i
      BY <1>3
    <3>2. accepted[h][i - j] + Window > now
      BY <2>1, <3>1 DEF Timed, Recent
    <3>3. accepted[h][i - j] = s[i]
      BY <2>1, <3>1
    <3> QED BY <3>2, <3>3
  <2> QED BY <1>2, <2>2 DEF Cut
<1>6. j = k
  <2>1. PICK t \in Nat : t = now
    BY <1>3
  <2> QED BY <1>3, <1>4, <1>5, <2>1, CutUnique
<1> QED BY <1>2, <1>4, <1>6 DEF s

\* What every answer does to the histories.
LEMMA Answered ==
  ASSUME TypeOK, Timed, NEW h \in Hosts, Refuse(h) \/ Accept(h), now' = now
  PROVE  /\ accepted' \in [Hosts -> Seq(Ticks)] /\ failed' = failed /\ refused' \subseteq Hosts
         /\ \A g \in Hosts : Recent(accepted'[g], now') /\ Recent(failed'[g], now')
         /\ Refuse(h) => accepted'[h] = accepted[h]
         /\ Accept(h) => accepted'[h] = Append(accepted[h], now)
         /\ \A g \in Hosts \ {h} : accepted'[g] = accepted[g]
         /\ \A g \in Hosts : Len(accepted'[g]) >= Len(accepted[g])
<1>1. /\ accepted \in [Hosts -> Seq(Ticks)] /\ refused \subseteq Hosts /\ now \in Ticks
      /\ \A g \in Hosts : Recent(accepted[g], now) /\ Recent(failed[g], now)
      /\ \A g \in Hosts : Len(accepted[g]) \in Nat
  BY HostTypes DEF TypeOK, Timed
<1>2. CASE Refuse(h)
  <2>1. accepted' = accepted /\ failed' = failed /\ refused' = refused \cup {h}
    BY <1>2 DEF Refuse
  <2>2. \A n \in Nat : n >= n
    OBVIOUS
  <2>3. Accept(h) => accepted'[h] = Append(accepted[h], now)
    BY <1>1 DEF Accept
  <2> QED BY <1>1, <2>1, <2>2, <2>3
<1>3. CASE Accept(h)
  <2>1. /\ accepted' = [accepted EXCEPT ![h] = Append(@, now)]
        /\ failed' = failed /\ refused' = refused
    BY <1>3 DEF Accept
  <2>2. /\ accepted'[h] = Append(accepted[h], now)
        /\ \A g \in Hosts \ {h} : accepted'[g] = accepted[g]
    BY <1>1, <2>1
  <2>3. Recent(Append(accepted[h], now), now)
    <3>1. PICK t \in Ticks : t = now
      BY <1>1
    <3>2. PICK s : s = accepted[h] /\ Recent(s, t)
      BY <1>1, <3>1
    <3>3. Recent(Append(s, t), t)
      BY <3>2, RecentNow
    <3> QED BY <3>1, <3>2, <3>3
  <2>4. Append(accepted[h], now) \in Seq(Ticks)
    BY <2>3 DEF Recent
  <2>5. Len(Append(accepted[h], now)) = Len(accepted[h]) + 1
    BY <1>1, Appended DEF Recent
  <2>6. \A g \in Hosts : Len(accepted'[g]) >= Len(accepted[g])
    <3> TAKE g \in Hosts
    <3> QED BY <1>1, <2>2, <2>5
  <2>7. \A g \in Hosts : Recent(accepted'[g], now)
    <3> TAKE g \in Hosts
    <3> QED BY <1>1, <2>2, <2>3
  <2>8. Refuse(h) => accepted'[h] = accepted[h]
    BY DEF Refuse
  <2>9. accepted' \in [Hosts -> Seq(Ticks)]
    BY <1>1, <2>1, <2>4
  <2> QED BY <1>1, <2>1, <2>2, <2>6, <2>7, <2>8, <2>9
<1> QED BY <1>2, <1>3

\* A refusal that is earned leaves all refusals earned.
LEMMA StillEarned ==
  ASSUME TypeOK, Timed, RefusedOnlyWhenFull, NEW h \in Hosts, Refuse(h) \/ Accept(h), now' = now,
         Refuse(h) => Len(accepted[h]) + Len(failed[h]) >= Limit
  PROVE  RefusedOnlyWhenFull'
<1>1. SUFFICES ASSUME NEW g \in refused'
      PROVE  Len(accepted'[g]) + Len(failed'[g]) >= Limit
  BY DEF RefusedOnlyWhenFull
<1>2. g \in Hosts /\ failed' = failed /\ Len(accepted'[g]) >= Len(accepted[g])
  BY <1>1, Answered
<1>3. Len(accepted[g]) + Len(failed[g]) >= Limit
  <2>1. CASE g \in refused
    BY <2>1 DEF RefusedOnlyWhenFull
  <2>2. CASE g \notin refused
    <3>1. Refuse(h) /\ g = h
      BY <1>1, <2>2 DEF Refuse, Accept
    <3> QED BY <3>1
  <2> QED BY <2>1, <2>2
<1>4. /\ Len(accepted[g]) \in Nat /\ Len(failed[g]) \in Nat /\ Limit \in Nat
      /\ Len(accepted'[g]) \in Nat
  <2>1. Recent(accepted'[g], now')
    BY <1>2, Answered
  <2>2. accepted'[g] \in Seq(Ticks)
    BY <2>1 DEF Recent
  <2> QED BY <1>2, <2>2, HostTypes, TickFacts
<1>5. ASSUME NEW a \in Nat, NEW b \in Nat, NEW c \in Nat, NEW l \in Nat, a + c >= l, b >= a
      PROVE  b + c >= l
  BY <1>5
<1>6. Len(failed'[g]) = Len(failed[g])
  BY <1>2
<1> QED BY <1>2, <1>3, <1>4, <1>5, <1>6

\* What a request leaves in memory of the host that asked: its history.
LEMMA AskersWindow ==
  ASSUME TypeOK, Timed, NEW h \in Hosts, InMemory(h), MemoryRequest(h)
  PROVE  /\ backend = "memory" /\ now' = now /\ backend' = backend /\ counter' = counter
         /\ last_cleanup' = IF CleanupDue THEN now ELSE last_cleanup
         /\ Refuse(h) \/ Accept(h)
         /\ Refuse(h) => Len(accepted[h]) >= Limit
         /\ windows'[h] = accepted'[h] /\ Len(windows'[h]) <= Limit
         /\ DOMAIN windows' = Hosts
         /\ \A g \in Hosts \ {h} : windows'[g] = Swept(h)[g]
         /\ windows'[h] # << >> => \/ Last(windows'[h]) = now
                                   \/ Swept(h)[h] # << >> /\ Last(windows'[h]) = Last(Swept(h)[h])
<1>1. /\ backend = "memory" /\ now' = now /\ backend' = backend /\ counter' = counter
      /\ last_cleanup' = IF CleanupDue THEN now ELSE last_cleanup
  BY DEF MemoryRequest
<1>2. Popped(Swept(h)[h]) = accepted[h]
  BY <1>1, WindowIsHistory
<1>3. /\ windows' = [Swept(h) EXCEPT ![h] = IF Full(accepted[h]) THEN accepted[h]
                                            ELSE Append(accepted[h], now)]
      /\ Answer(h, Full(accepted[h]))
  BY <1>2 DEF MemoryRequest
<1>4. DOMAIN Swept(h) = Hosts
  BY SweptIs
<1>5. /\ DOMAIN windows' = Hosts
      /\ windows'[h] = IF Full(accepted[h]) THEN accepted[h] ELSE Append(accepted[h], now)
      /\ \A g \in Hosts \ {h} : windows'[g] = Swept(h)[g]
  BY <1>3, <1>4
<1>6. /\ Full(accepted[h]) <=> Len(accepted[h]) >= Limit
      /\ Full(accepted[h]) => Refuse(h)
      /\ ~Full(accepted[h]) => Accept(h)
  BY <1>3 DEF Answer, Full
<1>7. Refuse(h) => Full(accepted[h])
  <2>1. ASSUME Refuse(h), Accept(h) PROVE FALSE
    <3>1. accepted' = accepted /\ accepted'[h] = Append(accepted[h], now)
      BY <1>1, <2>1, Answered DEF Refuse
    <3>2. Len(accepted[h]) \in Nat /\ Len(Append(accepted[h], now)) = Len(accepted[h]) + 1
      BY HostTypes, Appended
    <3> QED BY <3>1, <3>2
  <2> QED BY <1>6, <2>1
<1>8. windows'[h] = accepted'[h]
  BY <1>1, <1>5, <1>6, Answered
<1>9. PICK s : s = Swept(h)[h]
  OBVIOUS
<1>10. /\ s \in Seq(Ticks) /\ Len(s) <= Limit
       /\ \E j \in 0 .. Len(s) : accepted[h] = Drop(s, j)
  BY <1>1, <1>9, SweptInMemory
<1>11. s \in Seq(Nat) /\ Len(s) \in Nat
  BY <1>10, TickFacts
<1>12. /\ Len(accepted[h]) <= Len(s)
       /\ accepted[h] # << >> => s # << >> /\ Last(accepted[h]) = Last(s)
  <2>1. PICK j \in 0 .. Len(s) : accepted[h] = Drop(s, j)
    BY <1>10
  <2>2. Len(Drop(s, j)) = Len(s) - j
    BY <1>11, DropFacts
  <2> QED BY <1>11, <2>1, <2>2, DropOrder
<1>13. /\ Len(accepted[h]) \in Nat /\ Limit \in Nat
       /\ Len(Append(accepted[h], now)) = Len(accepted[h]) + 1
       /\ Last(Append(accepted[h], now)) = now
  BY HostTypes, TickFacts, Appended
<1>14. Len(windows'[h]) <= Limit
  BY <1>5, <1>6, <1>10, <1>11, <1>12, <1>13
<1>15. windows'[h] # << >> => \/ Last(windows'[h]) = now
                              \/ Swept(h)[h] # << >> /\ Last(windows'[h]) = Last(Swept(h)[h])
  BY <1>5, <1>9, <1>12, <1>13
<1> QED BY <1>1, <1>5, <1>6, <1>7, <1>8, <1>14, <1>15

\* And a request changes nothing that matters of the others.
LEMMA MemoryInv ==
  ASSUME IInv, NEW h \in Hosts, MemoryRequest(h)
  PROVE  IInv'
<1>0. TypeOK /\ Timed /\ RefusedOnlyWhenFull /\ \A g \in Hosts : InMemory(g) /\ Kept(g)
  BY DEF IInv
<1>1. /\ backend = "memory" /\ now' = now /\ backend' = backend /\ counter' = counter
      /\ last_cleanup' = IF CleanupDue THEN now ELSE last_cleanup
      /\ Refuse(h) \/ Accept(h)
      /\ Refuse(h) => Len(accepted[h]) >= Limit
      /\ windows'[h] = accepted'[h] /\ Len(windows'[h]) <= Limit
      /\ DOMAIN windows' = Hosts
      /\ \A g \in Hosts \ {h} : windows'[g] = Swept(h)[g]
  BY <1>0, AskersWindow
<1>2. /\ accepted' \in [Hosts -> Seq(Ticks)] /\ failed' = failed /\ refused' \subseteq Hosts
      /\ \A g \in Hosts : Recent(accepted'[g], now') /\ Recent(failed'[g], now')
      /\ \A g \in Hosts \ {h} : accepted'[g] = accepted[g]
  BY <1>0, <1>1, Answered
<1>3. now \in Nat /\ now \in Ticks /\ last_cleanup \in Nat /\ last_cleanup \in Ticks /\ last_cleanup <= now
  BY <1>0, HostTypes DEF Timed
<1>4. ASSUME NEW g \in Hosts
      PROVE  /\ windows'[g] \in Seq(Ticks) /\ Len(windows'[g]) <= Limit /\ InOrder(windows'[g])
             /\ \A i \in 1 .. Len(windows'[g]) : windows'[g][i] <= now'
  <2>1. CASE g = h
    BY <1>1, <1>2, <2>1 DEF Recent
  <2>2. CASE g # h
    <3>1. windows'[g] = Swept(h)[g]
      BY <1>1, <2>2
    <3> QED BY <1>0, <1>1, <3>1, SweptInMemory
  <2> QED BY <2>1, <2>2
<1>5. TypeOK'
  <2>1. last_cleanup' \in Ticks
    BY <1>1, <1>3
  <2> QED BY <1>0, <1>1, <1>2, <1>4, <2>1 DEF TypeOK
<1>6. Timed'
  <2>1. last_cleanup' <= now'
    BY <1>1, <1>3
  <2> QED BY <1>2, <1>4, <2>1 DEF Timed
<1>7. ASSUME NEW g \in Hosts PROVE InMemory(g)'
  <2>1. CASE g = h
    <3>1. PICK s \in Seq(Ticks) : s = windows'[h]
      BY <1>4
    <3>2. Len(s) \in Nat /\ s \in Seq(Nat)
      BY TickFacts
    <3>3. 0 \in 0 .. Len(s) /\ 0 \in 0 .. Len(s) - 0 /\ \A i \in 1 .. 0 : FALSE
      BY <3>2
    <3>4. Drop(s, 0) = s
      BY <3>2, <3>3, DropTwice
    <3> QED BY <1>1, <2>1, <3>1, <3>3, <3>4 DEF InMemory
  <2>2. CASE g # h
    <3>1. PICK j \in 0 .. Len(Swept(h)[g]) :
            /\ accepted[g] = Drop(Swept(h)[g], j)
            /\ \A i \in 1 .. j : Swept(h)[g][i] + Window <= now
      BY <1>0, <1>1, SweptInMemory
    <3>2. windows'[g] = Swept(h)[g] /\ accepted'[g] = accepted[g]
      BY <1>1, <1>2, <2>2
    <3> QED BY <1>1, <3>1, <3>2 DEF InMemory
  <2> QED BY <2>1, <2>2
<1>8. ASSUME NEW g \in Hosts PROVE Kept(g)'
  <2>1. SUFFICES ASSUME windows'[g] # << >>
        PROVE  /\ Last(windows'[g]) + Window >= last_cleanup'
               /\ Last(windows'[g]) <= last_cleanup' + Window
    BY DEF Kept
  <2>2. \/ Last(windows'[g]) = now
        \/ Swept(h)[g] # << >> /\ Last(windows'[g]) = Last(Swept(h)[g])
    <3>1. CASE g = h
      BY <1>0, <2>1, <3>1, AskersWindow
    <3>2. CASE g # h
      BY <1>1, <2>1, <3>2
    <3> QED BY <3>1, <3>2
  <2>3. CASE Last(windows'[g]) = now
    BY <1>1, <1>3, <2>3, TickFacts DEF CleanupDue
  <2>4. CASE Swept(h)[g] # << >> /\ Last(windows'[g]) = Last(Swept(h)[g])
    <3>1. /\ windows[g] # << >> /\ Last(windows'[g]) = Last(windows[g])
          /\ CleanupDue => Last(windows[g]) + Window > now
      BY <1>0, <2>4, SweptIs
    <3>2. Last(windows[g]) \in Nat /\ Last(windows[g]) <= now
      <4>1. /\ windows[g] \in Seq(Nat) /\ Len(windows[g]) \in Nat
            /\ \A i \in 1 .. Len(windows[g]) : windows[g][i] \in Nat /\ windows[g][i] <= now
        BY <1>0, HostTypes DEF Timed
      <4>2. Len(windows[g]) \in 1 .. Len(windows[g])
        BY <3>1, <4>1
      <4> QED BY <4>1, <4>2 DEF Last
    <3>3. Last(windows[g]) + Window >= last_cleanup /\ Last(windows[g]) <= last_cleanup + Window
      BY <1>0, <3>1 DEF Kept
    <3> QED BY <1>1, <1>3, <3>1, <3>2, <3>3, TickFacts
  <2> QED BY <2>2, <2>3, <2>4
<1>9. \A g \in Hosts : InRedis(g)'
  BY <1>1 DEF InRedis
<1>10. RefusedOnlyWhenFull'
  <2>1. Refuse(h) => Len(accepted[h]) + Len(failed[h]) >= Limit
    <3> SUFFICES ASSUME Refuse(h) PROVE Len(accepted[h]) + Len(failed[h]) >= Limit
      OBVIOUS
    <3>1. Len(accepted[h]) \in Nat /\ Len(failed[h]) \in Nat /\ Limit \in Nat
      BY <1>0, HostTypes, TickFacts
    <3>2. Len(accepted[h]) >= Limit
      BY <1>1
    <3>3. ASSUME NEW a \in Nat, NEW b \in Nat, NEW l \in Nat, a >= l PROVE a + b >= l
      BY <3>3
    <3> QED BY <3>1, <3>2, <3>3
  <2> QED BY <1>0, <1>1, <2>1, StillEarned
<1> QED BY <1>5, <1>6, <1>7, <1>8, <1>9, <1>10 DEF IInv

-----------------------------------------------------------------------------
(* The limiter in Redis.                                                   *)

\* Of two numbers.
LEMMA MinIsLeast ==
  ASSUME NEW a \in Nat, NEW b \in Nat
  PROVE  Min({a, b}) = Least(a, b)
<1> DEFINE m == IF a <= b THEN a ELSE b
<1>1. m \in {a, b} /\ \A y \in {a, b} : m <= y
  OBVIOUS
<1>2. \A x \in {a, b} : (\A y \in {a, b} : x <= y) => x = m
  OBVIOUS
<1> HIDE DEF m
<1>3. Min({a, b}) = m
  BY <1>1, <1>2 DEF Min
<1> QED BY <1>3 DEF m, Least

\* How many requests the window has counted when the next one comes.
Before(h) == IF Expired(h) THEN 0 ELSE counter[h].count

Expiry(h) == IF Expired(h) THEN now + Window ELSE counter[h].expires

\* What the script leaves in Redis.
LEMMA StoreIs ==
  ASSUME TypeOK, NEW h \in Hosts
  PROVE  /\ Before(h) \in Nat /\ Expiry(h) \in Nat
         /\ Counted(h).count = Before(h) + 1
         /\ Store(h, Counted(h)) \in [Hosts -> [count : Nat, expires : Nat]]
         /\ Store(h, Counted(h))[h].count = Least(Before(h) + 1, Limit + 1)
         /\ Store(h, Counted(h))[h].expires = Expiry(h)
         /\ \A g \in Hosts \ {h} : Store(h, Counted(h))[g] = counter[g]
<1>1. /\ now \in Nat /\ Window \in Nat /\ Limit \in Nat
      /\ counter \in [Hosts -> [count : Nat, expires : Nat]]
      /\ counter[h] \in [count : Nat, expires : Nat]
  BY HostTypes, TickFacts DEF TypeOK
<1>2. Before(h) \in Nat /\ Expiry(h) \in Nat
  BY <1>1 DEF Before, Expiry
<1>3. Counted(h) = [count |-> Before(h) + 1, expires |-> Expiry(h)]
  <2>1. CASE Expired(h)
    BY <2>1 DEF Counted, Before, Expiry
  <2>2. CASE ~Expired(h)
    BY <1>1, <2>2 DEF Counted, Before, Expiry
  <2> QED BY <2>1, <2>2
<1>4. Min({Before(h) + 1, CountBound}) = Least(Before(h) + 1, Limit + 1)
  BY <1>1, <1>2, MinIsLeast DEF CountBound
<1>5. Least(Before(h) + 1, Limit + 1) \in Nat
  BY <1>1, <1>2 DEF Least
<1>6. Store(h, Counted(h)) =
        [counter EXCEPT ![h] = [count |-> Least(Before(h) + 1, Limit + 1), expires |-> Expiry(h)]]
  <2>1. Counted(h).count = Before(h) + 1
    BY <1>3
  <2>2. [Counted(h) EXCEPT !.count = Least(Before(h) + 1, Limit + 1)] =
          [count |-> Least(Before(h) + 1, Limit + 1), expires |-> Expiry(h)]
    BY <1>3
  <2>3. [Counted(h) EXCEPT !.count = Min({@, CountBound})] =
          [count |-> Least(Before(h) + 1, Limit + 1), expires |-> Expiry(h)]
    BY <1>4, <2>1, <2>2
  <2> QED BY <2>3 DEF Store
<1> HIDE DEF Before, Expiry, Least
<1>7. Counted(h).count = Before(h) + 1
  BY <1>3
<1> QED BY <1>1, <1>2, <1>5, <1>6, <1>7

\* A history that has been split where the next request's window begins.
Live(h, k, f) ==
  LET count == Least(Before(h), Limit)
  IN  /\ k <= Limit /\ Len(accepted[h]) - k <= count
      /\ \A i \in 1 .. k : accepted[h][i] + Window < Expiry(h)
      /\ \A i \in k + 1 .. Len(accepted[h]) : accepted[h][i] + Window >= Expiry(h)
      /\ \A i \in f + 1 .. Len(failed[h]) : failed[h][i] + Window >= Expiry(h)
      /\ (Len(accepted[h]) - k) + (Len(failed[h]) - f) >= count

\* In a new window all of the history precedes; in an old one nothing changes.
LEMMA LiveSplit ==
  ASSUME TypeOK, Timed, NEW h \in Hosts, InRedis(h), backend = "redis"
  PROVE  /\ now < Expiry(h) /\ Expiry(h) <= now + Window
         /\ \A i \in 1 .. Len(accepted[h]) : accepted[h][i] < Expiry(h)
         /\ \E k \in 0 .. Len(accepted[h]), f \in 0 .. Len(failed[h]) : Live(h, k, f)
<1>1. /\ now \in Nat /\ Window \in Nat /\ Window > 0 /\ Limit \in Nat
      /\ counter[h].count \in Nat /\ counter[h].expires \in Nat
      /\ Len(accepted[h]) \in Nat /\ Len(failed[h]) \in Nat
      /\ \A i \in 1 .. Len(accepted[h]) : accepted[h][i] \in Nat
      /\ accepted[h] \in Seq(Nat)
  BY HostTypes, TickFacts
<1>2. /\ counter[h].count = 0 => accepted[h] = << >>
      /\ counter[h].expires <= now + Window
      /\ \A i \in 1 .. Len(accepted[h]) : accepted[h][i] < counter[h].expires
  BY DEF InRedis
<1>3. PICK k \in 0 .. Len(accepted[h]), f \in 0 .. Len(failed[h]) : Fixed(h, k, f)
  BY DEF InRedis
<1>4. CASE Expired(h)
  <2>1. Expiry(h) = now + Window /\ Before(h) = 0
    BY <1>4 DEF Expiry, Before
  <2>2. Least(Before(h), Limit) = 0
    BY <1>1, <2>1 DEF Least
  <2>3. Len(accepted[h]) <= Limit
        /\ \A i \in 1 .. Len(accepted[h]) : accepted[h][i] + Window < Expiry(h)
    <3>1. CASE counter[h].count = 0
      BY <1>1, <1>2, <3>1
    <3>2. CASE now >= counter[h].expires
      <4>1. ASSUME k > 0 PROVE FALSE
        <5>1. 1 \in 1 .. k /\ 1 \in 1 .. Len(accepted[h])
          BY <1>1, <4>1
        <5>2. accepted[h][1] + Window < counter[h].expires
          BY <1>3, <5>1 DEF Fixed
        <5>3. accepted[h][1] + Window > now /\ accepted[h][1] \in Nat
          BY <1>1, <5>1 DEF Timed, Recent
        <5> QED BY <1>1, <3>2, <5>2, <5>3
      <4>2. k = 0
        BY <1>1, <4>1
      <4>3. Len(accepted[h]) <= Limit
        <5>1. Len(accepted[h]) - k <= Least(counter[h].count, Limit)
          BY <1>3 DEF Fixed
        <5>2. Least(counter[h].count, Limit) <= Limit /\ Least(counter[h].count, Limit) \in Nat
          BY <1>1 DEF Least
        <5> QED BY <1>1, <4>2, <5>1, <5>2
      <4>4. ASSUME NEW i \in 1 .. Len(accepted[h]) PROVE accepted[h][i] + Window < Expiry(h)
        <5>1. accepted[h][i] < counter[h].expires /\ accepted[h][i] \in Nat
          BY <1>1, <1>2
        <5>2. /\ counter[h].expires \in Nat /\ now \in Nat /\ Window \in Nat
              /\ counter[h].expires <= now /\ Expiry(h) = now + Window
          BY <1>1, <2>1, <3>2
        <5>3. PICK t \in Nat : t = accepted[h][i]
          BY <5>1
        <5> QED BY <5>1, <5>2, <5>3
      <4> QED BY <4>3, <4>4
    <3> QED BY <1>4, <3>1, <3>2 DEF Expired
  <2>4. \A i \in 1 .. Len(accepted[h]) : accepted[h][i] < Expiry(h)
    <3> TAKE i \in 1 .. Len(accepted[h])
    <3>1. accepted[h][i] + Window < Expiry(h) /\ accepted[h][i] \in Nat
      BY <1>1, <2>3
    <3> QED BY <1>1, <2>1, <3>1
  <2>5. now < Expiry(h) /\ Expiry(h) <= now + Window
    BY <1>1, <2>1
  <2>6. Live(h, Len(accepted[h]), Len(failed[h]))
    <3>1. \A n \in Nat : n - n = 0 /\ \A i \in n + 1 .. n : FALSE
      OBVIOUS
    <3>2. /\ Len(accepted[h]) - Len(accepted[h]) = 0 /\ Len(failed[h]) - Len(failed[h]) = 0
          /\ \A i \in Len(accepted[h]) + 1 .. Len(accepted[h]) : FALSE
          /\ \A i \in Len(failed[h]) + 1 .. Len(failed[h]) : FALSE
      BY <1>1, <3>1
    <3> QED BY <2>2, <2>3, <3>2 DEF Live
  <2>7. Len(accepted[h]) \in 0 .. Len(accepted[h]) /\ Len(failed[h]) \in 0 .. Len(failed[h])
    BY <1>1
  <2> QED BY <2>4, <2>5, <2>6, <2>7
<1>5. CASE ~Expired(h)
  <2>1. Expiry(h) = counter[h].expires /\ Before(h) = counter[h].count
        /\ now < counter[h].expires
    BY <1>1, <1>5 DEF Expiry, Before, Expired
  <2>2. Live(h, k, f)
    BY <1>3, <2>1 DEF Fixed, Live
  <2> QED BY <1>2, <2>1, <2>2
<1> QED BY <1>4, <1>5

\* A request that is counted and one that is not add at most one time each.
LEMMA StoredInRedis ==
  ASSUME TypeOK, Timed, NEW h \in Hosts, InRedis(h), backend = "redis",
         now' = now, backend' = backend, counter' = Store(h, Counted(h)),
         \/ /\ accepted'[h] = accepted[h] /\ failed'[h] = failed[h]
            /\ Before(h) >= Limit
         \/ /\ accepted'[h] = Append(accepted[h], now) /\ failed'[h] = failed[h]
            /\ Before(h) < Limit
         \/ accepted'[h] = accepted[h] /\ failed'[h] = Append(failed[h], now)
  PROVE  InRedis(h)'
<1>1. /\ now \in Nat /\ Window \in Nat /\ Window > 0 /\ Limit \in Nat /\ Limit > 0
      /\ Len(accepted[h]) \in Nat /\ Len(failed[h]) \in Nat
      /\ accepted[h] \in Seq(Nat) /\ failed[h] \in Seq(Nat)
  BY HostTypes, TickFacts
<1>2. /\ now < Expiry(h) /\ Expiry(h) <= now + Window
      /\ \A i \in 1 .. Len(accepted[h]) : accepted[h][i] < Expiry(h)
  BY LiveSplit
<1>3. PICK k \in 0 .. Len(accepted[h]), f \in 0 .. Len(failed[h]) : Live(h, k, f)
  BY LiveSplit
<1>4. /\ Before(h) \in Nat /\ Expiry(h) \in Nat
      /\ counter'[h].count = Least(Before(h) + 1, Limit + 1)
      /\ counter'[h].expires = Expiry(h)
  BY StoreIs
<1> DEFINE old == Least(Before(h), Limit)
           new == Least(Least(Before(h) + 1, Limit + 1), Limit)
<1>5. /\ old \in Nat /\ new \in Nat /\ old <= new /\ new <= old + 1
      /\ Before(h) >= Limit => old = Limit /\ new = Limit
      /\ Before(h) < Limit => new = old + 1
      /\ Least(Before(h) + 1, Limit + 1) # 0
  BY <1>1, <1>4 DEF Least
<1>6. /\ k <= Limit /\ Len(accepted[h]) - k <= old
      /\ \A i \in 1 .. k : accepted[h][i] + Window < Expiry(h)
      /\ \A i \in k + 1 .. Len(accepted[h]) : accepted[h][i] + Window >= Expiry(h)
      /\ \A i \in f + 1 .. Len(failed[h]) : failed[h][i] + Window >= Expiry(h)
      /\ (Len(accepted[h]) - k) + (Len(failed[h]) - f) >= old
  BY <1>3 DEF Live
<1>7. Least(counter'[h].count, Limit) = new
  BY <1>4
<1>8. \A n \in Nat : \A i \in 1 .. n + 1 : i \in 1 .. n \/ i = n + 1
  OBVIOUS
<1> HIDE DEF old, new
<1>9. SUFFICES
        /\ k \in 0 .. Len(accepted'[h]) /\ f \in 0 .. Len(failed'[h])
        /\ Len(accepted'[h]) - k <= new
        /\ (Len(accepted'[h]) - k) + (Len(failed'[h]) - f) >= new
        /\ \A i \in 1 .. k : accepted'[h][i] + Window < Expiry(h)
        /\ \A i \in k + 1 .. Len(accepted'[h]) : accepted'[h][i] + Window >= Expiry(h)
        /\ \A i \in f + 1 .. Len(failed'[h]) : failed'[h][i] + Window >= Expiry(h)
        /\ \A i \in 1 .. Len(accepted'[h]) : accepted'[h][i] < Expiry(h)
  <2>1. SUFFICES Fixed(h, k, f)' /\ counter'[h].count # 0
    BY <1>2, <1>4, <2>1 DEF InRedis
  <2>2. counter'[h].count # 0
    BY <1>4, <1>5
  <2>3. Fixed(h, k, f)'
    BY <1>4, <1>6, <1>7 DEF Fixed
  <2> QED BY <2>2, <2>3
<1>10. CASE accepted'[h] = accepted[h] /\ failed'[h] = failed[h] /\ Before(h) >= Limit
  BY <1>2, <1>3, <1>5, <1>6, <1>10
<1>11. CASE /\ accepted'[h] = Append(accepted[h], now) /\ failed'[h] = failed[h]
            /\ Before(h) < Limit
  <2>1. /\ Len(accepted'[h]) = Len(accepted[h]) + 1
        /\ \A i \in 1 .. Len(accepted[h]) : accepted'[h][i] = accepted[h][i]
        /\ accepted'[h][Len(accepted[h]) + 1] = now
    BY <1>1, <1>11, Appended
  <2>2. k \in 0 .. Len(accepted'[h]) /\ 1 .. k \subseteq 1 .. Len(accepted[h])
    BY <1>1, <1>3, <2>1
  <2>3. /\ Len(accepted'[h]) - k <= new
        /\ (Len(accepted'[h]) - k) + (Len(failed'[h]) - f) >= new
    <3>1. PICK a \in Nat : a = Len(accepted[h])
      BY <1>1
    <3>2. PICK c \in Nat : c = Len(failed[h])
      BY <1>1
    <3>3. PICK n \in Nat : n = new
      BY <1>5
    <3>4. PICK o \in Nat : o = old
      BY <1>5
    <3>5. k \in Int /\ f \in Int /\ failed'[h] = failed[h]
      BY <1>1, <1>3, <1>11
    <3>6. a - k <= o /\ n = o + 1 /\ (a - k) + (c - f) >= o
      BY <1>5, <1>6, <1>11, <3>1, <3>2, <3>3, <3>4
    <3>7. (a + 1) - k <= n /\ ((a + 1) - k) + (c - f) >= n
      BY <3>5, <3>6
    <3> QED BY <2>1, <3>1, <3>2, <3>3, <3>5, <3>7
  <2>4. \A i \in 1 .. k : accepted'[h][i] + Window < Expiry(h)
    BY <1>6, <2>1, <2>2
  <2>5. ASSUME NEW i \in k + 1 .. Len(accepted'[h])
        PROVE  accepted'[h][i] + Window >= Expiry(h)
    <3>1. \/ i \in k + 1 .. Len(accepted[h]) /\ i \in 1 .. Len(accepted[h])
          \/ i = Len(accepted[h]) + 1
      BY <1>1, <1>3, <2>1
    <3>2. now + Window >= Expiry(h)
      BY <1>1, <1>2, <1>4
    <3> QED BY <1>6, <2>1, <3>1, <3>2
  <2>6. \A i \in 1 .. Len(accepted'[h]) : accepted'[h][i] < Expiry(h)
    BY <1>1, <1>2, <1>8, <2>1
  <2> QED BY <1>3, <1>6, <1>11, <2>2, <2>3, <2>4, <2>5, <2>6
<1>12. CASE accepted'[h] = accepted[h] /\ failed'[h] = Append(failed[h], now)
  <2>1. /\ Len(failed'[h]) = Len(failed[h]) + 1
        /\ \A i \in 1 .. Len(failed[h]) : failed'[h][i] = failed[h][i]
        /\ failed'[h][Len(failed[h]) + 1] = now
    BY <1>1, <1>12, Appended
  <2>2. f \in 0 .. Len(failed'[h])
    BY <1>1, <1>3, <2>1
  <2>3. /\ Len(accepted'[h]) - k <= new
        /\ (Len(accepted'[h]) - k) + (Len(failed'[h]) - f) >= new
    <3>1. PICK a \in Nat : a = Len(accepted[h])
      BY <1>1
    <3>2. PICK c \in Nat : c = Len(failed[h])
      BY <1>1
    <3>3. PICK n \in Nat : n = new
      BY <1>5
    <3>4. PICK o \in Nat : o = old
      BY <1>5
    <3>5. k \in Int /\ f \in Int /\ accepted'[h] = accepted[h]
      BY <1>1, <1>3, <1>12
    <3>6. a - k <= o /\ n <= o + 1 /\ o <= n /\ (a - k) + (c - f) >= o
      BY <1>5, <1>6, <3>1, <3>2, <3>3, <3>4
    <3>7. a - k <= n /\ (a - k) + ((c + 1) - f) >= n
      BY <3>5, <3>6
    <3> QED BY <2>1, <3>1, <3>2, <3>3, <3>5, <3>7
  <2>4. ASSUME NEW i \in f + 1 .. Len(failed'[h])
        PROVE  failed'[h][i] + Window >= Expiry(h)
    <3>1. \/ i \in f + 1 .. Len(failed[h]) /\ i \in 1 .. Len(failed[h])
          \/ i = Len(failed[h]) + 1
      BY <1>1, <1>3, <2>1
    <3>2. now + Window >= Expiry(h)
      BY <1>1, <1>2, <1>4
    <3> QED BY <1>6, <2>1, <3>1, <3>2
  <2> QED BY <1>2, <1>3, <1>6, <1>12, <2>2, <2>3, <2>4
<1> QED BY <1>10, <1>11, <1>12

\* A request that fails before it is counted.
LEMMA LostInRedis ==
  ASSUME TypeOK, Timed, NEW h \in Hosts, InRedis(h), backend = "redis",
         now' = now, backend' = backend, counter' = counter,
         accepted'[h] = accepted[h], failed'[h] = Append(failed[h], now)
  PROVE  InRedis(h)'
<1>1. /\ now \in Nat /\ Window \in Nat /\ Limit \in Nat
      /\ Len(accepted[h]) \in Nat /\ Len(failed[h]) \in Nat /\ failed[h] \in Seq(Nat)
      /\ counter[h].count \in Nat /\ counter[h].expires \in Nat
  BY HostTypes, TickFacts
<1>2. /\ counter[h].count = 0 => accepted[h] = << >>
      /\ counter[h].expires <= now + Window
      /\ \A i \in 1 .. Len(accepted[h]) : accepted[h][i] < counter[h].expires
  BY DEF InRedis
<1>3. PICK k \in 0 .. Len(accepted[h]), f \in 0 .. Len(failed[h]) : Fixed(h, k, f)
  BY DEF InRedis
<1>4. /\ Len(failed'[h]) = Len(failed[h]) + 1
      /\ \A i \in 1 .. Len(failed[h]) : failed'[h][i] = failed[h][i]
      /\ failed'[h][Len(failed[h]) + 1] = now
  BY <1>1, Appended
<1> DEFINE count == Least(counter[h].count, Limit)
<1>5. count \in Nat
  BY <1>1 DEF Least
<1>6. /\ k <= Limit /\ Len(accepted[h]) - k <= count
      /\ \A i \in 1 .. k : accepted[h][i] + Window < counter[h].expires
      /\ \A i \in k + 1 .. Len(accepted[h]) : accepted[h][i] + Window >= counter[h].expires
      /\ \A i \in f + 1 .. Len(failed[h]) : failed[h][i] + Window >= counter[h].expires
      /\ now < counter[h].expires =>
           (Len(accepted[h]) - k) + (Len(failed[h]) - f) >= count
  BY <1>3 DEF Fixed
<1>7. ASSUME NEW i \in f + 1 .. Len(failed'[h])
      PROVE  failed'[h][i] + Window >= counter[h].expires
  <2>1. \/ i \in f + 1 .. Len(failed[h]) /\ i \in 1 .. Len(failed[h])
        \/ i = Len(failed[h]) + 1
    BY <1>1, <1>3, <1>4
  <2>2. now + Window >= counter[h].expires
    BY <1>1, <1>2
  <2> QED BY <1>4, <1>6, <2>1, <2>2
<1>8. now < counter[h].expires => (Len(accepted[h]) - k) + (Len(failed'[h]) - f) >= count
  <2>1. ASSUME NEW a \in Int, NEW b \in Nat, NEW o \in Nat, NEW x \in Int, a + (b - x) >= o
        PROVE  a + ((b + 1) - x) >= o
    BY <2>1
  <2>2. f \in Int /\ Len(accepted[h]) - k \in Int
    BY <1>1, <1>3
  <2> HIDE DEF count
  <2> QED BY <1>1, <1>4, <1>5, <1>6, <2>1, <2>2
<1>9. Fixed(h, k, f)'
  BY <1>6, <1>7, <1>8 DEF Fixed
<1>10. k \in 0 .. Len(accepted'[h]) /\ f \in 0 .. Len(failed'[h])
  BY <1>1, <1>3, <1>4
<1> QED BY <1>2, <1>9, <1>10 DEF InRedis

\* What is kept in Redis of the hosts that did not ask.
LEMMA OthersInRedis ==
  ASSUME NEW g \in Hosts, InRedis(g), now' = now, backend' = backend,
         counter'[g] = counter[g], accepted'[g] = accepted[g], failed'[g] = failed[g]
  PROVE  InRedis(g)'
BY DEF InRedis, Fixed

\* With the limiter in Redis nothing happens in memory.
LEMMA MemoryUntouched ==
  ASSUME TypeOK, NEW g \in Hosts, Kept(g), backend = "redis",
         backend' = backend, windows' = windows, last_cleanup' = last_cleanup
  PROVE  InMemory(g)' /\ Kept(g)'
BY DEF InMemory, Kept

\* A request that the script answers.
LEMMA RedisInv ==
  ASSUME IInv, NEW h \in Hosts, RedisRequest(h)
  PROVE  IInv'
<1>0. TypeOK /\ Timed /\ RefusedOnlyWhenFull /\ \A g \in Hosts : Kept(g) /\ InRedis(g)
  BY DEF IInv
<1>1. /\ backend = "redis" /\ now' = now /\ backend' = backend
      /\ windows' = windows /\ last_cleanup' = last_cleanup
      /\ counter' = Store(h, Counted(h))
      /\ Answer(h, Counted(h).count > Limit)
  BY DEF RedisRequest
<1>2. /\ Before(h) \in Nat /\ Limit \in Nat /\ Len(accepted[h]) \in Nat /\ Len(failed[h]) \in Nat
      /\ Counted(h).count = Before(h) + 1
      /\ counter' \in [Hosts -> [count : Nat, expires : Nat]]
      /\ \A g \in Hosts \ {h} : counter'[g] = counter[g]
  BY <1>0, <1>1, StoreIs, HostTypes, TickFacts
<1>3. \/ Refuse(h) /\ Before(h) >= Limit
      \/ Accept(h) /\ Before(h) < Limit
  <2>1. CASE Counted(h).count > Limit
    <3>1. Refuse(h)
      BY <1>1, <2>1 DEF Answer
    <3> QED BY <1>2, <2>1, <3>1
  <2>2. CASE ~(Counted(h).count > Limit)
    <3>1. Accept(h)
      BY <1>1, <2>2 DEF Answer
    <3> QED BY <1>2, <2>2, <3>1
  <2> QED BY <2>1, <2>2
<1>4. /\ accepted' \in [Hosts -> Seq(Ticks)] /\ failed' = failed /\ refused' \subseteq Hosts
      /\ \A g \in Hosts : Recent(accepted'[g], now') /\ Recent(failed'[g], now')
      /\ \A g \in Hosts \ {h} : accepted'[g] = accepted[g]
      /\ Refuse(h) => accepted'[h] = accepted[h]
      /\ Accept(h) => accepted'[h] = Append(accepted[h], now)
  BY <1>0, <1>1, <1>3, Answered
<1>5. TypeOK'
  BY <1>0, <1>1, <1>2, <1>4 DEF TypeOK
<1>6. Timed'
  BY <1>0, <1>1, <1>4 DEF Timed
<1>7. ASSUME NEW g \in Hosts PROVE InMemory(g)' /\ Kept(g)' /\ InRedis(g)'
  <2>1. InMemory(g)' /\ Kept(g)'
    BY <1>0, <1>1, MemoryUntouched
  <2>2. CASE g = h
    <3>1. \/ accepted'[h] = accepted[h] /\ failed'[h] = failed[h] /\ Before(h) >= Limit
          \/ accepted'[h] = Append(accepted[h], now) /\ failed'[h] = failed[h] /\ Before(h) < Limit
      BY <1>3, <1>4
    <3>2. InRedis(h)'
      BY <1>0, <1>1, <3>1, StoredInRedis
    <3> QED BY <2>1, <2>2, <3>2
  <2>3. CASE g # h
    <3>1. counter'[g] = counter[g] /\ accepted'[g] = accepted[g] /\ failed'[g] = failed[g]
      BY <1>2, <1>4, <2>3
    <3> QED BY <1>0, <1>1, <2>1, <3>1, OthersInRedis
  <2> QED BY <2>2, <2>3
<1>8. RefusedOnlyWhenFull'
  <2>1. Refuse(h) => Len(accepted[h]) + Len(failed[h]) >= Limit
    <3>1. SUFFICES ASSUME Refuse(h) PROVE Len(accepted[h]) + Len(failed[h]) >= Limit
      OBVIOUS
    <3>2. Before(h) >= Limit
      <4>1. CASE Refuse(h) /\ Before(h) >= Limit
        BY <4>1
      <4>2. CASE Accept(h) /\ Before(h) < Limit
        <5>1. accepted'[h] = accepted[h] /\ accepted'[h] = Append(accepted[h], now)
          BY <1>4, <3>1, <4>2
        <5>2. Len(Append(accepted[h], now)) = Len(accepted[h]) + 1
          BY <1>0, HostTypes, Appended
        <5> QED BY <1>2, <5>1, <5>2
      <4> QED BY <1>3, <4>1, <4>2
    <3>3. PICK k \in 0 .. Len(accepted[h]), f \in 0 .. Len(failed[h]) : Live(h, k, f)
      BY <1>0, <1>1, LiveSplit
    <3>4. (Len(accepted[h]) - k) + (Len(failed[h]) - f) >= Limit
      <4>1. Least(Before(h), Limit) = Limit
        BY <1>2, <3>2 DEF Least
      <4> QED BY <3>3, <4>1 DEF Live
    <3>5. ASSUME NEW a \in Nat, NEW b \in Nat, NEW x \in Nat, NEW y \in Nat, NEW l \in Nat,
                 (a - x) + (b - y) >= l
          PROVE  a + b >= l
      BY <3>5
    <3>6. k \in Nat /\ f \in Nat
      BY <1>2
    <3> QED BY <1>2, <3>4, <3>5, <3>6
  <2> QED BY <1>0, <1>1, <1>3, <2>1, StillEarned
<1> QED BY <1>5, <1>6, <1>7, <1>8 DEF IInv

\* A request that fails with Redis.
LEMMA FailureInv ==
  ASSUME IInv, NEW h \in Hosts, RedisFails(h)
  PROVE  IInv'
<1>0. TypeOK /\ Timed /\ RefusedOnlyWhenFull /\ \A g \in Hosts : Kept(g) /\ InRedis(g)
  BY DEF IInv
<1>1. /\ backend = "redis" /\ now' = now /\ backend' = backend
      /\ windows' = windows /\ last_cleanup' = last_cleanup
      /\ accepted' = accepted /\ refused' = refused
      /\ failed' = [failed EXCEPT ![h] = Append(@, now)]
      /\ counter' = counter \/ counter' = Store(h, Counted(h))
  BY DEF RedisFails
<1>2. /\ counter' \in [Hosts -> [count : Nat, expires : Nat]]
      /\ \A g \in Hosts \ {h} : counter'[g] = counter[g]
  <2>1. CASE counter' = counter
    BY <1>0, <2>1 DEF TypeOK
  <2>2. CASE counter' = Store(h, Counted(h))
    BY <1>0, <2>2, StoreIs
  <2> QED BY <1>1, <2>1, <2>2
<1>3. /\ failed \in [Hosts -> Seq(Ticks)] /\ now \in Ticks
      /\ \A g \in Hosts : Len(failed[g]) \in Nat /\ Len(accepted[g]) \in Nat
      /\ Limit \in Nat
  BY <1>0, HostTypes, TickFacts DEF TypeOK
<1>4. /\ failed'[h] = Append(failed[h], now)
      /\ \A g \in Hosts \ {h} : failed'[g] = failed[g]
  BY <1>1, <1>3
<1>5. Recent(Append(failed[h], now), now)
  <2>1. PICK t \in Ticks : t = now
    BY <1>3
  <2>2. PICK s : s = failed[h] /\ Recent(s, t)
    BY <1>0, <2>1 DEF Timed
  <2>3. Recent(Append(s, t), t)
    BY <2>2, RecentNow
  <2> QED BY <2>1, <2>2, <2>3
<1>6. TypeOK'
  <2>1. Append(failed[h], now) \in Seq(Ticks)
    BY <1>5 DEF Recent
  <2>2. failed' \in [Hosts -> Seq(Ticks)]
    BY <1>1, <1>3, <2>1
  <2> QED BY <1>0, <1>1, <1>2, <2>2 DEF TypeOK
<1>7. Timed'
  <2>1. ASSUME NEW g \in Hosts PROVE Recent(failed'[g], now')
    <3>1. CASE g = h
      BY <1>1, <1>4, <1>5, <3>1
    <3>2. CASE g # h
      BY <1>0, <1>1, <1>4, <3>2 DEF Timed
    <3> QED BY <3>1, <3>2
  <2> QED BY <1>0, <1>1, <2>1 DEF Timed
<1>8. ASSUME NEW g \in Hosts PROVE InMemory(g)' /\ Kept(g)' /\ InRedis(g)'
  <2>1. InMemory(g)' /\ Kept(g)'
    BY <1>0, <1>1, MemoryUntouched
  <2>2. CASE g = h
    <3>1. accepted'[h] = accepted[h] /\ failed'[h] = Append(failed[h], now)
      BY <1>1, <1>4
    <3>2. CASE counter' = counter
      <4>1. InRedis(h)'
        BY <1>0, <1>1, <3>1, <3>2, LostInRedis
      <4> QED BY <2>1, <2>2, <4>1
    <3>3. CASE counter' = Store(h, Counted(h))
      <4>1. InRedis(h)'
        BY <1>0, <1>1, <3>1, <3>3, StoredInRedis
      <4> QED BY <2>1, <2>2, <4>1
    <3> QED BY <1>1, <3>2, <3>3
  <2>3. CASE g # h
    <3>1. counter'[g] = counter[g] /\ accepted'[g] = accepted[g] /\ failed'[g] = failed[g]
      BY <1>1, <1>2, <1>4, <2>3
    <3> QED BY <1>0, <1>1, <2>1, <3>1, OthersInRedis
  <2> QED BY <2>2, <2>3
<1>9. RefusedOnlyWhenFull'
  <2>1. SUFFICES ASSUME NEW g \in refused
        PROVE  Len(accepted[g]) + Len(failed'[g]) >= Limit
    BY <1>1 DEF RefusedOnlyWhenFull
  <2>2. g \in Hosts /\ Len(accepted[g]) + Len(failed[g]) >= Limit
    BY <1>0 DEF RefusedOnlyWhenFull, TypeOK
  <2>3. Len(failed'[g]) = Len(failed[g]) \/ Len(failed'[g]) = Len(failed[g]) + 1
    <3>1. Len(Append(failed[h], now)) = Len(failed[h]) + 1
      BY <1>0, HostTypes, Appended
    <3> QED BY <1>4, <2>2, <3>1
  <2>4. ASSUME NEW a \in Nat, NEW b \in Nat, NEW l \in Nat, a + b >= l PROVE a + (b + 1) >= l
    BY <2>4
  <2> QED BY <1>3, <2>2, <2>3, <2>4
<1> QED BY <1>6, <1>7, <1>8, <1>9 DEF IInv

-----------------------------------------------------------------------------
(* The theorems.                                                           *)

\* Each step keeps what is kept of the hosts in agreement with the history.
LEMMA StepInv ==
  ASSUME IInv, [Next]_vars
  PROVE  IInv'
<1>1. CASE UNCHANGED vars
  BY <1>1 DEF IInv, TypeOK, Timed, InMemory, Kept, InRedis, Fixed, RefusedOnlyWhenFull
<1>2. ASSUME NEW h \in Hosts, MemoryRequest(h) PROVE IInv'
  BY <1>2, MemoryInv
<1>3. ASSUME NEW h \in Hosts, RedisRequest(h) PROVE IInv'
  BY <1>3, RedisInv
<1>4. ASSUME NEW h \in Hosts, RedisFails(h) PROVE IInv'
  BY <1>4, FailureInv
<1>5. CASE Tick
  BY <1>5, TickInv
<1> QED BY <1>1, <1>2, <1>3, <1>4, <1>5 DEF Next

\* The deques of the process, or the key in Redis, agree with the requests
\* that were let through, refused and failed, in every reachable state.
THEOREM Invariance == Spec => []IInv
<1>1. Init => IInv
  BY InitInv
<1>2. IInv /\ [Next]_vars => IInv'
  BY StepInv
<1> QED BY <1>1, <1>2, PTL DEF Spec

\* Each window in memory is in order and never longer than the limit.
THEOREM TypeCorrect == Spec => []TypeOK
<1>1. IInv => TypeOK
  BY DEF IInv
<1> QED BY <1>1, Invariance, PTL

\* No minute has more accepted requests of a host than the limit in memory,
\* nor than twice the limit in Redis: exceeded lets nothing else through.
THEOREM LimitsHold == Spec => []NeverTooMany
<1>1. ASSUME IInv, NEW h \in Hosts
      PROVE  Len(accepted[h]) <= IF backend = "memory" THEN Limit ELSE 2 * Limit
  <2>0. TypeOK /\ InMemory(h) /\ InRedis(h)
    BY <1>1 DEF IInv
  <2>1. /\ Len(accepted[h]) \in Nat /\ Limit \in Nat
        /\ windows[h] \in Seq(Nat) /\ Len(windows[h]) \in Nat /\ Len(windows[h]) <= Limit
        /\ counter[h].count \in Nat
    BY <2>0, HostTypes, TickFacts
  <2>2. CASE backend = "memory"
    <3>1. PICK j \in 0 .. Len(windows[h]) : accepted[h] = Drop(windows[h], j)
      BY <2>0, <2>2 DEF InMemory
    <3>2. Len(Drop(windows[h], j)) = Len(windows[h]) - j
      BY <2>1, DropFacts
    <3> QED BY <2>1, <2>2, <3>1, <3>2
  <2>3. CASE backend = "redis"
    <3>1. PICK k \in 0 .. Len(accepted[h]), f \in 0 .. Len(failed[h]) : Fixed(h, k, f)
      BY <2>0, <2>3 DEF InRedis
    <3>2. k <= Limit /\ Len(accepted[h]) - k <= Least(counter[h].count, Limit)
      BY <3>1 DEF Fixed
    <3>3. Least(counter[h].count, Limit) <= Limit /\ Least(counter[h].count, Limit) \in Nat
      BY <2>1 DEF Least
    <3> QED BY <2>1, <2>3, <3>1, <3>2, <3>3
  <2> QED BY <2>0, <2>2, <2>3 DEF TypeOK
<1>2. IInv => NeverTooMany
  BY <1>1 DEF NeverTooMany
<1> QED BY <1>2, Invariance, PTL

\* Whoever is answered 429 has used the limit up in the last minute, with the
\* requests that were let through or failed with Redis.
THEOREM RefusalsAreEarned == Spec => []RefusedOnlyWhenFull
<1>1. IInv => RefusedOnlyWhenFull
  BY DEF IInv
<1> QED BY <1>1, Invariance, PTL

\* No host that stopped asking is kept in memory for two minutes of requests
\* of others, though the cleanup runs only in their requests.
THEOREM IdleHostsAreForgotten == Spec => []IdleHostsForgotten
<1>1. ASSUME IInv, NEW h \in Hosts, NEW g \in Hosts, windows[h] # << >>, windows[g] # << >>
      PROVE  Last(windows[h]) + 2 * Window >= Last(windows[g])
  <2>0. TypeOK /\ Kept(h) /\ Kept(g)
    BY <1>1 DEF IInv
  <2>1. last_cleanup \in Nat /\ Window \in Nat
    BY <2>0, HostTypes, TickFacts
  <2>2. ASSUME NEW i \in Hosts, windows[i] # << >> PROVE Last(windows[i]) \in Nat
    <3>1. windows[i] \in Seq(Nat) /\ Len(windows[i]) \in Nat
          /\ \A n \in 1 .. Len(windows[i]) : windows[i][n] \in Nat
      BY <2>0, HostTypes
    <3>2. Len(windows[i]) \in 1 .. Len(windows[i])
      BY <2>2, <3>1
    <3> QED BY <3>1, <3>2 DEF Last
  <2>3. Last(windows[h]) \in Nat /\ Last(windows[g]) \in Nat
    BY <1>1, <2>2
  <2>4. /\ Last(windows[h]) + Window >= last_cleanup
        /\ Last(windows[g]) <= last_cleanup + Window
    BY <1>1, <2>0 DEF Kept
  <2> QED BY <2>1, <2>3, <2>4
<1>2. IInv => IdleHostsForgotten
  BY <1>1 DEF IdleHostsForgotten
<1> QED BY <1>2, Invariance, PTL

=============================================================================
