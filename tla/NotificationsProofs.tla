------------------------ MODULE NotificationsProofs ------------------------
(***************************************************************************)
(* The safety of Notifications for any number of incidents, devices,       *)
(* channels and slots, and any timing.  That no push carries a token Apple *)
(* refuses is a matter of scheduling: pushes wait for slots, slots are     *)
(* taken at once and held for LongestPush at most, so by the end of round r    *)
(* of LongestPush each, r * Slots pushes are done or nobody waits any more.    *)
(***************************************************************************)
EXTENDS Notifications, FiniteSetTheorems, TLAPS

-----------------------------------------------------------------------------
(* The inductive invariant.                                                *)

\* What a task has done, stage by stage.
Phase(i) ==
  /\ pc[i] \in {"new", "created", "unread", "lost"} =>
       /\ apns[i] = "none"
       /\ \A t \in Tokens : push[i][t] = "none"
       /\ \A c \in Channels : post[i][c] = "none"
  /\ pc[i] = "created" => owed[i] \subseteq devices
  /\ pc[i] = "notifying" => \A c \in Channels : post[i][c] \in {"waiting", "tried"}
  /\ pc[i] = "ended" => /\ \A c \in Channels : post[i][c] = "tried"
                        /\ apns[i] # "waiting"
                        /\ \A t \in Tokens : push[i][t] \notin {"queued", "sent"}
  /\ apns[i] # "pushing" => \A t \in Tokens : push[i][t] \notin {"sent", "tried"}
  /\ \A t \in Tokens : push[i][t] # "sent" => since[i][t] = 0
  /\ pc[i] \in {"notifying", "ended"} /\ ApnsConfigured /\ apns[i] # "failed" =>
       \A t \in owed[i] : push[i][t] \in {"queued", "sent", "tried"}

Tried(i) == {u \in Tokens : push[i][u] = "tried"}

Sent(i) == {u \in Tokens : push[i][u] = "sent"}

\* The pushes of a task that have ended, or have been under way for longer.
Before(i, x) == Tried(i) \cup {u \in Sent(i) : since[i][u] > x}

\* A token is no older than this when a task gets it.
Youngest == Refresh + MaxBehind - 1

\* r rounds are enough for an age: so many pushes have had their turn.
InTime(pushes, age) ==
  \E r \in Nat : /\ r * Slots <= Cardinality(pushes)
                 /\ age <= Youngest + r * LongestPush

\* The token's age when a push started, and while one is waiting for a slot.
Pace(i) ==
  apns[i] = "pushing" /\ ~ahead[i] =>
    /\ \A t \in Tokens : push[i][t] = "sent" =>
         /\ bearer[i] \in Ages /\ bearer[i] >= 0
         /\ InTime(Before(i, since[i][t]), bearer[i] - since[i][t])
    /\ \A t \in Tokens : push[i][t] = "queued" =>
         /\ bearer[i] \in Ages /\ bearer[i] >= 0
         /\ InTime(Before(i, 0), bearer[i])

IInv == TypeOK /\ \A i \in Incidents : Phase(i) /\ Pace(i)

USE DEF vars, world, task

-----------------------------------------------------------------------------
(* Arithmetic and finite sets.                                             *)

\* Numbers have a least one: the initial segments are well-founded.
LEMMA LeastOf ==
  ASSUME NEW T, T \subseteq Nat, T # {}
  PROVE  \E x \in T : \A y \in T : x <= y
<1> DEFINE F == {0 .. x : x \in T}
<1>1. F \subseteq FiniteSubsetsOf(Nat) /\ F # {}
  <2>1. ASSUME NEW x \in T PROVE 0 .. x \in FiniteSubsetsOf(Nat)
    <3>1. x \in Int /\ 0 .. x \subseteq Nat
      OBVIOUS
    <3>2. IsFiniteSet(0 .. x)
      BY <3>1, FS_Interval
    <3> QED BY <3>1, <3>2 DEF FiniteSubsetsOf
  <2> QED BY <2>1
<1>2. IsWellFoundedOn(StrictSubsetOrdering(Nat), FiniteSubsetsOf(Nat))
  BY FS_StrictSubsetOrderingWellFounded
<1> HIDE DEF F
<1>3. PICK I \in F : \A J \in F : <<J, I>> \notin StrictSubsetOrdering(Nat)
  BY <1>1, <1>2, WFMin
<1>4. PICK x \in T : I = 0 .. x
  BY DEF F
<1>5. ASSUME NEW y \in T, y < x PROVE FALSE
  <2>1. 0 .. y \in F /\ 0 .. y \subseteq 0 .. x /\ x \notin 0 .. y /\ x \in 0 .. x
    BY <1>5 DEF F
  <2>2. 0 .. x \subseteq Nat /\ 0 .. y \subseteq Nat
    OBVIOUS
  <2> QED BY <1>3, <1>4, <2>1, <2>2 DEF StrictSubsetOrdering
<1> QED BY <1>5

\* What the assumptions say of ages.
LEMMA AgeFacts ==
  /\ Horizon \in Nat /\ LongestPush \in Nat \ {0} /\ Slots \in Nat \ {0}
  /\ MaxBehind \in Nat /\ MaxAhead \in Nat
  /\ Rounds \in Nat
  /\ Youngest \in Nat
  /\ OldestToken \in Nat /\ Youngest + Rounds * LongestPush < OldestToken
  /\ MaxBehind <= Youngest /\ MaxBehind <= Horizon
<1>1. Cardinality(Tokens) \in Nat
  BY NotificationsAssumption, FS_CardinalityType
<1>2. Rounds \in Nat
  BY <1>1, NotificationsAssumption DEF Rounds
<1>3. Rounds * LongestPush \in Nat
  BY <1>2, NotificationsAssumption
<1> HIDE DEF Rounds
<1> QED BY <1>2, <1>3, NotificationsAssumption, HorizonAssumption DEF Youngest, OldestToken

\* After r rounds, with one push to go, there are rounds left.
LEMMA RoundsLeft ==
  ASSUME NEW r \in Nat, NEW n \in Nat, r * Slots <= n, n < Cardinality(Tokens)
  PROVE  (r + 1) * LongestPush <= Rounds * LongestPush
<1>1. Cardinality(Tokens) \in Nat /\ Slots \in Nat \ {0} /\ LongestPush \in Nat \ {0}
  BY NotificationsAssumption, FS_CardinalityType
<1>2. \A a \in Nat, s \in Nat \ {0}, q \in Nat : q * s <= a => q <= a \div s
  OBVIOUS
<1>3. (r + 1) * Slots = r * Slots + Slots /\ r * Slots \in Nat
  BY <1>1
<1>4. (r + 1) * Slots <= Cardinality(Tokens) + Slots - 1
  BY <1>1, <1>3
<1>5. r + 1 <= Rounds
  <2> DEFINE a == Cardinality(Tokens) + Slots - 1
  <2>1. a \in Nat /\ r + 1 \in Nat
    BY <1>1
  <2>2. (r + 1) * Slots <= a
    BY <1>4
  <2> HIDE DEF a
  <2>3. r + 1 <= a \div Slots
    BY <1>1, <1>2, <2>1, <2>2
  <2> QED BY <2>3 DEF a, Rounds
<1>6. Rounds \in Nat
  BY AgeFacts
<1>7. \A a, b, c \in Nat : a <= b => a * c <= b * c
  OBVIOUS
<1> QED BY <1>1, <1>5, <1>6, <1>7

\* The sets of pushes are finite.
LEMMA PushSets ==
  ASSUME NEW i
  PROVE  /\ IsFiniteSet(Tried(i)) /\ IsFiniteSet(Sent(i))
         /\ \A x : IsFiniteSet(Before(i, x))
         /\ Cardinality(Tried(i)) \in Nat /\ Cardinality(Sent(i)) \in Nat
         /\ \A x : Cardinality(Before(i, x)) \in Nat
<1>1. IsFiniteSet(Tokens)
  BY NotificationsAssumption
<1>2. Tried(i) \in SUBSET Tokens /\ Sent(i) \in SUBSET Tokens
  BY DEF Tried, Sent
<1>3. \A x : Before(i, x) \in SUBSET Tokens
  BY <1>2 DEF Before
<1>4. \A S \in SUBSET Tokens : IsFiniteSet(S) /\ Cardinality(S) \in Nat
  BY <1>1, FS_Subset, FS_CardinalityType
<1> QED BY <1>2, <1>3, <1>4

\* More pushes have had their turn, and the token is no older.
LEMMA StillInTime ==
  ASSUME NEW B, NEW C \in SUBSET Tokens, B \subseteq C,
         NEW age \in Int, NEW age1 \in Int, age1 <= age, InTime(B, age)
  PROVE  InTime(C, age1)
<1>1. IsFiniteSet(C)
  BY NotificationsAssumption, FS_Subset
<1>2. /\ Cardinality(B) <= Cardinality(C)
      /\ Cardinality(B) \in Nat /\ Cardinality(C) \in Nat
  BY <1>1, FS_Subset, FS_CardinalityType
<1>3. PICK r \in Nat : r * Slots <= Cardinality(B) /\ age <= Youngest + r * LongestPush
  BY DEF InTime
<1>4. r * Slots \in Nat /\ r * LongestPush \in Nat /\ Youngest \in Nat
  BY AgeFacts
<1>5. r * Slots <= Cardinality(C) /\ age1 <= Youngest + r * LongestPush
  BY <1>2, <1>3, <1>4
<1> QED BY <1>5 DEF InTime

\* Of the pushes under way one has been so for longest.
LEMMA Oldest ==
  ASSUME NEW i \in Incidents, TypeOK, Sent(i) # {}
  PROVE  \E u \in Sent(i) : Before(i, since[i][u]) = Tried(i)
<1> DEFINE T == {LongestPush - since[i][u] : u \in Sent(i)}
<1>1. \A u \in Sent(i) : since[i][u] \in 0 .. LongestPush
  BY DEF TypeOK, Sent
<1>2. T \subseteq Nat /\ T # {}
  BY <1>1, AgeFacts
<1>3. PICK m \in T : \A y \in T : m <= y
  BY <1>2, LeastOf
<1>4. PICK u \in Sent(i) : m = LongestPush - since[i][u]
  OBVIOUS
<1>5. \A v \in Sent(i) : since[i][v] <= since[i][u]
  <2> TAKE v \in Sent(i)
  <2>1. LongestPush - since[i][u] <= LongestPush - since[i][v]
    BY <1>3, <1>4
  <2> QED BY <1>1, <2>1, AgeFacts
<1>6. \A v \in Sent(i) : ~(since[i][v] > since[i][u])
  BY <1>1, <1>5
<1> QED BY <1>6 DEF Before

\* A token is young when a task gets it, unless the clock is ahead.
LEMMA TokenAge ==
  ASSUME TypeOK
  PROVE  /\ Token \in Ages
         /\ offset <= 0 => Token >= 0 /\ Token <= Youngest
<1> USE AgeFacts, NotificationsAssumption
<1>1. /\ offset \in Int /\ 0 - MaxBehind <= offset /\ offset <= MaxAhead
      /\ cache # NoToken => cache \in Int /\ 0 - MaxAhead <= cache /\ cache <= Horizon
  BY DEF TypeOK, Ages
<1>2. CASE Reusable
  <2>1. cache \in Int /\ cache + offset >= 0 /\ cache + offset < Refresh
    BY <1>1, <1>2 DEF Reusable
  <2>2. Token = cache
    BY <1>2 DEF Token
  <2> QED BY <1>1, <1>2, <2>1, <2>2 DEF Reusable, Ages, Youngest
<1>3. CASE ~Reusable
  <2>1. Token = 0 - offset
    BY <1>3 DEF Token
  <2> QED BY <1>1, <2>1 DEF Ages
<1> QED BY <1>2, <1>3

\* A token that grows older stays within the ages.
LEMMA OlderAge ==
  ASSUME NEW age \in Ages
  PROVE  /\ Older(age) \in Ages
         /\ Older(age) >= age /\ Older(age) <= age + 1
<1>1. age # NoToken /\ age \in Int /\ 0 - MaxAhead <= age /\ age <= Horizon
  BY NoTokenAssumption, AgeFacts DEF Ages
<1> QED BY <1>1, AgeFacts DEF Older, Ages

-----------------------------------------------------------------------------
(* The invariant holds at first.                                           *)

\* Nothing is announced yet.
LEMMA InitInv ==
  ASSUME Init
  PROVE  IInv
<1>1. TypeOK
  <2>1. \A i \in Incidents : {t \in Tokens : push[i][t] = "sent"} = {}
    BY DEF Init
  <2>2. \A i \in Incidents : Cardinality({t \in Tokens : push[i][t] = "sent"}) <= Slots
    <3>1. 0 <= Slots
      BY AgeFacts
    <3>2. Cardinality({}) = 0
      BY FS_EmptySet
    <3> TAKE i \in Incidents
    <3>3. Cardinality({t \in Tokens : push[i][t] = "sent"}) = 0
      BY <2>1, <3>2, Zenon
    <3> QED BY <3>1, <3>3
  <2>3. 0 \in 0 .. LongestPush /\ 0 \in (0 - MaxBehind) .. MaxAhead
    BY AgeFacts
  <2> QED BY <2>2, <2>3 DEF Init, TypeOK
<1>2. \A i \in Incidents : Phase(i) /\ Pace(i)
  BY DEF Init, Phase, Pace
<1> QED BY <1>1, <1>2 DEF IInv

-----------------------------------------------------------------------------
(* Each step keeps the types.                                              *)

\* A task that takes no slot has as few pushes under way as before.
LEMMA SlotsKept ==
  ASSUME TypeOK, NEW i \in Incidents,
         \A t \in Tokens : push'[i][t] = "sent" => push[i][t] = "sent"
  PROVE  Cardinality({t \in Tokens : push'[i][t] = "sent"}) <= Slots
<1> DEFINE S == {t \in Tokens : push[i][t] = "sent"}
           S1 == {t \in Tokens : push'[i][t] = "sent"}
<1>1. S1 \in SUBSET S /\ S1 \in SUBSET Tokens /\ S \in SUBSET Tokens
  OBVIOUS
<1>2. IsFiniteSet(Tokens)
  BY NotificationsAssumption
<1>3. Cardinality(S) <= Slots
  BY DEF TypeOK
<1> HIDE DEF S, S1
<1>4. IsFiniteSet(S) /\ Cardinality(S1) <= Cardinality(S)
  BY <1>1, <1>2, FS_Subset
<1>5. Cardinality(S) \in Nat /\ Cardinality(S1) \in Nat
  BY <1>1, <1>2, FS_Subset, FS_CardinalityType
<1>6. Cardinality(S1) <= Slots
  BY <1>3, <1>4, <1>5, AgeFacts
<1> QED BY <1>6 DEF S1

\* A push that starts finds a slot.
LEMMA SlotTaken ==
  ASSUME TypeOK, NEW i \in Incidents, NEW v \in Tokens, StartPush(i, v)
  PROVE  Cardinality({t \in Tokens : push'[i][t] = "sent"}) <= Slots
<1> DEFINE S == {t \in Tokens : push[i][t] = "sent"}
           S1 == {t \in Tokens : push'[i][t] = "sent"}
<1>1. S1 = S \cup {v} /\ v \notin S /\ S \in SUBSET Tokens
  BY DEF StartPush, MayPush, TypeOK
<1>2. IsFiniteSet(Tokens)
  BY NotificationsAssumption
<1>3. Cardinality(S) < Slots
  BY DEF StartPush, MayPush
<1> HIDE DEF S, S1
<1>4. IsFiniteSet(S) /\ Cardinality(S) \in Nat
  BY <1>1, <1>2, FS_Subset, FS_CardinalityType
<1>5. Cardinality(S1) = Cardinality(S) + 1
  BY <1>1, <1>4, FS_AddElement
<1>6. Cardinality(S1) <= Slots
  BY <1>3, <1>4, <1>5, AgeFacts
<1> QED BY <1>6 DEF S1

\* One case for each action.
LEMMA TypeStep ==
  ASSUME TypeOK, [Next]_vars
  PROVE  TypeOK'
<1> DEFINE Fits == \A i \in Incidents :
                     Cardinality({t \in Tokens : push'[i][t] = "sent"}) <= Slots
<1>0. (\A i \in Incidents, t \in Tokens :
         push'[i][t] = "sent" => push[i][t] = "sent") => Fits
  BY SlotsKept
<1> HIDE DEF Fits
<1>1. CASE UNCHANGED vars
  <2>1. Fits
    BY <1>0, <1>1
  <2> QED BY <1>1, <2>1 DEF TypeOK, Fits
<1>2. ASSUME NEW i \in Incidents, CreateIncident(i) PROVE TypeOK'
  <2>1. Fits
    BY <1>0, <1>2 DEF CreateIncident
  <2> QED BY <1>2, <2>1 DEF TypeOK, Fits, CreateIncident
<1>3. ASSUME NEW i \in Incidents, StartNotifiers(i) PROVE TypeOK'
  <2>1. Fits
    <3>1. ASSUME NEW j \in Incidents, NEW t \in Tokens, push'[j][t] = "sent"
          PROVE  push[j][t] = "sent"
      <4>1. CASE UNCHANGED push
        BY <3>1, <4>1
      <4>2. CASE push' = [push EXCEPT ![i] =
                            [u \in Tokens |-> IF u \in devices THEN "queued" ELSE "none"]]
        <5>1. j # i
          BY <3>1, <4>2 DEF TypeOK
        <5> QED BY <3>1, <4>2, <5>1 DEF TypeOK
      <4> QED BY <1>3, <4>1, <4>2 DEF StartNotifiers
    <3> QED BY <1>0, <3>1
  <2>2. push' \in [Incidents -> [Tokens -> {"none", "queued", "sent", "tried"}]]
    <3> DEFINE States == {"none", "queued", "sent", "tried"}
               queued == [u \in Tokens |-> IF u \in devices THEN "queued" ELSE "none"]
    <3>1. queued \in [Tokens -> States] /\ push \in [Incidents -> [Tokens -> States]]
      BY DEF TypeOK
    <3>2. push' = push \/ push' = [push EXCEPT ![i] = queued]
      BY <1>3 DEF StartNotifiers
    <3> HIDE DEF States, queued
    <3>3. push' \in [Incidents -> [Tokens -> States]]
      BY <3>1, <3>2
    <3> QED BY <3>3 DEF States
  <2> QED BY <1>3, <2>1, <2>2 DEF TypeOK, Fits, StartNotifiers
<1>4. ASSUME NEW i \in Incidents, ReadFails(i) PROVE TypeOK'
  <2>1. Fits
    BY <1>0, <1>4 DEF ReadFails
  <2> QED BY <1>4, <2>1 DEF TypeOK, Fits, ReadFails
<1>5. ASSUME NEW i \in Incidents, GetToken(i) PROVE TypeOK'
  <2>1. Fits
    BY <1>0, <1>5 DEF GetToken
  <2>2. Token \in Ages /\ (offset > 0) \in BOOLEAN
    BY TokenAge
  <2> QED BY <1>5, <2>1, <2>2 DEF TypeOK, Fits, GetToken
<1>6. ASSUME NEW i \in Incidents, KeyFails(i) PROVE TypeOK'
  <2>1. Fits
    BY <1>0, <1>6 DEF KeyFails, TypeOK
  <2>2. push' \in [Incidents -> [Tokens -> {"none", "queued", "sent", "tried"}]]
    BY <1>6 DEF KeyFails, TypeOK
  <2> QED BY <1>6, <2>1, <2>2 DEF TypeOK, Fits, KeyFails
<1>7. ASSUME NEW i \in Incidents, NEW c \in Channels, Post(i, c) PROVE TypeOK'
  <2>1. Fits
    BY <1>0, <1>7 DEF Post
  <2> QED BY <1>7, <2>1 DEF TypeOK, Fits, Post
<1>8. ASSUME NEW i \in Incidents, NEW t \in Tokens, StartPush(i, t) PROVE TypeOK'
  <2>1. Fits
    <3> SUFFICES ASSUME NEW j \in Incidents
        PROVE  Cardinality({u \in Tokens : push'[j][u] = "sent"}) <= Slots
      BY DEF Fits
    <3>1. CASE j = i
      BY <1>8, <3>1, SlotTaken
    <3>2. CASE j # i
      <4>1. push'[j] = push[j]
        BY <1>8, <3>2 DEF StartPush, TypeOK
      <4> QED BY <4>1 DEF TypeOK
    <3> QED BY <3>1, <3>2
  <2> QED BY <1>8, <2>1 DEF TypeOK, Fits, StartPush
<1>9. ASSUME NEW i \in Incidents, NEW t \in Tokens, EndPush(i, t) PROVE TypeOK'
  <2>1. Fits
    BY <1>0, <1>9 DEF EndPush, TypeOK
  <2>2. 0 \in 0 .. LongestPush
    BY AgeFacts
  <2> QED BY <1>9, <2>1, <2>2 DEF TypeOK, Fits, EndPush
<1>10. ASSUME NEW i \in Incidents, Gather(i) PROVE TypeOK'
  <2>1. Fits
    BY <1>0, <1>10 DEF Gather
  <2> QED BY <1>10, <2>1 DEF TypeOK, Fits, Gather
<1>11. ASSUME NEW t \in Tokens, RegisterDevice(t) \/ UnregisterDevice(t) PROVE TypeOK'
  <2>1. Fits
    BY <1>0, <1>11 DEF RegisterDevice, UnregisterDevice
  <2>2. devices' \subseteq Tokens
    <3>1. devices' \subseteq devices \cup {t} /\ devices \subseteq Tokens
      BY <1>11 DEF RegisterDevice, UnregisterDevice, TypeOK
    <3> QED BY <3>1
  <2>3. owed' \in [Incidents -> SUBSET Tokens]
    <3>1. owed \in [Incidents -> SUBSET Tokens]
      BY DEF TypeOK
    <3>2. CASE RegisterDevice(t)
      BY <3>1, <3>2 DEF RegisterDevice
    <3>3. CASE UnregisterDevice(t)
      <4>1. \A j \in Incidents :
              (IF pc[j] = "created" THEN owed[j] \ {t} ELSE owed[j]) \in SUBSET Tokens
        BY <3>1
      <4>2. owed' = [j \in Incidents |->
                       IF pc[j] = "created" THEN owed[j] \ {t} ELSE owed[j]]
        BY <3>3 DEF UnregisterDevice
      <4> QED BY <4>1, <4>2
    <3> QED BY <1>11, <3>2, <3>3
  <2> QED BY <1>11, <2>1, <2>2, <2>3 DEF TypeOK, Fits, RegisterDevice, UnregisterDevice
<1>12. CASE Tick
  <2>1. Fits
    BY <1>0, <1>12 DEF Tick
  <2>2. \A age \in Ages \cup {NoToken} : Older(age) \in Ages \cup {NoToken}
    BY OlderAge DEF Older
  <2>3. cache' \in Ages \cup {NoToken} /\ bearer' \in [Incidents -> Ages \cup {NoToken}]
    BY <1>12, <2>2 DEF Tick, TypeOK
  <2>4. since' \in [Incidents -> [Tokens -> 0 .. LongestPush]]
    <3>1. \A i \in Incidents, t \in Tokens : since[i][t] \in 0 .. LongestPush /\ since[i][t] < LongestPush
      BY <1>12 DEF Tick, TypeOK
    <3>2. \A n \in 0 .. LongestPush : n < LongestPush => n + 1 \in 0 .. LongestPush
      BY AgeFacts
    <3>3. 0 \in 0 .. LongestPush
      BY AgeFacts
    <3> QED BY <1>12, <3>1, <3>2, <3>3 DEF Tick
  <2> QED BY <1>12, <2>1, <2>3, <2>4 DEF TypeOK, Fits, Tick
<1>13. CASE SetClock
  <2>1. Fits
    BY <1>0, <1>13 DEF SetClock
  <2> QED BY <1>13, <2>1 DEF TypeOK, Fits, SetClock
<1>14. CASE Restart
  <2>1. Fits
    BY <1>0, <1>14 DEF Restart
  <2>2. 0 \in 0 .. LongestPush
    BY AgeFacts
  <2>3. /\ pc' \in [Incidents -> {"new", "created", "notifying", "ended", "unread", "lost"}]
        /\ post' \in [Incidents -> [Channels -> {"none", "waiting", "tried"}]]
        /\ apns' \in [Incidents -> {"none", "waiting", "pushing", "failed"}]
    BY <1>14 DEF Restart, TypeOK
  <2>4. push' \in [Incidents -> [Tokens -> {"none", "queued", "sent", "tried"}]]
    BY <1>14 DEF Restart, TypeOK
  <2>5. since' \in [Incidents -> [Tokens -> 0 .. LongestPush]]
    BY <1>14, <2>2 DEF Restart
  <2> QED BY <1>14, <2>1, <2>3, <2>4, <2>5 DEF TypeOK, Fits, Restart
<1> QED BY <1>1, <1>2, <1>3, <1>4, <1>5, <1>6, <1>7, <1>8, <1>9, <1>10, <1>11, <1>12,
           <1>13, <1>14 DEF Next, Notify

-----------------------------------------------------------------------------
(* Each step keeps the phases.                                             *)

\* A task that a step leaves alone stays in its phase.
LEMMA SamePhase ==
  ASSUME NEW i \in Incidents, Phase(i),
         pc'[i] = pc[i], post'[i] = post[i], apns'[i] = apns[i],
         push'[i] = push[i], since'[i] = since[i],
         owed'[i] \subseteq owed[i],
         pc[i] = "created" => owed'[i] \subseteq devices'
  PROVE  Phase(i)'
BY DEF Phase

\* One case for each action.
LEMMA PhaseStep ==
  ASSUME TypeOK, [Next]_vars, NEW j \in Incidents, Phase(j)
  PROVE  Phase(j)'
<1>0. Phase(j)
  OBVIOUS
<1>1. CASE UNCHANGED vars
  BY <1>0, <1>1 DEF Phase
<1>2. ASSUME NEW i \in Incidents, CreateIncident(i) PROVE Phase(j)'
  <2>1. CASE j # i
    <3>1. pc'[j] = pc[j] /\ owed'[j] = owed[j] /\ UNCHANGED <<devices, post, apns, push, since>>
      BY <1>2, <2>1 DEF CreateIncident, TypeOK
    <3> QED BY <1>0, <3>1 DEF Phase
  <2>2. CASE j = i
    <3>1. /\ pc[j] = "new" /\ pc'[j] = "created" /\ owed'[j] = devices
          /\ UNCHANGED <<devices, post, apns, push, since>>
      BY <1>2, <2>2 DEF CreateIncident, TypeOK
    <3> QED BY <1>0, <3>1 DEF Phase
  <2> QED BY <2>1, <2>2
<1>3. ASSUME NEW i \in Incidents, StartNotifiers(i) PROVE Phase(j)'
  <2>1. CASE j # i
    <3>1. /\ pc'[j] = pc[j] /\ post'[j] = post[j] /\ apns'[j] = apns[j]
          /\ push'[j] = push[j] /\ UNCHANGED <<devices, since, owed>>
      BY <1>3, <2>1 DEF StartNotifiers, TypeOK
    <3> QED BY <1>0, <3>1 DEF Phase
  <2>2. CASE j = i
    <3>1. /\ pc[j] = "created" /\ pc'[j] = "notifying"
          /\ \A c \in Channels : post'[j][c] = "waiting"
          /\ UNCHANGED <<devices, since, owed>>
      BY <1>3, <2>2 DEF StartNotifiers, TypeOK
    <3>2. /\ apns[j] = "none" /\ owed[j] \subseteq devices
          /\ \A t \in Tokens : push[j][t] = "none" /\ since[j][t] = 0
      BY <1>0, <3>1 DEF Phase
    <3>3. CASE ApnsConfigured /\ devices # {}
      <4>1. /\ apns'[j] = "waiting"
            /\ push'[j] = [t \in Tokens |-> IF t \in devices THEN "queued" ELSE "none"]
        BY <1>3, <2>2, <3>3 DEF StartNotifiers, TypeOK
      <4>2. \A t \in Tokens : push'[j][t] \notin {"sent", "tried"}
        BY <4>1
      <4>3. \A t \in owed'[j] : push'[j][t] = "queued"
        BY <3>1, <3>2, <4>1 DEF TypeOK
      <4> QED BY <3>1, <3>2, <4>1, <4>2, <4>3 DEF Phase
    <3>4. CASE ~(ApnsConfigured /\ devices # {})
      <4>1. UNCHANGED <<apns, push>>
        BY <1>3, <3>4 DEF StartNotifiers
      <4>2. ~ApnsConfigured \/ owed'[j] = {}
        BY <3>1, <3>2, <3>4
      <4> QED BY <3>1, <3>2, <4>1, <4>2 DEF Phase
    <3> QED BY <3>3, <3>4
  <2> QED BY <2>1, <2>2
<1>4. ASSUME NEW i \in Incidents, ReadFails(i) PROVE Phase(j)'
  <2>1. /\ pc'[j] = pc[j] \/ (pc[j] = "created" /\ pc'[j] = "unread")
        /\ UNCHANGED <<devices, post, apns, push, since, owed>>
    BY <1>4 DEF ReadFails, TypeOK
  <2> QED BY <1>0, <2>1 DEF Phase
<1>5. ASSUME NEW i \in Incidents, GetToken(i) PROVE Phase(j)'
  <2>1. /\ apns'[j] = apns[j] \/ (apns[j] = "waiting" /\ apns'[j] = "pushing")
        /\ UNCHANGED <<devices, pc, post, push, since, owed>>
    BY <1>5 DEF GetToken, TypeOK
  <2> QED BY <1>0, <2>1 DEF Phase
<1>6. ASSUME NEW i \in Incidents, KeyFails(i) PROVE Phase(j)'
  <2>0. UNCHANGED <<devices, pc, post, since, owed>>
    BY <1>6 DEF KeyFails
  <2>1. CASE j # i
    <3>1. apns'[j] = apns[j] /\ push'[j] = push[j]
      BY <1>6, <2>1 DEF KeyFails, TypeOK
    <3> QED BY <1>0, <2>0, <3>1 DEF Phase
  <2>2. CASE j = i
    <3>1. /\ apns[j] = "waiting" /\ apns'[j] = "failed"
          /\ \A t \in Tokens : push'[j][t] = "none"
      BY <1>6, <2>2 DEF KeyFails, TypeOK
    <3>2. pc[j] = "notifying" /\ \A t \in Tokens : since[j][t] = 0
      BY <1>0, <3>1 DEF Phase, TypeOK
    <3> QED BY <1>0, <2>0, <3>1, <3>2 DEF Phase
  <2> QED BY <2>1, <2>2
<1>7. ASSUME NEW i \in Incidents, NEW c \in Channels, Post(i, c) PROVE Phase(j)'
  <2>0. UNCHANGED <<devices, pc, apns, push, since, owed>>
    BY <1>7 DEF Post
  <2>1. CASE j # i
    <3>1. post'[j] = post[j]
      BY <1>7, <2>1 DEF Post, TypeOK
    <3> QED BY <1>0, <2>0, <3>1 DEF Phase
  <2>2. CASE j = i
    <3>1. post[j][c] = "waiting" /\ post'[j] = [post[j] EXCEPT ![c] = "tried"]
      BY <1>7, <2>2 DEF Post, TypeOK
    <3>2. \A d \in Channels : post'[j][d] = IF d = c THEN "tried" ELSE post[j][d]
      BY <3>1 DEF TypeOK
    <3>3. pc[j] = "notifying"
      BY <1>0, <3>1 DEF Phase, TypeOK
    <3> QED BY <1>0, <2>0, <3>2, <3>3 DEF Phase
  <2> QED BY <2>1, <2>2
<1>8. ASSUME NEW i \in Incidents, NEW v \in Tokens, StartPush(i, v) \/ EndPush(i, v)
      PROVE  Phase(j)'
  <2>0. UNCHANGED <<devices, pc, post, apns, owed>>
    BY <1>8 DEF StartPush, EndPush
  <2>1. CASE j # i
    <3>1. push'[j] = push[j] /\ since'[j] = since[j]
      BY <1>8, <2>1 DEF StartPush, EndPush, TypeOK
    <3> QED BY <1>0, <2>0, <3>1 DEF Phase
  <2>2. CASE j = i
    <3>1. /\ push[j][v] \in {"queued", "sent"} /\ push'[j][v] \in {"sent", "tried"}
          /\ push'[j][v] # "sent" => since'[j][v] = 0
          /\ \A t \in Tokens : t # v => push'[j][t] = push[j][t] /\ since'[j][t] = since[j][t]
      BY <1>8, <2>2 DEF StartPush, MayPush, EndPush, TypeOK
    <3>2. apns[j] = "pushing" /\ pc[j] = "notifying"
      <4>1. apns[j] = "pushing"
        BY <1>0, <1>8, <2>2 DEF StartPush, MayPush, EndPush, Phase
      <4> QED BY <1>0, <3>1, <4>1 DEF Phase, TypeOK
    <3>3. \A t \in Tokens : push'[j][t] # "sent" => since'[j][t] = 0
      BY <1>0, <3>1 DEF Phase
    <3>4. \A t \in owed[j] : push[j][t] \in {"queued", "sent", "tried"} =>
                                push'[j][t] \in {"queued", "sent", "tried"}
      BY <3>1 DEF TypeOK
    <3> QED BY <1>0, <2>0, <3>2, <3>3, <3>4 DEF Phase
  <2> QED BY <2>1, <2>2
<1>9. ASSUME NEW i \in Incidents, Gather(i) PROVE Phase(j)'
  <2>0. UNCHANGED <<devices, post, apns, push, since, owed>>
    BY <1>9 DEF Gather
  <2>1. CASE j # i
    <3>1. pc'[j] = pc[j]
      BY <1>9, <2>1 DEF Gather, TypeOK
    <3> QED BY <1>0, <2>0, <3>1 DEF Phase
  <2>2. CASE j = i
    <3>1. /\ pc[j] = "notifying" /\ pc'[j] = "ended"
          /\ \A c \in Channels : post[j][c] # "waiting"
          /\ apns[j] # "waiting"
          /\ \A t \in Tokens : push[j][t] \notin {"queued", "sent"}
      BY <1>9, <2>2 DEF Gather, TypeOK
    <3> QED BY <1>0, <2>0, <3>1 DEF Phase
  <2> QED BY <2>1, <2>2
<1>10. ASSUME NEW t \in Tokens, RegisterDevice(t) PROVE Phase(j)'
  <2>1. devices \subseteq devices' /\ UNCHANGED <<pc, post, apns, push, since, owed>>
    BY <1>10 DEF RegisterDevice
  <2> QED BY <1>0, <2>1 DEF Phase
<1>11. ASSUME NEW t \in Tokens, UnregisterDevice(t) PROVE Phase(j)'
  <2>1. /\ devices' = devices \ {t} /\ UNCHANGED <<pc, post, apns, push, since>>
        /\ owed'[j] = IF pc[j] = "created" THEN owed[j] \ {t} ELSE owed[j]
    BY <1>11 DEF UnregisterDevice
  <2>2. /\ owed'[j] \subseteq owed[j]
        /\ pc[j] = "created" => owed'[j] \subseteq devices'
    BY <1>0, <2>1 DEF Phase
  <2> QED BY <1>0, <2>1, <2>2, SamePhase
<1>12. CASE Tick
  <2>1. /\ UNCHANGED <<devices, pc, post, apns, push, owed>>
        /\ \A t \in Tokens : push[j][t] # "sent" => since'[j][t] = 0
    BY <1>12 DEF Tick
  <2> QED BY <1>0, <2>1 DEF Phase
<1>13. CASE SetClock
  BY <1>0, <1>13 DEF SetClock, Phase
<1>14. CASE Restart
  <2>0. UNCHANGED <<devices, owed>> /\ \A t \in Tokens : since'[j][t] = 0
    BY <1>14 DEF Restart
  <2>1. CASE pc[j] \in {"created", "notifying"}
    <3>1. /\ pc'[j] = "lost" /\ apns'[j] = "none"
          /\ \A c \in Channels : post'[j][c] = "none"
          /\ \A t \in Tokens : push'[j][t] = "none"
      BY <1>14, <2>1 DEF Restart
    <3> QED BY <2>0, <3>1 DEF Phase
  <2>2. CASE pc[j] \notin {"created", "notifying"}
    <3>1. /\ pc'[j] = pc[j] /\ apns'[j] = apns[j]
          /\ \A c \in Channels : post'[j][c] = post[j][c]
          /\ \A t \in Tokens : push'[j][t] = push[j][t]
      BY <1>14, <2>2 DEF Restart
    <3>2. \A t \in owed[j] : push'[j][t] = push[j][t]
      BY <3>1 DEF TypeOK
    <3> QED BY <1>0, <2>0, <2>2, <3>1, <3>2 DEF Phase
  <2> QED BY <2>1, <2>2
<1> QED BY <1>1, <1>2, <1>3, <1>4, <1>5, <1>6, <1>7, <1>8, <1>9, <1>10, <1>11, <1>12,
           <1>13, <1>14 DEF Next, Notify

-----------------------------------------------------------------------------
(* Each step keeps the pace.                                               *)

\* A step that leaves a task's pushes and token alone keeps its pace.
LEMMA SamePace ==
  ASSUME NEW i \in Incidents, Pace(i),
         apns'[i] = apns[i], push'[i] = push[i], since'[i] = since[i],
         bearer'[i] = bearer[i], ahead'[i] = ahead[i]
  PROVE  Pace(i)'
<1>1. \A x : Before(i, x)' = Before(i, x)
  BY DEF Before, Tried, Sent
<1> QED BY <1>1 DEF Pace

\* A task none of whose pushes waits or is under way keeps any pace.
LEMMA NoPace ==
  ASSUME NEW i \in Incidents,
         apns'[i] # "pushing" \/ \A t \in Tokens : push'[i][t] \notin {"queued", "sent"}
  PROVE  Pace(i)'
BY DEF Pace

\* The token a task gets is young enough for no push to have had its turn.
LEMMA GetTokenPace ==
  ASSUME TypeOK, NEW i \in Incidents, Phase(i), GetToken(i)
  PROVE  Pace(i)'
<1>1. /\ apns[i] = "waiting" /\ bearer'[i] = Token /\ ahead'[i] = (offset > 0)
      /\ UNCHANGED <<push, since>>
  BY DEF GetToken, TypeOK
<1>2. \A t \in Tokens : push'[i][t] # "sent"
  BY <1>1 DEF Phase
<1>3. ASSUME ~ahead'[i]
      PROVE  bearer'[i] \in Ages /\ bearer'[i] >= 0 /\ InTime(Before(i, 0)', bearer'[i])
  <2>1. offset \in Int /\ offset <= 0
    <3>1. ~(offset > 0)
      BY <1>1, <1>3, Zenon
    <3>2. offset \in (0 - MaxBehind) .. MaxAhead
      BY DEF TypeOK
    <3> QED BY <3>1, <3>2, AgeFacts
  <2>2. Token \in Ages /\ Token >= 0 /\ Token <= Youngest
    BY <2>1, TokenAge
  <2>3. Before(i, 0)' = Before(i, 0)
    BY <1>1 DEF Before, Tried, Sent
  <2>4. 0 * Slots <= Cardinality(Before(i, 0)) /\ Token <= Youngest + 0 * LongestPush
    BY <2>2, PushSets, AgeFacts DEF Ages
  <2> QED BY <1>1, <2>2, <2>3, <2>4 DEF InTime
<1> QED BY <1>2, <1>3 DEF Pace

\* A push that starts or ends leaves the others in time, and is in time.
LEMMA PushPace ==
  ASSUME TypeOK, NEW i \in Incidents, Phase(i), Pace(i), NEW v \in Tokens,
         StartPush(i, v) \/ EndPush(i, v)
  PROVE  Pace(i)'
<1>1. UNCHANGED <<apns, bearer, ahead>>
  BY DEF StartPush, EndPush
<1>2. \/ /\ push[i][v] = "queued" /\ push'[i][v] = "sent" /\ since'[i][v] = since[i][v]
      \/ push[i][v] = "sent" /\ push'[i][v] = "tried"
  BY DEF StartPush, MayPush, EndPush, TypeOK
<1>3. \A t \in Tokens : t # v => push'[i][t] = push[i][t] /\ since'[i][t] = since[i][t]
  BY DEF StartPush, EndPush, TypeOK
<1>4. SUFFICES ASSUME apns[i] = "pushing", ~ahead[i] PROVE Pace(i)'
  BY <1>1 DEF Pace
<1>5. \A x : Before(i, x) \subseteq Before(i, x)' /\ Before(i, x)' \in SUBSET Tokens
  BY <1>2, <1>3 DEF Before, Tried, Sent
<1>6. ASSUME NEW x \in Int, NEW age \in Int, InTime(Before(i, x), age)
      PROVE  InTime(Before(i, x)', age)
  BY <1>5, <1>6, StillInTime
<1>7. ASSUME NEW t \in Tokens, push'[i][t] = "sent"
      PROVE  /\ bearer'[i] \in Ages /\ bearer'[i] >= 0
             /\ InTime(Before(i, since[i][t]), bearer[i] - since[i][t])'
  <2>1. since'[i][t] = since[i][t] /\ since[i][t] \in Int
    <3>1. since[i][t] \in 0 .. LongestPush
      BY DEF TypeOK
    <3>2. since'[i][t] = since[i][t]
      BY <1>2, <1>3, <1>7
    <3> QED BY <3>1, <3>2, AgeFacts
  <2>2. /\ bearer[i] \in Ages /\ bearer[i] >= 0
        /\ InTime(Before(i, since[i][t]), bearer[i] - since[i][t])
    <3>1. CASE push[i][t] = "sent"
      BY <1>4, <3>1 DEF Pace
    <3>2. CASE push[i][t] # "sent"
      <4>1. push[i][t] = "queued" /\ since[i][t] = 0
        BY <1>2, <1>3, <1>7, <3>2 DEF Phase
      <4>2. bearer[i] \in Ages /\ bearer[i] >= 0 /\ InTime(Before(i, 0), bearer[i])
        BY <1>4, <4>1 DEF Pace
      <4>3. bearer[i] - 0 = bearer[i]
        BY <4>2 DEF Ages
      <4> QED BY <4>1, <4>2, <4>3
    <3> QED BY <3>1, <3>2
  <2>3. bearer[i] - since[i][t] \in Int
    BY <2>1, <2>2, AgeFacts DEF Ages
  <2>4. InTime(Before(i, since[i][t]), bearer[i] - since[i][t])'
    <3>1. PICK x \in Int : x = since[i][t]
      BY <2>1
    <3>2. PICK age \in Int : age = bearer[i] - since[i][t]
      BY <2>3
    <3>3. InTime(Before(i, x), age)
      BY <2>2, <3>1, <3>2
    <3>4. InTime(Before(i, x)', age)
      BY <1>6, <3>3
    <3>5. x = since'[i][t] /\ age = bearer'[i] - since'[i][t]
      BY <1>1, <2>1, <3>1, <3>2
    <3>6. Before(i, x)' = Before(i, since[i][t])'
      BY <3>5 DEF Before
    <3> QED BY <3>4, <3>5, <3>6
  <2> QED BY <1>1, <2>2, <2>4
<1>8. ASSUME NEW t \in Tokens, push'[i][t] = "queued"
      PROVE  /\ bearer'[i] \in Ages /\ bearer'[i] >= 0
             /\ InTime(Before(i, 0)', bearer'[i])
  <2>1. push[i][t] = "queued"
    BY <1>2, <1>3, <1>8
  <2>2. bearer[i] \in Ages /\ bearer[i] >= 0 /\ InTime(Before(i, 0), bearer[i])
    BY <1>4, <2>1 DEF Pace
  <2>3. bearer[i] \in Int
    BY <2>2 DEF Ages
  <2> QED BY <1>1, <1>6, <2>2, <2>3
<1> QED BY <1>7, <1>8 DEF Pace

\* Time that passes makes a push under way and its token older alike; a push
\* that waits had no slot, so those before it end within a LongestPush.
LEMMA TickPace ==
  ASSUME TypeOK, NEW i \in Incidents, Phase(i), Pace(i), Tick
  PROVE  Pace(i)'
<1>1. /\ UNCHANGED <<apns, push, ahead>>
      /\ bearer'[i] = Older(bearer[i])
      /\ \A t \in Tokens : push[i][t] = "sent" => since'[i][t] = since[i][t] + 1
      /\ \A t \in Tokens : ~MayPush(i, t) /\ since[i][t] < LongestPush
  BY DEF Tick
<1>2. SUFFICES ASSUME apns[i] = "pushing", ~ahead[i] PROVE Pace(i)'
  BY <1>1 DEF Pace
<1>3. \A t \in Tokens : since[i][t] \in Nat
  BY AgeFacts DEF TypeOK
<1>4. Tried(i)' = Tried(i) /\ Sent(i)' = Sent(i)
  BY <1>1 DEF Tried, Sent
<1>5. ASSUME bearer[i] \in Ages, bearer[i] >= 0
      PROVE  /\ bearer'[i] \in Ages /\ bearer'[i] >= 0
             /\ bearer[i] \in Int /\ bearer'[i] \in Int /\ bearer'[i] <= bearer[i] + 1
  <2>1. Older(bearer[i]) \in Ages /\ Older(bearer[i]) >= bearer[i]
        /\ Older(bearer[i]) <= bearer[i] + 1
    BY <1>5, OlderAge
  <2> QED BY <1>1, <1>5, <2>1, AgeFacts DEF Ages
<1>6. ASSUME NEW t \in Tokens, push'[i][t] = "sent"
      PROVE  /\ bearer'[i] \in Ages /\ bearer'[i] >= 0
             /\ InTime(Before(i, since[i][t]), bearer[i] - since[i][t])'
  <2>1. push[i][t] = "sent" /\ since'[i][t] = since[i][t] + 1
    BY <1>1, <1>6
  <2>2. /\ bearer[i] \in Ages /\ bearer[i] >= 0
        /\ InTime(Before(i, since[i][t]), bearer[i] - since[i][t])
    BY <1>2, <2>1 DEF Pace
  <2>3. Before(i, since[i][t])' = Before(i, since[i][t])
    <3>1. \A u \in Sent(i) : since'[i][u] > since'[i][t] <=> since[i][u] > since[i][t]
      BY <1>1, <1>3, <2>1 DEF Sent
    <3> QED BY <1>4, <3>1 DEF Before
  <2>4. Before(i, since[i][t]) \in SUBSET Tokens
    BY DEF Before, Tried, Sent
  <2>5. /\ bearer[i] - since[i][t] \in Int /\ bearer'[i] - since'[i][t] \in Int
        /\ bearer'[i] - since'[i][t] <= bearer[i] - since[i][t]
    BY <1>3, <1>5, <2>1, <2>2
  <2>6. InTime(Before(i, since[i][t]), bearer'[i] - since'[i][t])
    BY <2>2, <2>4, <2>5, StillInTime
  <2>7. InTime(Before(i, since[i][t]), bearer[i] - since[i][t])'
    BY <2>3, <2>6
  <2> QED BY <1>5, <2>2, <2>7
<1>7. ASSUME NEW t \in Tokens, push'[i][t] = "queued"
      PROVE  /\ bearer'[i] \in Ages /\ bearer'[i] >= 0
             /\ InTime(Before(i, 0)', bearer'[i])
  <2>1. /\ Cardinality(Sent(i)) >= Slots
        /\ Cardinality(Sent(i)) \in Nat /\ Cardinality(Tried(i)) \in Nat
    <3>1. ~(Cardinality(Sent(i)) < Slots)
      BY <1>1, <1>2, <1>7 DEF MayPush, Sent
    <3> QED BY <3>1, PushSets, AgeFacts
  <2>2. Sent(i) # {}
    <3>1. Cardinality(Sent(i)) # 0
      BY <2>1, AgeFacts
    <3> QED BY <3>1, FS_EmptySet
  <2>3. PICK u \in Sent(i) : Before(i, since[i][u]) = Tried(i)
    BY <2>2, Oldest
  <2>4. u \in Tokens /\ push[i][u] = "sent"
    BY DEF Sent
  <2>5. /\ bearer[i] \in Ages /\ bearer[i] >= 0
        /\ InTime(Tried(i), bearer[i] - since[i][u])
    BY <1>2, <2>3, <2>4 DEF Pace
  <2>6. PICK r \in Nat : /\ r * Slots <= Cardinality(Tried(i))
                         /\ bearer[i] - since[i][u] <= Youngest + r * LongestPush
    BY <2>5 DEF InTime
  <2>7. /\ (r + 1) * Slots = r * Slots + Slots /\ r * Slots \in Nat
        /\ (r + 1) * LongestPush = r * LongestPush + LongestPush /\ r * LongestPush \in Nat
        /\ r + 1 \in Nat
    BY AgeFacts
  <2>8. Before(i, 0)' = Tried(i) \cup Sent(i)
    <3>1. \A w \in Sent(i) : since'[i][w] > 0
      BY <1>1, <1>3 DEF Sent
    <3> QED BY <1>4, <3>1 DEF Before
  <2>9. Cardinality(Tried(i) \cup Sent(i)) = Cardinality(Tried(i)) + Cardinality(Sent(i))
    <3>1. Tried(i) \cap Sent(i) = {}
      BY DEF Tried, Sent
    <3>2. Cardinality(Tried(i) \cap Sent(i)) = 0
      BY <3>1, FS_EmptySet
    <3>3. IsFiniteSet(Tried(i)) /\ IsFiniteSet(Sent(i))
      BY PushSets
    <3>4. Cardinality(Tried(i) \cup Sent(i)) =
            Cardinality(Tried(i)) + Cardinality(Sent(i)) - Cardinality(Tried(i) \cap Sent(i))
      BY <3>3, FS_Union
    <3> QED BY <2>1, <3>2, <3>4
  <2>10. (r + 1) * Slots <= Cardinality(Before(i, 0)')
    <3>1. r * Slots + Slots <= Cardinality(Tried(i)) + Cardinality(Sent(i))
      BY <2>1, <2>6, <2>7, AgeFacts
    <3> QED BY <2>7, <2>8, <2>9, <3>1
  <2>11. bearer'[i] <= Youngest + (r + 1) * LongestPush
    BY <1>1, <1>3, <1>5, <2>4, <2>5, <2>6, <2>7, AgeFacts
  <2>12. InTime(Before(i, 0)', bearer'[i])
    BY <2>7, <2>10, <2>11 DEF InTime
  <2> QED BY <1>5, <2>5, <2>12
<1> QED BY <1>6, <1>7 DEF Pace

\* One case for each action.
LEMMA PaceStep ==
  ASSUME TypeOK, [Next]_vars, NEW j \in Incidents, Phase(j), Phase(j)', Pace(j)
  PROVE  Pace(j)'
<1>0. Phase(j) /\ Phase(j)' /\ Pace(j)
  OBVIOUS
<1>1. CASE UNCHANGED <<apns, push, since, bearer, ahead>>
  BY <1>0, <1>1, SamePace
<1>2. ASSUME NEW i \in Incidents, CreateIncident(i) \/ ReadFails(i) PROVE Pace(j)'
  BY <1>1, <1>2 DEF CreateIncident, ReadFails
<1>3. ASSUME NEW i \in Incidents, StartNotifiers(i) PROVE Pace(j)'
  <2>1. CASE j # i
    <3>1. apns'[j] = apns[j] /\ push'[j] = push[j] /\ UNCHANGED <<since, bearer, ahead>>
      BY <1>3, <2>1 DEF StartNotifiers, TypeOK
    <3> QED BY <1>0, <3>1, SamePace
  <2>2. CASE j = i
    <3>1. apns[j] = "none"
      BY <1>0, <1>3, <2>2 DEF StartNotifiers, Phase
    <3>2. apns'[j] # "pushing"
      BY <1>3, <2>2, <3>1 DEF StartNotifiers, TypeOK
    <3> QED BY <3>2, NoPace
  <2> QED BY <2>1, <2>2
<1>4. ASSUME NEW i \in Incidents, NEW c \in Channels, Post(i, c) PROVE Pace(j)'
  BY <1>1, <1>4 DEF Post
<1>5. ASSUME NEW i \in Incidents, GetToken(i) PROVE Pace(j)'
  <2>1. CASE j # i
    <3>1. /\ apns'[j] = apns[j] /\ bearer'[j] = bearer[j] /\ ahead'[j] = ahead[j]
          /\ UNCHANGED <<push, since>>
      BY <1>5, <2>1 DEF GetToken, TypeOK
    <3> QED BY <1>0, <3>1, SamePace
  <2> QED BY <1>0, <1>5, <2>1, GetTokenPace
<1>6. ASSUME NEW i \in Incidents, KeyFails(i) PROVE Pace(j)'
  <2>1. CASE j # i
    <3>1. apns'[j] = apns[j] /\ push'[j] = push[j] /\ UNCHANGED <<since, bearer, ahead>>
      BY <1>6, <2>1 DEF KeyFails, TypeOK
    <3> QED BY <1>0, <3>1, SamePace
  <2>2. CASE j = i
    <3>1. apns'[j] # "pushing"
      BY <1>6, <2>2 DEF KeyFails, TypeOK
    <3> QED BY <3>1, NoPace
  <2> QED BY <2>1, <2>2
<1>7. ASSUME NEW i \in Incidents, NEW v \in Tokens, StartPush(i, v) \/ EndPush(i, v)
      PROVE  Pace(j)'
  <2>1. CASE j # i
    <3>1. push'[j] = push[j] /\ since'[j] = since[j] /\ UNCHANGED <<apns, bearer, ahead>>
      BY <1>7, <2>1 DEF StartPush, EndPush, TypeOK
    <3> QED BY <1>0, <3>1, SamePace
  <2> QED BY <1>0, <1>7, <2>1, PushPace
<1>8. ASSUME NEW i \in Incidents, Gather(i) PROVE Pace(j)'
  <2>1. CASE j # i
    <3>1. bearer'[j] = bearer[j] /\ ahead'[j] = ahead[j] /\ UNCHANGED <<apns, push, since>>
      BY <1>8, <2>1 DEF Gather, TypeOK
    <3> QED BY <1>0, <3>1, SamePace
  <2>2. CASE j = i
    <3>1. \A t \in Tokens : push'[j][t] \notin {"queued", "sent"}
      BY <1>8, <2>2 DEF Gather
    <3> QED BY <3>1, NoPace
  <2> QED BY <2>1, <2>2
<1>9. ASSUME NEW t \in Tokens, RegisterDevice(t) \/ UnregisterDevice(t) PROVE Pace(j)'
  BY <1>1, <1>9 DEF RegisterDevice, UnregisterDevice
<1>10. CASE Tick
  BY <1>0, <1>10, TickPace
<1>11. CASE SetClock
  BY <1>1, <1>11 DEF SetClock
<1>12. CASE Restart
  <2>1. pc'[j] \in {"new", "ended", "unread", "lost"}
    BY <1>12 DEF Restart, TypeOK
  <2>2. \A t \in Tokens : push'[j][t] \notin {"queued", "sent"}
    BY <1>0, <2>1 DEF Phase
  <2> QED BY <2>2, NoPace
<1>13. CASE UNCHANGED vars
  BY <1>1, <1>13
<1> QED BY <1>2, <1>3, <1>4, <1>5, <1>6, <1>7, <1>8, <1>9, <1>10, <1>11, <1>12, <1>13
        DEF Next, Notify

-----------------------------------------------------------------------------
(* The theorems.                                                           *)

\* All steps keep the invariant.
THEOREM Invariance == Spec => []IInv
<1>1. Init => IInv
  BY InitInv
<1>2. IInv /\ [Next]_vars => IInv'
  <2> SUFFICES ASSUME IInv, [Next]_vars PROVE IInv'
    OBVIOUS
  <2>1. TypeOK /\ \A i \in Incidents : Phase(i) /\ Pace(i)
    BY DEF IInv
  <2>2. TypeOK'
    BY <2>1, TypeStep
  <2>3. \A i \in Incidents : Phase(i)'
    BY <2>1, PhaseStep
  <2>4. \A i \in Incidents : Pace(i)'
    BY <2>1, <2>3, PaceStep
  <2> QED BY <2>2, <2>3, <2>4 DEF IInv
<1> QED BY <1>1, <1>2, PTL DEF Spec

\* The variables keep their types, and no task has more pushes under way than
\* the semaphore has slots.
THEOREM TypeCorrect == Spec => []TypeOK
<1>1. IInv => TypeOK
  BY DEF IInv
<1> QED BY <1>1, Invariance, PTL

\* A task that ends has tried every channel and, with a usable key, every
\* device that was registered all along.
THEOREM NobodyIsMissed == Spec => []EveryoneIsTold
<1>1. IInv => EveryoneIsTold
  <2> SUFFICES ASSUME IInv, NEW i \in Incidents, pc[i] = "ended"
      PROVE  /\ \A c \in Channels : post[i][c] = "tried"
             /\ ApnsConfigured /\ apns[i] # "failed" =>
                  \A t \in owed[i] : push[i][t] = "tried"
    BY DEF EveryoneIsTold
  <2>1. Phase(i) /\ owed[i] \subseteq Tokens
    BY DEF IInv, TypeOK
  <2> QED BY <2>1 DEF Phase
<1> QED BY <1>1, Invariance, PTL

\* However many devices there are and however slow pushes are, the token of a
\* push that is under way is younger than OldestToken, unless the clock was
\* ahead when the task got it: each round of the semaphore costs one longest
\* push at most, and there are no more than Rounds of them.
THEOREM NoTokenOutlasts == Spec => []TokenAgeBounded
<1>1. IInv => TokenAgeBounded
  <2> SUFFICES ASSUME IInv, NEW i \in Incidents, NEW t \in Tokens,
                      push[i][t] = "sent", ~ahead[i]
      PROVE  bearer[i] \in 0 .. (OldestToken - 1)
    BY DEF TokenAgeBounded
  <2>1. TypeOK /\ Phase(i) /\ Pace(i)
    BY DEF IInv
  <2>2. apns[i] = "pushing"
    BY <2>1 DEF Phase
  <2>3. PICK u \in Sent(i) : Before(i, since[i][u]) = Tried(i)
    <3>1. Sent(i) # {}
      BY DEF Sent
    <3> QED BY <2>1, <3>1, Oldest
  <2>4. u \in Tokens /\ push[i][u] = "sent"
    BY DEF Sent
  <2>5. /\ bearer[i] \in Int /\ bearer[i] >= 0
        /\ InTime(Tried(i), bearer[i] - since[i][u])
    BY <2>1, <2>2, <2>3, <2>4, AgeFacts DEF Pace, Ages
  <2>6. PICK r \in Nat : /\ r * Slots <= Cardinality(Tried(i))
                         /\ bearer[i] - since[i][u] <= Youngest + r * LongestPush
    BY <2>5 DEF InTime
  <2>7. since[i][u] \in 0 .. LongestPush
    BY <2>1, <2>4 DEF TypeOK
  <2>8. Cardinality(Tried(i)) < Cardinality(Tokens) /\ Cardinality(Tried(i)) \in Nat
    <3>1. Tried(i) \in SUBSET Tokens /\ u \notin Tried(i)
      BY <2>4 DEF Tried
    <3>2. Tried(i) # Tokens
      BY <2>4, <3>1
    <3>3. /\ Cardinality(Tried(i)) <= Cardinality(Tokens)
          /\ Cardinality(Tokens) # Cardinality(Tried(i))
      BY <3>1, <3>2, FS_Subset, NotificationsAssumption
    <3>4. Cardinality(Tokens) \in Nat
      BY FS_CardinalityType, NotificationsAssumption
    <3> QED BY <3>3, <3>4, PushSets
  <2>9. (r + 1) * LongestPush <= Rounds * LongestPush
    BY <2>6, <2>8, RoundsLeft
  <2>10. /\ (r + 1) * LongestPush = r * LongestPush + LongestPush
         /\ r * LongestPush \in Nat /\ Rounds * LongestPush \in Nat
    BY AgeFacts
  <2>11. bearer[i] < OldestToken
    BY <2>5, <2>6, <2>7, <2>9, <2>10, AgeFacts
  <2> QED BY <2>5, <2>11, AgeFacts
<1> QED BY <1>1, Invariance, PTL

=============================================================================
