------------------------ MODULE AlertIngestionProofs ------------------------
(***************************************************************************)
(* The safety of AlertIngestion, and that it implements AlertBook, for any *)
(* number of deliveries, payloads of any size, attempts and faults.  First *)
(* what the adapters make of a payload, then the inductive invariant, then *)
(* each step's entry in the book.                                          *)
(***************************************************************************)
EXTENDS AlertIngestion, FiniteSetTheorems, SequenceTheorems, TLAPS

-----------------------------------------------------------------------------
(* The adapters.                                                           *)

\* A list, as a value: what an adapter returns is one.
IsList(s) == Len(s) \in Nat /\ s = [n \in 1 .. Len(s) |-> s[n]]

\* A list that is not empty has a first element.
LEMMA SomeElement ==
  ASSUME NEW s, IsList(s), s # <<>>
  PROVE  Len(s) > 0
<1>1. Len(s) \in Nat /\ s = [n \in 1 .. Len(s) |-> s[n]]
  BY DEF IsList
<1>2. Len(s) # 0
  BY <1>1
<1> QED BY <1>1, <1>2

\* What every adapter makes of an alert: its key is made of its own fields.
WellNamed(x) ==
  LET source == x.key.source IN
  /\ x.key = [source |-> source, external_id |-> ExternalId(source, x.raw)]
  /\ source \in {"cloudwatch", "zabbix"} => x.raw.id # Absent
  /\ source = "cloudwatch" => x.raw.state = "firing"

\* The firing alerts of a list are finitely many.
LEMMA FiringFinite ==
  ASSUME NEW S, NEW raws \in Seq(S)
  PROVE  Cardinality(Firing(raws)) \in Nat
<1>1. IsFiniteSet(1 .. Len(raws))
  BY FS_Interval
<1>2. Firing(raws) \subseteq 1 .. Len(raws)
  BY DEF Firing
<1> QED BY <1>1, <1>2, FS_Subset, FS_CardinalityType

\* A list of one alert.
LEMMA OneAlert ==
  ASSUME NEW S, NEW s \in Seq(S), s # <<>>, Len(s) <= 1
  PROVE  Head(s) = s[1] /\ DOMAIN s = {1}
<1>1. Len(s) \in Nat
  OBVIOUS
<1>2. Len(s) # 0
  BY EmptySeq
<1>3. Len(s) = 1
  BY <1>1, <1>2
<1>4. DOMAIN s = 1 .. 1
  BY <1>3
<1>5. Head(s) = s[1]
  BY <1>3
<1> QED BY <1>4, <1>5

\* Normalize keeps a list a list.
LEMMA NormalizeList ==
  ASSUME NEW source, NEW kept, IsList(kept)
  PROVE  LET b == Normalize(source, kept) IN
         /\ IsList(b)
         /\ \A n \in DOMAIN b : n \in DOMAIN kept /\ b[n] = Normalized(source, kept[n])
<1>1. CASE \E n \in DOMAIN kept : kept[n].form = "malformed"
  BY <1>1 DEF Normalize, IsList
<1>2. CASE ~\E n \in DOMAIN kept : kept[n].form = "malformed"
  <2>1. Normalize(source, kept) = [n \in 1 .. Len(kept) |-> Normalized(source, kept[n])]
    BY <1>2 DEF Normalize, IsList
  <2> QED BY <2>1 DEF IsList
<1> QED BY <1>1, <1>2

\* The batch of a payload is a list of well-named alerts.
LEMMA BatchList ==
  ASSUME NEW s \in Scenarios, NEW d \in Deliveries
  PROVE  IsList(Batch(s[d])) /\ \A n \in DOMAIN Batch(s[d]) : WellNamed(Batch(s[d])[n])
<1> DEFINE p == s[d]
           raws == p.alerts
           b == Batch(p)
           good(c) == IsList(c) /\ \A n \in DOMAIN c : WellNamed(c[n])
<1>1. /\ raws \in Seq({raws[n] : n \in DOMAIN raws})
      /\ p.source # "grafana" => Len(raws) <= 1
      /\ p.source = "cloudwatch" =>
           \A n \in DOMAIN raws : raws[n].state \in {"firing", "resolved"}
  BY PayloadAssumption
<1>2. IsList(raws)
  BY <1>1 DEF IsList
<1>3. good(<<>>)
  BY DEF IsList
<1> HIDE DEF p, b, raws
<1>4. ASSUME raws # <<>>, p.source = "grafana" PROVE good(b)
  <2> DEFINE P == Firing(raws)
             kept == [k \in 1 .. Cardinality(P) |-> raws[Nth(P, k)]]
  <2>1. IsList(kept)
    BY <1>1, FiringFinite DEF IsList
  <2>2. b = Grafana(raws)
    BY <1>4 DEF Batch, b, raws
  <2>3. b \in {<<>>, Normalize("grafana", kept)}
    BY <2>2 DEF Grafana
  <2> HIDE DEF kept
  <2> QED BY <1>3, <2>1, <2>3, NormalizeList DEF WellNamed, Normalized
<1>5. ASSUME raws # <<>>, p.source # "grafana" PROVE good(b)
  <2>1. Head(raws) = raws[1] /\ DOMAIN raws = {1}
    BY <1>1, <1>5, OneAlert
  <2>2. \/ b = <<>>
        \/ /\ b = Normalize(p.source, raws)
           /\ p.source \in {"cloudwatch", "zabbix"} =>
                ~Resolved(raws[1]) /\ raws[1].id # Absent
    BY <1>5, <2>1 DEF Batch, b, raws, Generic, Sentry, CloudWatch, Zabbix
  <2> QED BY <1>1, <1>2, <1>3, <2>1, <2>2, NormalizeList
          DEF WellNamed, Normalized, Resolved
<1>6. raws = <<>> => b = <<>>
  BY DEF Batch, b, raws
<1> QED BY <1>3, <1>4, <1>5, <1>6 DEF b, p

\* A part that is given comes last, one that is missing is not there.
LEMMA JoinPart ==
  ASSUME NEW S, NEW s \in Seq(S), NEW y \in S
  PROVE  /\ s \o Part(y) \in Seq(S)
         /\ Len(s \o Part(y)) = Len(s) + (IF y = Absent THEN 0 ELSE 1)
         /\ \A i \in 1 .. Len(s) : (s \o Part(y))[i] = s[i]
         /\ y # Absent => (s \o Part(y))[Len(s) + 1] = y
<1>1. CASE y = Absent
  <2>1. Part(y) = <<>>
    BY <1>1 DEF Part
  <2> QED BY <1>1, <2>1, ConcatEmptySeq
<1>2. CASE y # Absent
  <2>1. Part(y) = <<y>>
    BY <1>2 DEF Part
  <2>2. <<y>> \in Seq(S) /\ Len(<<y>>) = 1 /\ <<y>>[1] = y
    OBVIOUS
  <2> QED BY <1>2, <2>1, <2>2, ConcatProperties
<1> QED BY <1>1, <1>2

\* Joining what is given forgets nothing about an alert with an identifier.
LEMMA PartsOf ==
  ASSUME NEW x, x # Absent, NEW y, NEW z
  PROVE  LET two == Part(x) \o Part(y)
             three == two \o Part(z)
             n == IF y = Absent THEN 1 ELSE 2
         IN  /\ Len(Part(x)) = 1 /\ Part(x)[1] = x
             /\ Len(two) = n /\ two[1] = x /\ (y # Absent => two[2] = y)
             /\ z # Absent =>
                  /\ Len(three) = n + 1
                  /\ three[1] = x /\ (y # Absent => three[2] = y)
<1> DEFINE S == {x, y, z}
<1>1. Part(x) \in Seq(S) /\ Len(Part(x)) = 1 /\ Part(x)[1] = x
  <2>1. <<x>> \in Seq(S) /\ Len(<<x>>) = 1 /\ <<x>>[1] = x
    OBVIOUS
  <2> QED BY <2>1 DEF Part
<1>2. z \in S /\ y \in S
  OBVIOUS
<1> DEFINE two == Part(x) \o Part(y)
<1> HIDE DEF S
<1>3. /\ two \in Seq(S) /\ Len(two) = (IF y = Absent THEN 1 ELSE 2)
      /\ two[1] = x /\ (y # Absent => two[2] = y)
  <2>1. /\ two \in Seq(S)
        /\ Len(two) = Len(Part(x)) + (IF y = Absent THEN 0 ELSE 1)
        /\ \A i \in 1 .. Len(Part(x)) : two[i] = Part(x)[i]
        /\ y # Absent => two[Len(Part(x)) + 1] = y
    BY <1>1, <1>2, JoinPart
  <2> HIDE DEF two
  <2>2. 1 \in 1 .. Len(Part(x)) /\ Len(Part(x)) + 1 = 2
    BY <1>1
  <2> QED BY <1>1, <2>1, <2>2
<1> HIDE DEF two
<1>4. z # Absent => /\ Len(two \o Part(z)) = Len(two) + 1
                    /\ (two \o Part(z))[1] = x
                    /\ y # Absent => (two \o Part(z))[2] = y
  <2>1. two \in Seq(S) /\ z \in S
    BY <1>2, <1>3
  <2>2. /\ Len(two \o Part(z)) = Len(two) + (IF z = Absent THEN 0 ELSE 1)
        /\ \A i \in 1 .. Len(two) : (two \o Part(z))[i] = two[i]
    BY <2>1, JoinPart
  <2>3. 1 \in 1 .. Len(two) /\ (y # Absent => 2 \in 1 .. Len(two))
    BY <1>3
  <2>4. Len(two) \in Nat
    BY <1>3
  <2> QED BY <1>3, <2>2, <2>3, <2>4
<1> QED BY <1>1, <1>3, <1>4 DEF two

\* What is left of an alert's identifier and time in its external_id.
Shows(parts, source, raw) ==
  /\ Len(parts) \in Nat \ {0} /\ parts[1] = raw.id
  /\ source = "grafana" => Len(parts) = (IF raw.since # Absent THEN 2 ELSE 1)
  /\ source = "cloudwatch" => Len(parts) = (IF raw.since # Absent THEN 3 ELSE 2)
  /\ source \in Timed /\ raw.since # Absent => parts[2] = raw.since

\* The parts of an alert that has an identifier show it.
LEMMA PartsKnown ==
  ASSUME NEW source, NEW raw, raw.id # Absent,
         source = "cloudwatch" => raw.state # Absent
  PROVE  Shows(Parts(source, raw), source, raw)
<1> SUFFICES
      LET p == Parts(source, raw)  dated == raw.since # Absent IN
         /\ Len(p) \in Nat \ {0} /\ p[1] = raw.id
         /\ source = "grafana" => Len(p) = (IF dated THEN 2 ELSE 1)
         /\ source = "cloudwatch" => Len(p) = (IF dated THEN 3 ELSE 2)
         /\ source \in Timed /\ dated => p[2] = raw.since
  BY DEF Shows
<1>1. CASE source = "grafana"
  <2>1. Parts(source, raw) = Part(raw.id) \o Part(raw.since)
    BY <1>1 DEF Parts
  <2>2. LET two == Part(raw.id) \o Part(raw.since) IN
        /\ Len(two) = (IF raw.since = Absent THEN 1 ELSE 2) /\ two[1] = raw.id
        /\ raw.since # Absent => two[2] = raw.since
    <3> DEFINE z == raw.state
    <3> QED BY PartsOf
  <2> DEFINE p == Parts(source, raw)
  <2>3. /\ Len(p) = (IF raw.since = Absent THEN 1 ELSE 2) /\ p[1] = raw.id
        /\ raw.since # Absent => p[2] = raw.since
    BY <2>1, <2>2
  <2> HIDE DEF p
  <2>4. Len(p) \in Nat \ {0}
    BY <2>3
  <2> QED BY <1>1, <2>3, <2>4 DEF p
<1>2. CASE source = "cloudwatch"
  <2>1. Parts(source, raw) = Part(raw.id) \o Part(raw.since) \o Part(raw.state)
    BY <1>2 DEF Parts
  <2>2. LET three == Part(raw.id) \o Part(raw.since) \o Part(raw.state) IN
        /\ Len(three) = (IF raw.since = Absent THEN 2 ELSE 3) /\ three[1] = raw.id
        /\ raw.since # Absent => three[2] = raw.since
    BY <1>2, PartsOf
  <2> DEFINE p == Parts(source, raw)
  <2>3. /\ Len(p) = (IF raw.since = Absent THEN 2 ELSE 3) /\ p[1] = raw.id
        /\ raw.since # Absent => p[2] = raw.since
    BY <2>1, <2>2
  <2> HIDE DEF p
  <2>4. Len(p) \in Nat \ {0}
    BY <2>3
  <2> QED BY <1>2, <2>3, <2>4 DEF p
<1>3. CASE source \notin Timed
  <2>1. Parts(source, raw) = Part(raw.id)
    BY <1>3 DEF Parts, Timed
  <2> QED BY <1>3, <2>1, PartsOf DEF Timed
<1> QED BY <1>1, <1>2, <1>3 DEF Timed

\* The key of an alert that has an identifier is made of it and, from Grafana
\* and CloudWatch, of its time.
LEMMA KeyOfNamed ==
  ASSUME NEW x, NEW y, WellNamed(x), WellNamed(y),
         x.raw.id # Absent, y.raw.id # Absent, x.key.source = y.key.source
  PROVE  x.key = y.key <=>
           /\ x.raw.id = y.raw.id
           /\ x.key.source \in Timed => x.raw.since = y.raw.since
<1> DEFINE source == x.key.source
           p == Parts(source, x.raw)
           q == Parts(source, y.raw)
<1>1. source = "cloudwatch" => /\ x.raw.state = y.raw.state
                               /\ x.raw.state # Absent
  BY SourcesAssumption DEF WellNamed
<1>2. Shows(p, source, x.raw)
  BY <1>1, PartsKnown
<1>3. Shows(q, source, y.raw)
  BY <1>1, PartsKnown
<1>4. p # <<>> /\ q # <<>>
  <2> HIDE DEF p, q
  <2> QED BY <1>2, <1>3 DEF Shows
<1>5. /\ x.key = [source |-> source, external_id |-> [parts |-> p, hash |-> <<>>]]
      /\ y.key = [source |-> source, external_id |-> [parts |-> q, hash |-> <<>>]]
  BY <1>4 DEF WellNamed, ExternalId
<1>6. ASSUME p = q
      PROVE  /\ x.raw.id = y.raw.id
             /\ source \in Timed => x.raw.since = y.raw.since
  <2> HIDE DEF p, q, source
  <2>1. x.raw.id = y.raw.id
    BY <1>2, <1>3, <1>6 DEF Shows
  <2>2. ASSUME source \in Timed PROVE x.raw.since = y.raw.since
    <3>1. x.raw.since # Absent <=> y.raw.since # Absent
      <4>1. CASE source = "grafana"
        <5>1. Len(p) = IF x.raw.since # Absent THEN 2 ELSE 1
          BY <1>2, <4>1 DEF Shows
        <5>2. Len(q) = IF y.raw.since # Absent THEN 2 ELSE 1
          BY <1>3, <4>1 DEF Shows
        <5> QED BY <1>6, <5>1, <5>2
      <4>2. CASE source = "cloudwatch"
        <5>1. Len(p) = IF x.raw.since # Absent THEN 3 ELSE 2
          BY <1>2, <4>2 DEF Shows
        <5>2. Len(q) = IF y.raw.since # Absent THEN 3 ELSE 2
          BY <1>3, <4>2 DEF Shows
        <5> QED BY <1>6, <5>1, <5>2
      <4> QED BY <2>2, <4>1, <4>2 DEF Timed
    <3> QED BY <1>2, <1>3, <1>6, <2>2, <3>1 DEF Shows
  <2> QED BY <2>1, <2>2
<1>7. ASSUME x.raw.id = y.raw.id,
             source \in Timed => x.raw.since = y.raw.since
      PROVE  p = q
  BY <1>1, <1>7 DEF Parts, Timed
<1> HIDE DEF p, q, source
<1> QED BY <1>5, <1>6, <1>7 DEF source

\* The key of an alert nobody identified is a hash of its text.
LEMMA KeyOfUnnamed ==
  ASSUME NEW x, WellNamed(x), x.raw.id = Absent, ~Nameless(x)
  PROVE  x.key = [source |-> x.key.source,
                  external_id |-> [parts |-> <<>>, hash |-> <<x.raw>>]]
BY DEF WellNamed, Nameless, ExternalId

\* The key of an alert that has an identifier contains no hash.
LEMMA KeyHasNoHash ==
  ASSUME NEW x, WellNamed(x), x.raw.id # Absent
  PROVE  x.key.external_id.hash = <<>>
<1>1. x.key.source = "cloudwatch" => x.raw.state # Absent
  BY SourcesAssumption DEF WellNamed
<1>2. Len(Parts(x.key.source, x.raw)) # 0
  BY <1>1, PartsKnown DEF Shows
<1>3. Parts(x.key.source, x.raw) # <<>>
  BY <1>2
<1> QED BY <1>3 DEF WellNamed, ExternalId

\* But for alerts with nothing but a time, the key tells occurrences apart and
\* recognises each of them again.
LEMMA KeysAreOccurrences ==
  ASSUME NEW x, NEW y, WellNamed(x), WellNamed(y), ~Nameless(x), ~Nameless(y)
  PROVE  Occurrence(x) = Occurrence(y) <=> x.key = y.key
<1>1. CASE x.raw.id # Absent /\ y.raw.id # Absent
  <2>1. Occurrence(x) = Occurrence(y) <=>
          /\ x.key.source = y.key.source /\ x.raw.id = y.raw.id
          /\ x.key.source \in Timed => x.raw.since = y.raw.since
    BY <1>1 DEF Occurrence
  <2> QED BY <1>1, <2>1, KeyOfNamed
<1>2. CASE x.raw.id = Absent /\ y.raw.id = Absent
  <2>1. Occurrence(x) = Occurrence(y) <=>
          x.key.source = y.key.source /\ x.raw = y.raw
    BY <1>2 DEF Occurrence
  <2>2. x.key = y.key <=> x.key.source = y.key.source /\ x.raw = y.raw
    <3>1. ASSUME NEW z \in {x, y}
          PROVE  z.key = [source |-> z.key.source,
                          external_id |-> [parts |-> <<>>, hash |-> <<z.raw>>]]
      BY <1>2, KeyOfUnnamed
    <3>2. x.key.external_id.hash = <<x.raw>> /\ y.key.external_id.hash = <<y.raw>>
      BY <3>1
    <3> QED BY <3>1, <3>2
  <2> QED BY <2>1, <2>2
<1>3. ASSUME NEW u \in {x, y}, NEW v \in {x, y}, u.raw.id = Absent, v.raw.id # Absent
      PROVE  Occurrence(u) # Occurrence(v) /\ u.key # v.key
  <2>1. Occurrence(u).id = Absent /\ Occurrence(v).id = v.raw.id
    BY <1>3 DEF Occurrence
  <2>2. u.key.external_id.hash = <<u.raw>>
    <3>1. u.key = [source |-> u.key.source,
                   external_id |-> [parts |-> <<>>, hash |-> <<u.raw>>]]
      BY <1>3, KeyOfUnnamed
    <3> QED BY <3>1
  <2>3. v.key.external_id.hash = <<>>
    BY <1>3, KeyHasNoHash
  <2> QED BY <1>3, <2>1, <2>2, <2>3
<1> QED BY <1>1, <1>2, <1>3

-----------------------------------------------------------------------------
(* The inductive invariant.                                                *)

\* An incident's name tells the alert that opened it, and thereby its row.
KeyOf(i) == batch[i[1]][i[3]].key
Entry(i) == [key |-> KeyOf(i), incident |-> i]
Named(i) == i \in Id /\ i[3] \in 1 .. Len(batch[i[1]])

Pending(d) == {r.incident : r \in mine[d]}

\* Each incident has its alert.  One of the attempt under way is committed.
Booked ==
  /\ alerts = {Entry(i) : i \in incidents}
  /\ incidents \cap gone = {}
  /\ \A i \in incidents \cup gone :
       /\ Named(i)
       /\ i[2] <= attempt[i[1]]
       /\ i[2] = attempt[i[1]] =>
            pc[i[1]] \in {"schedule", "respond", "answered", "unsure", "unqueued", "crashed"}

\* A transaction has inserted what it is going to call new, others nothing.
Opened(d) ==
  mine[d] = IF InTransaction(d) THEN {Entry(i) : i \in Created(d)} ELSE {}

\* Results answer the alerts one by one, with an incident of the alert's key.
Answered(d) ==
  /\ pc[d] \in {"select", "insert", "reselect", "load"} =>
       Len(results[d]) < Len(batch[d])
  /\ pc[d] = "commit" \/ Committed(d) => Len(results[d]) = Len(batch[d])
  /\ pc[d] \in {"sent", "invalid", "error", "unsure", "unqueued", "crashed"} => results[d] = <<>>
  /\ \A n \in 1 .. Len(results[d]) :
       LET r == results[d][n] IN
       /\ ~r.duplicate <=> r.incident = <<d, attempt[d], n>>
       /\ KeyOf(r.incident) = batch[d][n].key
       /\ r.incident \in incidents \cup gone \cup Pending(d)

\* What the SELECT has told is still true of the alert, if not of its incident.
Looked(d) ==
  /\ pc[d] = "load" => /\ found[d] \in incidents \cup gone \cup Pending(d)
                       /\ KeyOf(found[d]) = Alert(d).key
  /\ pc[d] \in {"insert", "reselect"} => \A r \in mine[d] : r.key # Alert(d).key

\* The tasks of d have started in order up to those that wait, or were lost.
InOrder(d) ==
  \A i \in Created(d) :
    /\ i \in tasks[d] => <<i, d>> \notin notified
    /\ i \notin tasks[d] /\ d \notin lost => <<i, d>> \in notified
    /\ <<i, d>> \in notified =>
         \A k \in Created(d) : k[3] <= i[3] => <<k, d>> \in notified

\* Tasks are of new incidents, and all of them when the receipt is sent; none
\* starts before that, and those that are lost do not wait.
Tasked(d) ==
  /\ tasks[d] \subseteq Created(d)
  /\ pc[d] \notin {"schedule", "respond", "answered"} => tasks[d] = {}
  /\ pc[d] \in {"schedule", "respond"} => \A i \in Created(d) : <<i, d>> \notin notified
  /\ pc[d] = "respond" => tasks[d] = Created(d)
  /\ pc[d] = "answered" => InOrder(d)
  /\ d \in lost => pc[d] = "answered" /\ tasks[d] = {}

Handling(d) == Opened(d) /\ Answered(d) /\ Looked(d) /\ Tasked(d)

\* A key has one row, committed or not.
OneRow ==
  \A d, e \in Deliveries : \A r \in Visible(d), s \in Visible(e) :
    r.key = s.key => r = s

\* Whoever was told heard of a committed incident from its own delivery.
Heard == \A x \in notified : x = <<x[1], x[1][1]>> /\ x[1] \in incidents \cup gone

IInv ==
  /\ TypeOK
  /\ Booked
  /\ OneRow
  /\ Heard
  /\ \A d \in Deliveries : Handling(d)

-----------------------------------------------------------------------------
(* What the invariant says of lists and of the incidents a batch creates.  *)

USE DEF vars, store, session

\* Batches are lists, of alerts that are well named.
LEMMA Lists ==
  ASSUME TypeOK, NEW d \in Deliveries
  PROVE  /\ IsList(batch[d])
         /\ \A n \in DOMAIN batch[d] : WellNamed(batch[d][n])
<1>1. PICK s \in Scenarios, e \in Deliveries : batch[d] = Batch(s[e])
  BY DEF TypeOK, Batches
<1> QED BY <1>1, BatchList

\* What has no results has created nothing.
LEMMA NothingCreated == \A d \in Deliveries : results[d] = <<>> => Created(d) = {}
BY DEF Created

\* The incidents a batch has created are named by it.
LEMMA CreatedNames ==
  ASSUME IInv, NEW d \in Deliveries
  PROVE  Created(d) = {<<d, attempt[d], n>> :
                         n \in {m \in 1 .. Len(results[d]) : ~results[d][m].duplicate}}
BY DEF IInv, Handling, Created, Answered

\* They are incidents of alerts of the batch that are on record, or about to be.
LEMMA CreatedOnRecord ==
  ASSUME IInv, NEW d \in Deliveries, NEW i \in Created(d)
  PROVE  /\ i \in Id /\ i[1] = d /\ i[2] = attempt[d] /\ i[3] \in 1 .. Len(results[d])
         /\ i[3] \in 1 .. Len(batch[d])
         /\ i \in incidents \cup gone \cup Pending(d)
<1>1. PICK n \in 1 .. Len(results[d]) : ~results[d][n].duplicate /\ i = results[d][n].incident
  BY DEF Created
<1>2. results[d] \in Seq(Receipt) /\ Len(results[d]) <= Len(batch[d])
  BY DEF IInv, TypeOK
<1>3. i = <<d, attempt[d], n>> /\ i \in incidents \cup gone \cup Pending(d)
  BY <1>1 DEF IInv, Handling, Answered
<1>4. results[d][n] \in Receipt
  BY <1>2
<1>5. i \in Id
  BY <1>1, <1>4 DEF Receipt
<1>6. Len(batch[d]) \in Nat /\ Len(results[d]) \in Nat
  BY <1>2, Lists DEF IInv, IsList
<1> QED BY <1>2, <1>3, <1>5, <1>6

\* Recording an alert appends its result.
LEMMA RecordStep ==
  ASSUME TypeOK, NEW d \in Deliveries, NEW i \in Id, NEW dup \in BOOLEAN,
         Record(d, i, dup)
  PROVE  /\ results' \in [Deliveries -> Seq(Receipt)]
         /\ \A e \in Deliveries \ {d} : results'[e] = results[e]
         /\ Len(results'[d]) = Position(d)
         /\ \A n \in 1 .. Len(results[d]) : results'[d][n] = results[d][n]
         /\ results'[d][Position(d)] = [incident |-> i, duplicate |-> dup]
         /\ dup => Created(d)' = Created(d)
         /\ ~dup => Created(d)' = Created(d) \cup {i}
<1> DEFINE new == [incident |-> i, duplicate |-> dup]
<1>1. results[d] \in Seq(Receipt) /\ new \in Receipt
  BY DEF TypeOK, Receipt
<1>2. results' = [results EXCEPT ![d] = Append(results[d], new)]
  BY DEF Record
<1>3. /\ Append(results[d], new) \in Seq(Receipt)
      /\ Len(Append(results[d], new)) = Len(results[d]) + 1
      /\ \A n \in 1 .. Len(results[d]) : Append(results[d], new)[n] = results[d][n]
      /\ Append(results[d], new)[Len(results[d]) + 1] = new
  BY <1>1, AppendProperties
<1>4. /\ results' \in [Deliveries -> Seq(Receipt)]
      /\ \A e \in Deliveries \ {d} : results'[e] = results[e]
      /\ results'[d] = Append(results[d], new)
  BY <1>2, <1>3 DEF TypeOK
<1>5. Created(d)' = Created(d) \cup (IF dup THEN {} ELSE {i})
  <2>1. Len(results[d]) \in Nat /\ Len(results'[d]) = Len(results[d]) + 1
    BY <1>1, <1>3, <1>4
  <2>2. \A n \in 1 .. Len(results[d]) : results'[d][n] = results[d][n]
    BY <1>3, <1>4
  <2>3. results'[d][Len(results[d]) + 1] = new
    BY <1>3, <1>4
  <2>4. new.incident = i /\ new.duplicate = dup
    OBVIOUS
  <2>5. 1 .. Len(results'[d]) = 1 .. Len(results[d]) \cup {Len(results[d]) + 1}
    BY <2>1
  <2> HIDE DEF new
  <2> DEFINE old == {m \in 1 .. Len(results[d]) : ~results[d][m].duplicate}
             now == {m \in 1 .. Len(results'[d]) : ~results'[d][m].duplicate}
  <2>6. now = old \cup (IF dup THEN {} ELSE {Len(results[d]) + 1})
    BY <2>1, <2>2, <2>3, <2>4, <2>5
  <2>7. \A m \in old : results'[d][m] = results[d][m]
    BY <2>2
  <2>8. Created(d) = {results[d][n].incident : n \in old}
    BY DEF Created
  <2>9. Created(d)' = {results'[d][n].incident : n \in now}
    BY DEF Created
  <2> HIDE DEF old, now
  <2>10. Created(d)' \subseteq Created(d) \cup (IF dup THEN {} ELSE {i})
    BY <2>3, <2>4, <2>6, <2>7, <2>8, <2>9
  <2>11. Created(d) \subseteq Created(d)'
    BY <2>6, <2>7, <2>8, <2>9
  <2>12. ~dup => i \in Created(d)'
    BY <2>3, <2>4, <2>6, <2>9
  <2> QED BY <2>10, <2>11, <2>12
<1> QED BY <1>3, <1>4, <1>5 DEF Position
-----------------------------------------------------------------------------
(* Steps: what one delivery's handler does leaves the others alone.        *)

Same(e) ==
  /\ pc'[e] = pc[e] /\ attempt'[e] = attempt[e]
  /\ found'[e] = found[e] /\ mine'[e] = mine[e]
  /\ results'[e] = results[e] /\ tasks'[e] = tasks[e]
  /\ \A i : <<i, e>> \in notified' <=> <<i, e>> \in notified
  /\ e \in lost' <=> e \in lost

\* Incidents may be committed or deleted, but not forgotten.
LEMMA SameHandling ==
  ASSUME NEW e \in Deliveries, Handling(e), Same(e), batch' = batch,
         incidents \cup gone \subseteq incidents' \cup gone'
  PROVE  Handling(e)'
<1>1. Created(e)' = Created(e)
  BY DEF Same, Created
<1>2. Pending(e)' = Pending(e)
  BY DEF Same, Pending
<1>3. (InTransaction(e)' <=> InTransaction(e)) /\ (Committed(e)' <=> Committed(e))
  BY DEF Same, InTransaction, Committed
<1>4. Alert(e)' = Alert(e) /\ \A i : KeyOf(i)' = KeyOf(i) /\ Entry(i)' = Entry(i)
  BY DEF Same, Alert, Position, KeyOf, Entry
<1>5. Opened(e)'
  BY <1>1, <1>3, <1>4 DEF Handling, Opened, Same
<1>6. Answered(e)'
  BY <1>2, <1>3, <1>4 DEF Handling, Answered, Same
<1>7. Looked(e)'
  BY <1>2, <1>4 DEF Handling, Looked, Same
<1>8. Tasked(e)'
  BY <1>1 DEF Handling, Tasked, InOrder, Same
<1> QED BY <1>5, <1>6, <1>7, <1>8 DEF Handling

\* The handler raises.
LEMMA LeaveStep ==
  ASSUME IInv, NEW d \in Deliveries, NEW l \in {"invalid", "error", "unqueued", "crashed"},
         Leave(d, l), pc[d] \notin Final,
         l \in {"invalid", "error"} => pc[d] \notin {"schedule", "respond"}
  PROVE  IInv'
<1> USE DEF IInv
<1>1. /\ UNCHANGED <<sqlite, batch, incidents, alerts, gone, attempt, notified, lost>>
      /\ pc' = [pc EXCEPT ![d] = l]
      /\ mine' = [mine EXCEPT ![d] = {}]
      /\ found' = [found EXCEPT ![d] = Nobody]
      /\ results' = [results EXCEPT ![d] = <<>>]
      /\ tasks' = [tasks EXCEPT ![d] = {}]
  BY DEF Leave, Go
<1>2. /\ pc'[d] = l /\ mine'[d] = {} /\ found'[d] = Nobody
      /\ results'[d] = <<>> /\ tasks'[d] = {}
  BY <1>1 DEF TypeOK
<1>3. \A e \in Deliveries \ {d} : Same(e)
  BY <1>1 DEF TypeOK, Same
<1>4. TypeOK'
  <2>1. results' \in [Deliveries -> Seq(Receipt)]
    BY <1>1 DEF TypeOK
  <2>2. \A e \in Deliveries : Len(results'[e]) <= Len(batch'[e])
    BY <1>1, <1>2, <1>3, Lists DEF TypeOK, Same, IsList
  <2>3. DOMAIN mine' = Deliveries /\ \A e \in Deliveries : \A r \in mine'[e] : r.incident \in Id
    BY <1>1 DEF TypeOK
  <2> QED BY <1>1, <2>1, <2>2, <2>3 DEF TypeOK, Final
<1>5. Booked'
  <2>1. \A i \in incidents \cup gone :
          i[2] = attempt[i[1]] =>
            pc'[i[1]] \in {"schedule", "respond", "answered", "unsure", "unqueued", "crashed"}
    BY <1>1, <1>2, <1>3 DEF Booked, Named, Id, Same, Final
  <2> QED BY <1>1, <2>1 DEF Booked, Entry, KeyOf, Named
<1>6. OneRow'
  BY <1>1, <1>2, <1>3 DEF OneRow, Visible, Same
<1>7. Heard'
  BY <1>1 DEF Heard
<1>8. Handling(d)'
  <2>1. Created(d)' = {} /\ ~InTransaction(d)' /\ ~Committed(d)'
    BY <1>2 DEF Created, InTransaction, Committed
  <2>2. d \notin lost'
    BY <1>1 DEF Handling, Tasked, Final
  <2> QED BY <1>2, <2>1, <2>2 DEF Handling, Opened, Answered, Looked, Tasked
<1>9. \A e \in Deliveries \ {d} : Handling(e)'
  BY <1>1, <1>3, SameHandling
<1> QED BY <1>4, <1>5, <1>6, <1>7, <1>8, <1>9

\* The handler goes on without touching any data.
LEMMA MoveStep ==
  ASSUME IInv, NEW d \in Deliveries, NEW l \in {"select", "insert", "reselect", "respond"},
         Go(d, l), pc[d] \in {"sent", "select", "insert", "schedule"},
         UNCHANGED <<sqlite, batch, store, attempt, session, tasks, notified, lost>>,
         l = "respond" <=> pc[d] = "schedule",
         Handling(d)'
  PROVE  IInv'
<1> USE DEF IInv
<1>1. pc' = [pc EXCEPT ![d] = l] /\ pc'[d] = l
  BY DEF Go, TypeOK
<1>2. \A e \in Deliveries \ {d} : Same(e)
  BY <1>1 DEF TypeOK, Same
<1>3. TypeOK'
  BY <1>1 DEF TypeOK
<1>4. Booked'
  <2>1. \A i \in incidents \cup gone :
          i[2] = attempt[i[1]] =>
            pc'[i[1]] \in {"schedule", "respond", "answered", "unsure", "unqueued", "crashed"}
    BY <1>1, <1>2 DEF Booked, Named, Id, Same
  <2> QED BY <2>1 DEF Booked, Entry, KeyOf, Named
<1>5. OneRow' /\ Heard'
  BY DEF OneRow, Visible, Heard
<1>6. \A e \in Deliveries \ {d} : Handling(e)'
  BY <1>2, SameHandling
<1> QED BY <1>3, <1>4, <1>5, <1>6

\* What does not change with pc alone.
LEMMA MoveKeeps ==
  ASSUME NEW d \in Deliveries,
         UNCHANGED <<sqlite, batch, store, attempt, session, tasks, notified, lost>>
  PROVE  /\ Created(d)' = Created(d) /\ Pending(d)' = Pending(d) /\ Alert(d)' = Alert(d)
         /\ \A i : KeyOf(i)' = KeyOf(i) /\ Entry(i)' = Entry(i)
BY DEF Created, Pending, Alert, Position, KeyOf, Entry

\* The transaction begins.
LEMMA BeginStep == ASSUME IInv, NEW d \in Deliveries, Begin(d) PROVE IInv'
<1>1. /\ pc[d] = "sent" /\ Go(d, "select") /\ batch[d] # <<>>
      /\ UNCHANGED <<sqlite, batch, store, attempt, session, tasks, notified, lost>>
  BY DEF Begin
<1>2. pc'[d] = "select"
  BY <1>1 DEF IInv, TypeOK, Go
<1>3. Handling(d)
  BY DEF IInv
<1>4. results[d] = <<>> /\ Created(d) = {} /\ mine[d] = {} /\ tasks[d] = {} /\ d \notin lost
  BY <1>1, <1>3, NothingCreated DEF Handling, Answered, Opened, Tasked, InTransaction
<1>5. Len(batch[d]) > 0
  BY <1>1, Lists, SomeElement DEF IInv
<1>6. Handling(d)'
  BY <1>1, <1>2, <1>4, <1>5, MoveKeeps
     DEF Handling, Opened, Answered, Looked, Tasked, InTransaction, Committed
<1> QED BY <1>1, <1>6, MoveStep

\* The key is new.
LEMMA LookupNothingStep == ASSUME IInv, NEW d \in Deliveries, LookupNothing(d) PROVE IInv'
<1>1. /\ pc[d] = "select" /\ Go(d, "insert") /\ Unknown(d)
      /\ UNCHANGED <<sqlite, batch, store, attempt, session, tasks, notified, lost>>
  BY DEF LookupNothing
<1>2. pc'[d] = "insert"
  BY <1>1 DEF IInv, TypeOK, Go
<1>3. Handling(d)
  BY DEF IInv
<1>4. \A r \in mine[d] : r.key # Alert(d).key
  BY <1>1 DEF Unknown, Visible
<1>5. Handling(d)'
  BY <1>1, <1>2, <1>3, <1>4, MoveKeeps
     DEF Handling, Opened, Answered, Looked, Tasked, InTransaction, Committed
<1> QED BY <1>1, <1>5, MoveStep

\* The key was new.
LEMMA InsertConflictsStep ==
  ASSUME IInv, NEW d \in Deliveries, InsertConflicts(d) PROVE IInv'
<1>1. /\ pc[d] = "insert" /\ Go(d, "reselect")
      /\ UNCHANGED <<sqlite, batch, store, attempt, session, tasks, notified, lost>>
  BY DEF InsertConflicts
<1>2. pc'[d] = "reselect"
  BY <1>1 DEF IInv, TypeOK, Go
<1>3. Handling(d)
  BY DEF IInv
<1>4. Handling(d)'
  BY <1>1, <1>2, <1>3, MoveKeeps
     DEF Handling, Opened, Answered, Looked, Tasked, InTransaction, Committed
<1> QED BY <1>1, <1>4, MoveStep

\* Every new incident has its task.
LEMMA ScheduledStep == ASSUME IInv, NEW d \in Deliveries, Scheduled(d) PROVE IInv'
<1>1. /\ pc[d] = "schedule" /\ Go(d, "respond") /\ Left(d) = {}
      /\ UNCHANGED <<sqlite, batch, store, attempt, session, tasks, notified, lost>>
  BY DEF Scheduled
<1>2. pc'[d] = "respond"
  BY <1>1 DEF IInv, TypeOK, Go
<1>3. Handling(d)
  BY DEF IInv
<1>4. tasks[d] = Created(d)
  BY <1>1, <1>3 DEF Handling, Tasked, Left
<1>5. Handling(d)'
  BY <1>1, <1>2, <1>3, <1>4, MoveKeeps
     DEF Handling, Opened, Answered, Looked, Tasked, InTransaction, Committed
<1> QED BY <1>1, <1>5, MoveStep

\* The key has a row, and the incident's name is read from it.
LEMMA LookupStep == ASSUME IInv, NEW d \in Deliveries, Lookup(d) PROVE IInv'
<1> USE DEF IInv
<1>1. PICK r \in Visible(d) : r.key = Alert(d).key /\ found' = [found EXCEPT ![d] = r.incident]
  BY DEF Lookup
<1>2. /\ pc[d] \in {"select", "reselect"} /\ pc' = [pc EXCEPT ![d] = "load"]
      /\ UNCHANGED <<sqlite, batch, store, attempt, mine, results, tasks, notified, lost>>
  BY DEF Lookup, Go
<1>3. /\ pc'[d] = "load" /\ found'[d] = r.incident
      /\ \A e \in Deliveries \ {d} : Same(e)
  BY <1>1, <1>2 DEF TypeOK, Same
<1>4. Handling(d)
  OBVIOUS
<1>5. r.incident \in incidents \cup Pending(d) /\ r.incident \in Id /\ r = Entry(r.incident)
  <2>1. CASE r \in alerts
    BY <2>1 DEF Booked, Entry, TypeOK
  <2>2. CASE r \in mine[d]
    BY <2>2, <1>4 DEF Handling, Opened, Entry, Pending, TypeOK
  <2> QED BY <2>1, <2>2 DEF Visible
<1>6. TypeOK'
  BY <1>1, <1>2, <1>5 DEF TypeOK
<1>7. Booked'
  <2>1. \A i \in incidents \cup gone :
          i[2] = attempt[i[1]] =>
            pc'[i[1]] \in {"schedule", "respond", "answered", "unsure", "unqueued", "crashed"}
    BY <1>2, <1>3 DEF Booked, Named, Id, Same
  <2> QED BY <1>2, <2>1 DEF Booked, Entry, KeyOf, Named
<1>8. OneRow' /\ Heard'
  BY <1>2 DEF OneRow, Visible, Heard
<1>9. KeyOf(r.incident) = Alert(d).key
  BY <1>1, <1>5 DEF Entry
<1>10. /\ Created(d)' = Created(d) /\ Pending(d)' = Pending(d) /\ Alert(d)' = Alert(d)
       /\ \A i : KeyOf(i)' = KeyOf(i) /\ Entry(i)' = Entry(i)
  BY <1>2 DEF Created, Pending, Alert, Position, KeyOf, Entry
<1>11. Handling(d)'
  <2>1. Opened(d)'
    BY <1>2, <1>3, <1>4, <1>10 DEF Handling, Opened, InTransaction
  <2>2. Answered(d)'
    BY <1>2, <1>3, <1>4, <1>10 DEF Handling, Answered, Committed
  <2>3. Looked(d)'
    BY <1>3, <1>5, <1>9, <1>10, <1>2 DEF Looked
  <2>4. Tasked(d)'
    BY <1>2, <1>3, <1>4, <1>10 DEF Handling, Tasked
  <2> QED BY <2>1, <2>2, <2>3, <2>4 DEF Handling
<1>12. \A e \in Deliveries \ {d} : Handling(e)'
  BY <1>2, <1>3, SameHandling
<1> QED BY <1>6, <1>7, <1>8, <1>11, <1>12

\* What a transaction has inserted is what it calls new.
LEMMA PendingCreated ==
  ASSUME IInv, NEW d \in Deliveries, InTransaction(d)
  PROVE  /\ mine[d] = {Entry(i) : i \in Created(d)}
         /\ Pending(d) = Created(d)
         /\ \A i \in Created(d) : i \notin incidents \cup gone
<1>1. mine[d] = {Entry(i) : i \in Created(d)}
  BY DEF IInv, Handling, Opened
<1>2. Pending(d) = Created(d)
  <2>1. \A i : Entry(i).incident = i
    BY DEF Entry
  <2> QED BY <1>1, <2>1 DEF Pending
<1>3. \A i \in Created(d) : i \notin incidents \cup gone
  BY CreatedOnRecord DEF IInv, Booked, InTransaction
<1> QED BY <1>1, <1>2, <1>3

\* A duplicate is answered with the incident on record.
LEMMA LoadStep == ASSUME IInv, NEW d \in Deliveries, Load(d) PROVE IInv'
<1> USE DEF IInv
<1> DEFINE i == found[d]
<1>1. /\ pc[d] = "load" /\ i \in incidents \cup Pending(d)
      /\ Record(d, i, TRUE) /\ found' = [found EXCEPT ![d] = Nobody]
      /\ UNCHANGED <<sqlite, batch, store, attempt, mine, tasks, notified, lost>>
  BY DEF Load, Pending
<1>2. Handling(d) /\ Len(results[d]) \in Nat /\ Len(batch[d]) \in Nat
  BY Lists DEF TypeOK, IsList
<1>3. i \in Id
  <2>1. i \in Pending(d) => i \in Id
    BY DEF Pending, TypeOK
  <2> QED BY <1>1, <2>1 DEF TypeOK
<1>4. /\ results' \in [Deliveries -> Seq(Receipt)]
      /\ \A e \in Deliveries \ {d} : results'[e] = results[e]
      /\ Len(results'[d]) = Position(d)
      /\ \A n \in 1 .. Len(results[d]) : results'[d][n] = results[d][n]
      /\ results'[d][Position(d)] = [incident |-> i, duplicate |-> TRUE]
      /\ Created(d)' = Created(d)
  <2>1. \A dup \in BOOLEAN : Record(d, i, dup) =>
          /\ results' \in [Deliveries -> Seq(Receipt)]
          /\ \A e \in Deliveries \ {d} : results'[e] = results[e]
          /\ Len(results'[d]) = Position(d)
          /\ \A n \in 1 .. Len(results[d]) : results'[d][n] = results[d][n]
          /\ results'[d][Position(d)] = [incident |-> i, duplicate |-> dup]
          /\ dup => Created(d)' = Created(d)
    BY <1>3, RecordStep
  <2> QED BY <1>1, <2>1
<1>5. /\ pc' = [pc EXCEPT ![d] = IF Position(d) = Len(batch[d]) THEN "commit" ELSE "select"]
      /\ pc'[d] \in {"commit", "select"}
      /\ pc'[d] = "commit" <=> Position(d) = Len(batch[d])
  BY <1>1 DEF Record, Go, TypeOK
<1>6. Position(d) <= Len(batch[d]) /\ Position(d) = Len(results[d]) + 1
  BY <1>1, <1>2 DEF Handling, Answered, Position
<1>7. \A e \in Deliveries \ {d} : Same(e)
  BY <1>1, <1>4, <1>5 DEF Same, TypeOK
<1>8. TypeOK'
  <2>1. \A e \in Deliveries : Len(results'[e]) <= Len(batch'[e])
    BY <1>1, <1>4, <1>6 DEF TypeOK
  <2> QED BY <1>1, <1>4, <1>5, <2>1 DEF TypeOK
<1>9. Booked'
  <2>1. \A j \in incidents \cup gone :
          j[2] = attempt[j[1]] =>
            pc'[j[1]] \in {"schedule", "respond", "answered", "unsure", "unqueued", "crashed"}
    BY <1>1, <1>7 DEF Booked, Named, Id, Same
  <2> QED BY <1>1, <2>1 DEF Booked, Entry, KeyOf, Named
<1>10. OneRow' /\ Heard'
  BY <1>1 DEF OneRow, Visible, Heard
<1>11. i # <<d, attempt[d], Position(d)>>
  <2>1. CASE i \in incidents
    BY <1>1, <2>1 DEF Booked
  <2>2. CASE i \in Pending(d)
    <3>1. i \in Created(d)
      BY <1>1, <2>2, PendingCreated DEF InTransaction
    <3> QED BY <1>6, <1>2, <3>1, CreatedOnRecord
  <2> QED BY <1>1, <2>1, <2>2
<1>12. Handling(d)'
  <2>1. InTransaction(d) /\ InTransaction(d)' /\ ~Committed(d)'
    BY <1>1, <1>5 DEF InTransaction, Committed
  <2>2. \A j : KeyOf(j)' = KeyOf(j) /\ Entry(j)' = Entry(j)
    BY <1>1 DEF KeyOf, Entry
  <2>3. Opened(d)'
    BY <1>1, <1>2, <1>4, <2>1, <2>2 DEF Handling, Opened
  <2>4. Pending(d)' = Pending(d)
    BY <1>1 DEF Pending
  <2>5. KeyOf(i) = batch[d][Position(d)].key
    BY <1>1, <1>2 DEF Handling, Looked, Alert
  <2>6. \A n \in 1 .. Len(results'[d]) : n \in 1 .. Len(results[d]) \/ n = Position(d)
    BY <1>2, <1>4, <1>6
  <2>7. \A n \in 1 .. Len(results'[d]) :
          LET r == results'[d][n] IN
          /\ ~r.duplicate <=> r.incident = <<d, attempt[d], n>>
          /\ KeyOf(r.incident) = batch[d][n].key
          /\ r.incident \in incidents \cup gone \cup Pending(d)
    <3>1. Answered(d)
      BY <1>2 DEF Handling
    <3>2. ASSUME NEW n \in 1 .. Len(results[d])
          PROVE  LET r == results'[d][n] IN
                 /\ ~r.duplicate <=> r.incident = <<d, attempt[d], n>>
                 /\ KeyOf(r.incident) = batch[d][n].key
                 /\ r.incident \in incidents \cup gone \cup Pending(d)
      BY <1>4, <3>1, <3>2 DEF Answered
    <3>3. LET r == results'[d][Position(d)] IN
          /\ ~r.duplicate <=> r.incident = <<d, attempt[d], Position(d)>>
          /\ KeyOf(r.incident) = batch[d][Position(d)].key
          /\ r.incident \in incidents \cup gone \cup Pending(d)
      BY <1>1, <1>4, <1>11, <2>5
    <3> QED BY <2>6, <3>2, <3>3
  <2>8. /\ pc'[d] = "select" => Len(results'[d]) < Len(batch[d])
        /\ pc'[d] = "commit" => Len(results'[d]) = Len(batch[d])
    BY <1>2, <1>4, <1>5, <1>6
  <2>9. Answered(d)'
    BY <1>1, <1>5, <2>1, <2>2, <2>4, <2>7, <2>8 DEF Answered
  <2>10. Looked(d)' /\ Tasked(d)'
    BY <1>1, <1>2, <1>4, <1>5 DEF Handling, Looked, Tasked
  <2> QED BY <2>3, <2>9, <2>10 DEF Handling
<1>13. \A e \in Deliveries \ {d} : Handling(e)'
  BY <1>1, <1>7, SameHandling
<1> QED BY <1>8, <1>9, <1>10, <1>12, <1>13

\* A new key gets its row: no transaction has one, open or committed.
LEMMA InsertStep == ASSUME IInv, NEW d \in Deliveries, Insert(d) PROVE IInv'
<1> USE DEF IInv
<1> DEFINE i == NewId(d)
           row == [key |-> Alert(d).key, incident |-> i]
<1>1. /\ pc[d] = "insert" /\ ~KeyTaken(d) /\ \A e \in Deliveries : ~WaitsFor(d, e)
      /\ mine' = [mine EXCEPT ![d] = @ \cup {row}]
      /\ Record(d, i, FALSE)
      /\ UNCHANGED <<sqlite, batch, store, attempt, found, tasks, notified, lost>>
  BY DEF Insert
<1>2. Handling(d) /\ Len(results[d]) \in Nat /\ Len(batch[d]) \in Nat
  BY Lists DEF TypeOK, IsList
<1>3. i \in Id /\ i = <<d, attempt[d], Position(d)>>
  BY <1>2 DEF NewId, Id, Position, TypeOK
<1>4. /\ results' \in [Deliveries -> Seq(Receipt)]
      /\ \A e \in Deliveries \ {d} : results'[e] = results[e]
      /\ Len(results'[d]) = Position(d)
      /\ \A n \in 1 .. Len(results[d]) : results'[d][n] = results[d][n]
      /\ results'[d][Position(d)] = [incident |-> i, duplicate |-> FALSE]
      /\ Created(d)' = Created(d) \cup {i}
  <2>1. \A dup \in BOOLEAN : Record(d, i, dup) =>
          /\ results' \in [Deliveries -> Seq(Receipt)]
          /\ \A e \in Deliveries \ {d} : results'[e] = results[e]
          /\ Len(results'[d]) = Position(d)
          /\ \A n \in 1 .. Len(results[d]) : results'[d][n] = results[d][n]
          /\ results'[d][Position(d)] = [incident |-> i, duplicate |-> dup]
          /\ ~dup => Created(d)' = Created(d) \cup {i}
    BY <1>3, RecordStep
  <2> QED BY <1>1, <2>1
<1>5. /\ pc' = [pc EXCEPT ![d] = IF Position(d) = Len(batch[d]) THEN "commit" ELSE "select"]
      /\ pc'[d] \in {"commit", "select"}
      /\ pc'[d] = "commit" <=> Position(d) = Len(batch[d])
  BY <1>1 DEF Record, Go, TypeOK
<1>6. Position(d) <= Len(batch[d]) /\ Position(d) = Len(results[d]) + 1
  BY <1>1, <1>2 DEF Handling, Answered, Position
<1>7. mine'[d] = mine[d] \cup {row} /\ \A e \in Deliveries \ {d} : Same(e)
  BY <1>1, <1>4, <1>5 DEF Same, TypeOK
<1>8. row = Entry(i) /\ \A j : KeyOf(j)' = KeyOf(j) /\ Entry(j)' = Entry(j)
  BY <1>1, <1>3 DEF Entry, KeyOf, Alert
<1> HIDE DEF i, row
<1>9. TypeOK'
  <2>1. \A e \in Deliveries : Len(results'[e]) <= Len(batch'[e])
    BY <1>1, <1>4, <1>6 DEF TypeOK
  <2>2. row.incident = i
    BY DEF row
  <2>3. DOMAIN mine' = Deliveries /\ \A e \in Deliveries : \A r \in mine'[e] : r.incident \in Id
    BY <1>1, <1>3, <1>7, <2>2 DEF TypeOK, Same
  <2> QED BY <1>1, <1>4, <1>5, <2>1, <2>3 DEF TypeOK
<1>10. Booked'
  <2>1. \A j \in incidents \cup gone :
          j[2] = attempt[j[1]] =>
            pc'[j[1]] \in {"schedule", "respond", "answered", "unsure", "unqueued", "crashed"}
    BY <1>1, <1>7 DEF Booked, Named, Id, Same
  <2> QED BY <1>1, <2>1 DEF Booked, Entry, KeyOf, Named
<1>11. OneRow'
  <2>1. \A e \in Deliveries : \A r \in Visible(e) : r.key # row.key
    <3>1. row.key = Alert(d).key
      BY DEF row
    <3>2. \A r \in alerts : r.key # row.key
      BY <1>1, <3>1 DEF KeyTaken
    <3>3. \A r \in mine[d] : r.key # row.key
      BY <1>1, <1>2, <3>1 DEF Handling, Looked
    <3>4. \A e \in Deliveries \ {d} : \A r \in mine[e] : r.key # row.key
      BY <1>1, <3>1 DEF WaitsFor
    <3> QED BY <3>2, <3>3, <3>4 DEF Visible
  <2>2. \A e \in Deliveries : Visible(e)' \subseteq Visible(e) \cup {row}
    BY <1>1, <1>7 DEF Visible, Same
  <2> QED BY <2>1, <2>2 DEF OneRow
<1>12. Heard'
  BY <1>1 DEF Heard
<1>13. Handling(d)'
  <2>1. InTransaction(d) /\ InTransaction(d)' /\ ~Committed(d)'
    BY <1>1, <1>5 DEF InTransaction, Committed
  <2>2. Opened(d)'
    BY <1>2, <1>4, <1>7, <1>8, <2>1 DEF Handling, Opened
  <2>3. Pending(d)' = Pending(d) \cup {i}
    <3>1. row.incident = i
      BY DEF row
    <3> QED BY <1>7, <3>1 DEF Pending
  <2>4. KeyOf(i) = batch[d][Position(d)].key
    BY <1>3 DEF KeyOf
  <2>5. \A n \in 1 .. Len(results'[d]) : n \in 1 .. Len(results[d]) \/ n = Position(d)
    BY <1>2, <1>4, <1>6
  <2>6. \A n \in 1 .. Len(results'[d]) :
          LET r == results'[d][n] IN
          /\ ~r.duplicate <=> r.incident = <<d, attempt[d], n>>
          /\ KeyOf(r.incident) = batch[d][n].key
          /\ r.incident \in incidents \cup gone \cup Pending(d) \cup {i}
    <3>1. \A n \in 1 .. Len(results[d]) :
            LET r == results[d][n] IN
            /\ ~r.duplicate <=> r.incident = <<d, attempt[d], n>>
            /\ KeyOf(r.incident) = batch[d][n].key
            /\ r.incident \in incidents \cup gone \cup Pending(d)
      BY <1>2 DEF Handling, Answered
    <3>2. /\ ~results'[d][Position(d)].duplicate
          /\ results'[d][Position(d)].incident = i
      BY <1>4
    <3> QED BY <1>3, <1>4, <2>4, <2>5, <3>1, <3>2
  <2>7. /\ pc'[d] = "select" => Len(results'[d]) < Len(batch[d])
        /\ pc'[d] = "commit" => Len(results'[d]) = Len(batch[d])
    BY <1>2, <1>4, <1>5, <1>6
  <2>8. Answered(d)'
    BY <1>1, <1>5, <1>8, <2>1, <2>3, <2>6, <2>7 DEF Answered
  <2>9. Looked(d)' /\ Tasked(d)'
    BY <1>1, <1>2, <1>4, <1>5 DEF Handling, Looked, Tasked
  <2> QED BY <2>2, <2>8, <2>9 DEF Handling
<1>14. \A e \in Deliveries \ {d} : Handling(e)'
  BY <1>1, <1>7, SameHandling
<1> QED BY <1>9, <1>10, <1>11, <1>12, <1>13, <1>14

\* Incidents and alerts are stored together, whatever the handler learns of it.
LEMMA StoreStep ==
  ASSUME IInv, NEW d \in Deliveries, NEW l \in {"schedule", "unsure"},
         pc[d] = "commit", Store(d), Go(d, l),
         results' \in [Deliveries -> Seq(Receipt)],
         results'[d] = IF l = "schedule" THEN results[d] ELSE <<>>,
         \A e \in Deliveries \ {d} : results'[e] = results[e],
         UNCHANGED <<sqlite, batch, attempt, found, tasks, notified, lost>>
  PROVE  IInv'
<1> USE DEF IInv
<1>1. /\ pc' = [pc EXCEPT ![d] = l]
      /\ incidents' = incidents \cup Pending(d) /\ alerts' = alerts \cup mine[d]
      /\ mine' = [mine EXCEPT ![d] = {}] /\ gone' = gone
  BY DEF Store, Go, Pending
<1>2. /\ pc'[d] = l /\ mine'[d] = {}
      /\ \A e \in Deliveries \ {d} : Same(e)
  BY <1>1 DEF TypeOK, Same
<1>3. /\ mine[d] = {Entry(i) : i \in Created(d)} /\ Pending(d) = Created(d)
      /\ \A i \in Created(d) : i \notin incidents \cup gone
  BY PendingCreated DEF InTransaction
<1>4. \A i \in Created(d) : /\ i \in Id /\ i[1] = d /\ i[2] = attempt[d]
                            /\ i[3] \in 1 .. Len(batch[d])
  BY CreatedOnRecord
<1>5. Handling(d)
  OBVIOUS
<1>6. \A i : KeyOf(i)' = KeyOf(i) /\ Entry(i)' = Entry(i)
  BY DEF KeyOf, Entry
<1>7. TypeOK'
  <2>1. \A e \in Deliveries : Len(results'[e]) <= Len(batch'[e])
    <3>1. Len(results[d]) <= Len(batch[d]) /\ Len(batch[d]) \in Nat
      BY Lists DEF TypeOK, IsList
    <3>2. Len(results'[d]) <= Len(batch[d])
      <4>1. CASE l = "schedule"
        BY <3>1, <4>1
      <4>2. CASE l # "schedule"
        BY <3>1, <4>2
      <4> QED BY <4>1, <4>2
    <3> QED BY <3>2 DEF TypeOK
  <2>2. incidents' \subseteq Id
    BY <1>1, <1>3, <1>4 DEF TypeOK
  <2>3. /\ \A r \in alerts' : r.incident \in Id
        /\ DOMAIN mine' = Deliveries
        /\ \A e \in Deliveries : \A r \in mine'[e] : r.incident \in Id
    BY <1>1 DEF TypeOK
  <2>4. pc' \in [Deliveries -> {"sent", "select", "insert", "reselect", "load",
                               "commit", "schedule", "respond"} \cup Final]
    BY <1>1 DEF TypeOK, Final
  <2> QED BY <1>1, <2>1, <2>2, <2>3, <2>4 DEF TypeOK
<1>8. Booked'
  <2>1. alerts' = {Entry(i) : i \in incidents'}
    BY <1>1, <1>3 DEF Booked
  <2>2. incidents' \cap gone' = {}
    BY <1>1, <1>3 DEF Booked
  <2>3. ASSUME NEW i \in incidents' \cup gone'
        PROVE  /\ Named(i)' /\ i[2] <= attempt'[i[1]]
               /\ i[2] = attempt'[i[1]] =>
                    pc'[i[1]] \in {"schedule", "respond", "answered", "unsure", "unqueued", "crashed"}
    <3>1. CASE i \in incidents \cup gone
      BY <1>1, <1>2, <3>1 DEF Booked, Named, Id, Same
    <3>2. CASE i \in Created(d)
      BY <1>1, <1>2, <1>4, <3>2 DEF Named, TypeOK
    <3> QED BY <1>1, <1>3, <3>1, <3>2
  <2> QED BY <1>6, <2>1, <2>2, <2>3 DEF Booked
<1>9. OneRow'
  <2>1. \A e \in Deliveries : Visible(e)' \subseteq Visible(e) \cup Visible(d)
    BY <1>1, <1>2 DEF Visible, Same
  <2> QED BY <2>1 DEF OneRow
<1>10. Heard'
  BY <1>1 DEF Heard
<1>11. Handling(d)'
  <2>1. Pending(d)' = {} /\ ~InTransaction(d)'
    BY <1>2 DEF Pending, InTransaction
  <2>2. Opened(d)'
    BY <1>2, <2>1 DEF Opened
  <2>3. tasks'[d] = {} /\ d \notin lost' /\ Looked(d)'
    BY <1>2, <1>5 DEF Handling, Looked, Tasked
  <2>4. CASE l = "schedule"
    <3>1. Created(d)' = Created(d)
      BY <2>4 DEF Created
    <3>2. Answered(d)'
      BY <1>1, <1>2, <1>3, <1>5, <1>6, <2>4 DEF Handling, Answered, Committed
    <3>3. \A i \in Created(d) : <<i, d>> \notin notified
      <4>1. \A i : <<i, d>>[1] = i
        OBVIOUS
      <4> QED BY <1>3, <4>1 DEF Heard
    <3>4. Tasked(d)'
      BY <1>2, <2>3, <2>4, <3>1, <3>3 DEF Tasked
    <3> QED BY <2>2, <2>3, <3>2, <3>4 DEF Handling
  <2>5. CASE l = "unsure"
    <3>1. results'[d] = <<>>
      BY <2>5
    <3>2. Created(d)' = {}
      BY <3>1 DEF Created
    <3>3. Answered(d)' /\ Tasked(d)'
      BY <1>2, <2>3, <2>5, <3>1, <3>2 DEF Answered, Committed, Tasked
    <3> QED BY <2>2, <2>3, <3>3 DEF Handling
  <2> QED BY <2>4, <2>5
<1>12. \A e \in Deliveries \ {d} : Handling(e)'
  BY <1>1, <1>2, SameHandling
<1> QED BY <1>7, <1>8, <1>9, <1>10, <1>11, <1>12

\* The handler learns of its commit, or an error instead.
LEMMA CommitStep ==
  ASSUME IInv, NEW d \in Deliveries, Commit(d) \/ CommitUnsure(d) PROVE IInv'
<1>1. results \in [Deliveries -> Seq(Receipt)]
  BY DEF IInv, TypeOK
<1>2. CASE Commit(d)
  <2>1. /\ pc[d] = "commit" /\ Store(d) /\ Go(d, "schedule") /\ results' = results
        /\ UNCHANGED <<sqlite, batch, attempt, found, tasks, notified, lost>>
    BY <1>2 DEF Commit
  <2> QED BY <1>1, <2>1, StoreStep
<1>3. CASE CommitUnsure(d)
  <2>1. /\ pc[d] = "commit" /\ Store(d) /\ Go(d, "unsure")
        /\ results' = [results EXCEPT ![d] = <<>>]
        /\ UNCHANGED <<sqlite, batch, attempt, found, tasks, notified, lost>>
    BY <1>3 DEF CommitUnsure
  <2>2. /\ results' \in [Deliveries -> Seq(Receipt)] /\ results'[d] = <<>>
        /\ \A e \in Deliveries \ {d} : results'[e] = results[e]
    BY <1>1, <2>1
  <2> QED BY <2>1, <2>2, StoreStep
<1> QED BY <1>2, <1>3

\* One more new incident has its task.
LEMMA ScheduleStep == ASSUME IInv, NEW d \in Deliveries, Schedule(d) PROVE IInv'
<1> USE DEF IInv
<1>1. PICK i \in Created(d) : tasks' = [tasks EXCEPT ![d] = @ \cup {i}]
  BY DEF Schedule, Left
<1>2. /\ pc[d] = "schedule"
      /\ UNCHANGED <<sqlite, batch, store, pc, attempt, session, notified, lost>>
  BY DEF Schedule
<1>3. tasks'[d] = tasks[d] \cup {i} /\ \A e \in Deliveries \ {d} : Same(e)
  BY <1>1, <1>2 DEF TypeOK, Same
<1>4. i \in Id
  BY CreatedOnRecord
<1>5. TypeOK'
  BY <1>1, <1>2, <1>4 DEF TypeOK
<1>6. Booked' /\ OneRow' /\ Heard'
  BY <1>2 DEF Booked, Entry, KeyOf, Named, OneRow, Visible, Heard
<1>7. Handling(d)'
  <2>1. Handling(d)
    OBVIOUS
  <2>2. /\ Created(d)' = Created(d) /\ Pending(d)' = Pending(d) /\ Alert(d)' = Alert(d)
        /\ \A j : KeyOf(j)' = KeyOf(j) /\ Entry(j)' = Entry(j)
    BY <1>2 DEF Created, Pending, Alert, Position, KeyOf, Entry
  <2>3. Opened(d)' /\ Answered(d)' /\ Looked(d)'
    BY <1>2, <2>1, <2>2 DEF Handling, Opened, Answered, Looked, InTransaction, Committed
  <2>4. Tasked(d)'
    BY <1>2, <1>3, <2>1, <2>2 DEF Handling, Tasked
  <2> QED BY <2>3, <2>4 DEF Handling
<1>8. \A e \in Deliveries \ {d} : Handling(e)'
  BY <1>2, <1>3, SameHandling
<1> QED BY <1>5, <1>6, <1>7, <1>8

\* The receipt is sent: all tasks wait, and none has started.
LEMMA RespondStep == ASSUME IInv, NEW d \in Deliveries, Respond(d) PROVE IInv'
<1> USE DEF IInv
<1>1. /\ pc[d] = "respond" /\ pc' = [pc EXCEPT ![d] = "answered"]
      /\ UNCHANGED <<sqlite, batch, store, attempt, session, tasks, notified, lost>>
  BY DEF Respond, Go
<1>2. pc'[d] = "answered" /\ \A e \in Deliveries \ {d} : Same(e)
  BY <1>1 DEF TypeOK, Same
<1>3. TypeOK'
  BY <1>1 DEF TypeOK, Final
<1>4. Booked'
  <2>1. \A i \in incidents \cup gone :
          i[2] = attempt[i[1]] =>
            pc'[i[1]] \in {"schedule", "respond", "answered", "unsure", "unqueued", "crashed"}
    BY <1>1, <1>2 DEF Booked, Named, Id, Same
  <2> QED BY <1>1, <2>1 DEF Booked, Entry, KeyOf, Named
<1>5. OneRow' /\ Heard'
  BY <1>1 DEF OneRow, Visible, Heard
<1>6. Handling(d)'
  <2>1. Handling(d)
    OBVIOUS
  <2>2. Opened(d)' /\ Answered(d)' /\ Looked(d)'
    BY <1>1, <1>2, <2>1, MoveKeeps
       DEF Handling, Opened, Answered, Looked, InTransaction, Committed
  <2>3. /\ tasks[d] = Created(d) /\ \A i \in Created(d) : <<i, d>> \notin notified
        /\ d \notin lost
    BY <1>1, <2>1 DEF Handling, Tasked
  <2>4. Tasked(d)'
    BY <1>1, <1>2, <2>3, MoveKeeps DEF Tasked, InOrder
  <2> QED BY <2>2, <2>4 DEF Handling
<1>7. \A e \in Deliveries \ {d} : Handling(e)'
  BY <1>1, <1>2, SameHandling
<1> QED BY <1>3, <1>4, <1>5, <1>6, <1>7

\* What changes with the tasks of an answered delivery, and what does not.
LEMMA TasksMove ==
  ASSUME IInv, NEW d \in Deliveries, pc[d] = "answered",
         NEW T \in SUBSET tasks[d], tasks' = [tasks EXCEPT ![d] = T],
         NEW N \in SUBSET Created(d), notified' = notified \cup {<<i, d>> : i \in N},
         lost' \in {lost, lost \cup {d}},
         UNCHANGED <<sqlite, batch, store, pc, attempt, session>>,
         InOrder(d)', d \in lost' => T = {}
  PROVE  IInv'
<1> USE DEF IInv
<1>1. Handling(d)
  OBVIOUS
<1>2. mine[d] = {} /\ tasks[d] \subseteq Created(d)
  BY <1>1 DEF Handling, Opened, Tasked, InTransaction
<1>3. \A i \in N : i \in Id /\ i[1] = d /\ i \in incidents \cup gone
  BY <1>2, CreatedOnRecord DEF Pending
<1>4. /\ tasks'[d] = T
      /\ \A e \in Deliveries \ {d} : Same(e)
  BY DEF TypeOK, Same
<1>5. TypeOK'
  BY <1>3 DEF TypeOK
<1>6. Booked' /\ OneRow'
  BY DEF Booked, Entry, KeyOf, Named, OneRow, Visible
<1>7. Heard'
  <2>1. \A i \in N : <<i, d>>[1] = i /\ <<i, d>> = <<i, i[1]>>
    BY <1>3
  <2> QED BY <1>3, <2>1 DEF Heard
<1>8. Handling(d)'
  <2>1. /\ Created(d)' = Created(d) /\ Pending(d)' = Pending(d) /\ Alert(d)' = Alert(d)
        /\ \A j : KeyOf(j)' = KeyOf(j) /\ Entry(j)' = Entry(j)
    BY DEF Created, Pending, Alert, Position, KeyOf, Entry
  <2>2. Opened(d)' /\ Answered(d)' /\ Looked(d)'
    BY <1>1, <2>1 DEF Handling, Opened, Answered, Looked, InTransaction, Committed
  <2>3. Tasked(d)'
    BY <1>2, <1>4, <2>1 DEF Tasked
  <2> QED BY <2>2, <2>3 DEF Handling
<1>9. \A e \in Deliveries \ {d} : Handling(e)'
  BY <1>4, SameHandling
<1> QED BY <1>5, <1>6, <1>7, <1>8, <1>9

\* The first of the tasks that wait starts.
LEMMA RunTaskStep == ASSUME IInv, NEW d \in Deliveries, RunTask(d) PROVE IInv'
<1>1. PICK i \in tasks[d] : /\ \A k \in tasks[d] : i[3] <= k[3]
                            /\ notified' = notified \cup {<<i, d>>}
                            /\ tasks' = [tasks EXCEPT ![d] = @ \ {i}]
  BY DEF RunTask
<1>2. /\ pc[d] = "answered"
      /\ UNCHANGED <<sqlite, batch, store, pc, attempt, session, lost>>
  BY DEF RunTask
<1>3. /\ tasks[d] \subseteq Created(d) /\ InOrder(d) /\ d \notin lost
      /\ tasks'[d] = tasks[d] \ {i}
  BY <1>1, <1>2 DEF IInv, Handling, Tasked, TypeOK
<1>4. Created(d)' = Created(d)
  BY <1>2 DEF Created
<1>5. \A j, k \in Created(d) : j[3] \in Nat /\ (j[3] = k[3] => j = k)
  <2>1. \A j \in Created(d) : \E n \in 1 .. Len(results[d]) : j = <<d, attempt[d], n>>
    BY CreatedNames
  <2>2. Len(results[d]) \in Nat
    BY DEF IInv, TypeOK
  <2> QED BY <2>1, <2>2
<1>6. InOrder(d)'
  <2> SUFFICES ASSUME NEW j \in Created(d)
      PROVE  /\ j \in tasks'[d] => <<j, d>> \notin notified'
             /\ j \notin tasks'[d] => <<j, d>> \in notified'
             /\ <<j, d>> \in notified' =>
                  \A k \in Created(d) : k[3] <= j[3] => <<k, d>> \in notified'
    BY <1>2, <1>4 DEF InOrder
  <2>1. j \in tasks'[d] => <<j, d>> \notin notified'
    BY <1>1, <1>3 DEF InOrder
  <2>2. j \notin tasks'[d] => <<j, d>> \in notified'
    BY <1>1, <1>3 DEF InOrder
  <2>3. ASSUME <<j, d>> \in notified', NEW k \in Created(d), k[3] <= j[3]
        PROVE  <<k, d>> \in notified'
    <3>1. CASE j = i
      <4>1. k = i \/ k \notin tasks[d]
        BY <1>1, <1>3, <1>5, <2>3, <3>1
      <4> QED BY <1>1, <1>3, <4>1 DEF InOrder
    <3>2. CASE j # i
      BY <1>1, <1>3, <2>3, <3>2 DEF InOrder
    <3> QED BY <3>1, <3>2
  <2> QED BY <2>1, <2>2, <2>3
<1>7. /\ {i} \in SUBSET Created(d) /\ notified' = notified \cup {<<k, d>> : k \in {i}}
      /\ tasks[d] \ {i} \in SUBSET tasks[d]
      /\ tasks' = [tasks EXCEPT ![d] = tasks[d] \ {i}]
  BY <1>1, <1>3
<1> QED BY <1>2, <1>3, <1>6, <1>7, TasksMove

\* The tasks that wait are lost.
LEMMA LoseTasksStep == ASSUME IInv, NEW d \in Deliveries, LoseTasks(d) PROVE IInv'
<1>1. /\ pc[d] = "answered" /\ tasks' = [tasks EXCEPT ![d] = {}]
      /\ lost' = lost \cup {d}
      /\ UNCHANGED <<sqlite, batch, store, pc, attempt, session, notified>>
  BY DEF LoseTasks
<1>2. InOrder(d) /\ tasks'[d] = {} /\ Created(d)' = Created(d)
  BY <1>1 DEF IInv, Handling, Tasked, TypeOK, Created
<1>3. InOrder(d)'
  BY <1>1, <1>2 DEF InOrder
<1>4. notified' = notified \cup {<<i, d>> : i \in {}} /\ {} \in SUBSET Created(d)
  BY <1>1
<1> QED BY <1>1, <1>3, <1>4, TasksMove

\* The next attempt has committed nothing yet.
LEMMA ResendStep == ASSUME IInv, NEW d \in Deliveries, Resend(d) PROVE IInv'
<1> USE DEF IInv
<1>1. /\ pc[d] \in {"error", "unsure", "unqueued", "crashed"} /\ attempt[d] < MaxAttempts
      /\ attempt' = [attempt EXCEPT ![d] = @ + 1] /\ pc' = [pc EXCEPT ![d] = "sent"]
      /\ UNCHANGED <<sqlite, batch, store, session, tasks, notified, lost>>
  BY DEF Resend, Go, Final
<1>2. /\ pc'[d] = "sent" /\ attempt'[d] = attempt[d] + 1
      /\ \A e \in Deliveries \ {d} : Same(e)
  BY <1>1 DEF TypeOK, Same
<1>3. attempt[d] \in 1 .. MaxAttempts /\ attempt'[d] \in 1 .. MaxAttempts
  BY <1>1, <1>2, IngestionAssumption DEF TypeOK
<1>4. TypeOK'
  BY <1>1, <1>3 DEF TypeOK
<1>5. Booked'
  <2>1. ASSUME NEW i \in incidents \cup gone
        PROVE  /\ i[2] <= attempt'[i[1]]
               /\ i[2] = attempt'[i[1]] =>
                    pc'[i[1]] \in {"schedule", "respond", "answered", "unsure", "unqueued", "crashed"}
    <3>1. i \in Id /\ i[1] \in Deliveries /\ i[2] \in Nat /\ i[2] <= attempt[i[1]]
      BY DEF Booked, Named, Id
    <3>2. CASE i[1] = d
      BY <1>2, <1>3, <3>1, <3>2
    <3>3. CASE i[1] # d
      BY <1>2, <3>1, <3>3 DEF Booked, Same
    <3> QED BY <3>2, <3>3
  <2> QED BY <1>1, <2>1 DEF Booked, Entry, KeyOf, Named
<1>6. OneRow' /\ Heard'
  BY <1>1 DEF OneRow, Visible, Heard
<1>7. Handling(d)'
  <2>1. Handling(d)
    OBVIOUS
  <2>2. results[d] = <<>> /\ mine[d] = {} /\ tasks[d] = {} /\ d \notin lost
    BY <1>1, <2>1 DEF Handling, Answered, Opened, Tasked, InTransaction
  <2>3. Tasked(d)'
    BY <1>1, <1>2, <2>2 DEF Tasked
  <2>4. Opened(d)' /\ Answered(d)' /\ Looked(d)'
    BY <1>1, <1>2, <2>2 DEF Opened, Answered, Looked, InTransaction, Committed
  <2> QED BY <2>3, <2>4 DEF Handling
<1>8. \A e \in Deliveries \ {d} : Handling(e)'
  BY <1>1, <1>2, SameHandling
<1> QED BY <1>4, <1>5, <1>6, <1>7, <1>8

\* A deleted incident and its alert go together, and its name is not forgotten.
LEMMA DeleteStep == ASSUME IInv, NEW i \in incidents, DeleteIncident(i) PROVE IInv'
<1> USE DEF IInv
<1>1. /\ incidents' = incidents \ {i} /\ gone' = gone \cup {i}
      /\ alerts' = {r \in alerts : r.incident # i}
      /\ UNCHANGED <<sqlite, batch, pc, attempt, session, tasks, notified, lost>>
  BY DEF DeleteIncident
<1>2. \A e \in Deliveries : Same(e)
  BY <1>1 DEF Same
<1>3. TypeOK'
  BY <1>1 DEF TypeOK
<1>4. Booked'
  <2>1. \A j : Entry(j).incident = j
    BY DEF Entry
  <2>2. alerts' = {Entry(j) : j \in incidents'}
    BY <1>1, <2>1 DEF Booked
  <2>3. \A j : Entry(j)' = Entry(j) /\ (Named(j)' <=> Named(j))
    BY <1>1 DEF Entry, KeyOf, Named
  <2> QED BY <1>1, <2>2, <2>3 DEF Booked
<1>5. OneRow'
  BY <1>1 DEF OneRow, Visible
<1>6. Heard'
  BY <1>1 DEF Heard
<1>7. \A e \in Deliveries : Handling(e)'
  <2>1. incidents \cup gone \subseteq incidents' \cup gone'
    BY <1>1
  <2> QED BY <1>1, <1>2, <2>1, SameHandling
<1> QED BY <1>3, <1>4, <1>5, <1>6, <1>7

-----------------------------------------------------------------------------
(* The theorems.                                                           *)

\* No batch has been sent.
LEMMA InitInv == Init => IInv
<1> SUFFICES ASSUME Init PROVE IInv
  OBVIOUS
<1>1. \A d \in Deliveries : batch[d] \in Batches /\ IsList(batch[d])
  <2>1. PICK s \in Scenarios : batch = [d \in Deliveries |-> Batch(s[d])]
    BY DEF Init
  <2> QED BY <2>1, BatchList DEF Batches
<1>2. TypeOK
  <2>1. batch \in [Deliveries -> Batches]
    BY <1>1 DEF Init
  <2>2. \A d \in Deliveries : results[d] = <<>> /\ Len(results[d]) = 0
    BY DEF Init
  <2>3. \A d \in Deliveries : Len(results[d]) <= Len(batch[d])
    BY <1>1, <2>2 DEF IsList
  <2>4. attempt \in [Deliveries -> 1 .. MaxAttempts]
    BY IngestionAssumption DEF Init
  <2>5. results \in [Deliveries -> Seq(Receipt)]
    BY DEF Init
  <2>6. sqlite \in BOOLEAN
    BY IngestionAssumption DEF Init
  <2> QED BY <2>1, <2>3, <2>4, <2>5, <2>6 DEF Init, TypeOK
<1>3. Booked /\ OneRow /\ Heard
  BY DEF Init, Booked, OneRow, Visible, Heard
<1>4. ASSUME NEW d \in Deliveries PROVE Handling(d)
  <2>1. results[d] = <<>> /\ mine[d] = {} /\ tasks[d] = {} /\ pc[d] = "sent" /\ d \notin lost
    BY DEF Init
  <2>2. Created(d) = {}
    BY <2>1, NothingCreated
  <2>3. Tasked(d)
    BY <2>1 DEF Tasked
  <2>4. Opened(d) /\ Answered(d) /\ Looked(d)
    BY <2>1, <2>2 DEF Opened, Answered, Looked, InTransaction, Committed
  <2> QED BY <2>3, <2>4 DEF Handling
<1> QED BY <1>2, <1>3, <1>4 DEF IInv

\* A stuttering step.
LEMMA StutterStep == IInv /\ UNCHANGED vars => IInv'
<1> SUFFICES ASSUME IInv, UNCHANGED vars PROVE IInv'
  OBVIOUS
<1>1. UNCHANGED <<sqlite, batch, incidents, alerts, gone, pc, attempt, found, mine,
                  results, tasks, notified, lost>>
  BY DEF vars, store, session
<1>2. TypeOK' /\ Booked' /\ OneRow' /\ Heard'
  <2>1. TypeOK'
    BY <1>1 DEF IInv, TypeOK
  <2>2. Booked'
    BY <1>1 DEF IInv, Booked, Entry, KeyOf, Named
  <2>3. OneRow'
    BY <1>1 DEF IInv, OneRow, KeyOf, Visible
  <2>4. Heard'
    BY <1>1 DEF IInv, Heard
  <2> QED BY <2>1, <2>2, <2>3, <2>4
<1>3. \A d \in Deliveries : Handling(d)'
  BY <1>1, SameHandling DEF IInv, Same
<1> QED BY <1>2, <1>3 DEF IInv

\* Where the handler can raise.
LEMMA HandlerRaises ==
  ASSUME NEW d \in Deliveries,
         \/ Refuse(d) \/ Busy(d) \/ Invalid(d) \/ Vanished(d) \/ LoadNothing(d)
         \/ AbortDeadlock(d) \/ DatabaseFails(d) \/ ScheduleFails(d) \/ Crash(d)
  PROVE  \E l \in {"invalid", "error", "unqueued", "crashed"} :
           /\ Leave(d, l)
           /\ pc[d] \notin Final
           /\ l \in {"invalid", "error"} => pc[d] \notin {"schedule", "respond"}
<1>1. Deadlocked(d) => pc[d] = "insert"
  BY DEF Deadlocked, WaitsFor
<1> QED BY <1>1 DEF Refuse, Busy, Invalid, Vanished, LoadNothing, AbortDeadlock,
                    DatabaseFails, InTransaction, ScheduleFails, Crash, Final

\* Every step keeps the invariant.
LEMMA StepInv == IInv /\ [Next]_vars => IInv'
<1> SUFFICES ASSUME IInv, [Next]_vars PROVE IInv'
  OBVIOUS
<1>1. ASSUME NEW d \in Deliveries,
             \/ Refuse(d) \/ Busy(d) \/ Invalid(d) \/ Vanished(d) \/ LoadNothing(d)
             \/ AbortDeadlock(d) \/ DatabaseFails(d) \/ ScheduleFails(d) \/ Crash(d)
      PROVE  IInv'
  BY <1>1, HandlerRaises, LeaveStep
<1>2. ASSUME NEW d \in Deliveries, Begin(d) PROVE IInv'
  BY <1>2, BeginStep
<1>3. ASSUME NEW d \in Deliveries, Lookup(d) PROVE IInv'
  BY <1>3, LookupStep
<1>4. ASSUME NEW d \in Deliveries, LookupNothing(d) PROVE IInv'
  BY <1>4, LookupNothingStep
<1>5. ASSUME NEW d \in Deliveries, Load(d) PROVE IInv'
  BY <1>5, LoadStep
<1>6. ASSUME NEW d \in Deliveries, Insert(d) PROVE IInv'
  BY <1>6, InsertStep
<1>7. ASSUME NEW d \in Deliveries, InsertConflicts(d) PROVE IInv'
  BY <1>7, InsertConflictsStep
<1>8. ASSUME NEW d \in Deliveries, Commit(d) \/ CommitUnsure(d) PROVE IInv'
  BY <1>8, CommitStep
<1>9. ASSUME NEW d \in Deliveries, Schedule(d) PROVE IInv'
  BY <1>9, ScheduleStep
<1>10. ASSUME NEW d \in Deliveries, Scheduled(d) PROVE IInv'
  BY <1>10, ScheduledStep
<1>11. ASSUME NEW d \in Deliveries, Respond(d) PROVE IInv'
  BY <1>11, RespondStep
<1>12. ASSUME NEW d \in Deliveries, Resend(d) PROVE IInv'
  BY <1>12, ResendStep
<1>13. ASSUME NEW i \in incidents, DeleteIncident(i) PROVE IInv'
  BY <1>13, DeleteStep
<1>14. ASSUME NEW d \in Deliveries, RunTask(d) PROVE IInv'
  BY <1>14, RunTaskStep
<1>15. ASSUME NEW d \in Deliveries, LoseTasks(d) PROVE IInv'
  BY <1>15, LoseTasksStep
<1>16. CASE UNCHANGED vars
  BY <1>16, StutterStep
<1> QED BY <1>1, <1>2, <1>3, <1>4, <1>5, <1>6, <1>7, <1>8, <1>9, <1>10, <1>11, <1>12,
           <1>13, <1>14, <1>15, <1>16 DEF Next, Handle, Disturb

\* The invariant always holds.
THEOREM Invariance == Spec => []IInv
<1>1. Init => IInv
  BY InitInv
<1>2. IInv /\ [Next]_vars => IInv'
  BY StepInv
<1> QED BY <1>1, <1>2, PTL DEF Spec

\* The types of the state, that no batch has more results than alerts included.
THEOREM TypeCorrect == Spec => []TypeOK
<1>1. IInv => TypeOK
  BY DEF IInv
<1> QED BY <1>1, Invariance, PTL

\* One transaction for a batch: a failed one leaves no row, a committed one
\* leaves a row for each alert.
THEOREM BatchesAreAtomic == Spec => []BatchIsAtomic
<1>1. IInv => BatchIsAtomic
  <2> SUFFICES ASSUME IInv, NEW d \in Deliveries
               PROVE  /\ pc[d] \in {"invalid", "error"} =>
                           \A i \in incidents \cup gone : i[1] = d => i[2] < attempt[d]
                      /\ Committed(d) =>
                           \A n \in 1 .. Len(results[d]) :
                             LET i == results[d][n].incident IN
                             \/ i \in gone
                             \/ [key |-> batch[d][n].key, incident |-> i] \in alerts
    BY DEF BatchIsAtomic
  <2>1. ASSUME pc[d] \in {"invalid", "error"}, NEW i \in incidents \cup gone, i[1] = d
        PROVE  i[2] < attempt[d]
    <3>1. i[2] <= attempt[d] /\ i[2] # attempt[d]
      BY <2>1 DEF IInv, Booked
    <3>2. i[2] \in Nat /\ attempt[d] \in Nat
      BY <2>1, IngestionAssumption DEF IInv, Booked, Named, Id, TypeOK
    <3> QED BY <3>1, <3>2
  <2>2. ASSUME Committed(d), NEW n \in 1 .. Len(results[d])
        PROVE  LET i == results[d][n].incident IN
               \/ i \in gone
               \/ [key |-> batch[d][n].key, incident |-> i] \in alerts
    <3> DEFINE i == results[d][n].incident
    <3>1. KeyOf(i) = batch[d][n].key /\ i \in incidents \cup gone \cup Pending(d)
      BY DEF IInv, Handling, Answered
    <3>2. mine[d] = {}
      BY <2>2 DEF IInv, Handling, Opened, Committed, InTransaction
    <3>3. i \in incidents => Entry(i) \in alerts
      BY DEF IInv, Booked
    <3> QED BY <3>1, <3>2, <3>3 DEF Pending, Entry
  <2> QED BY <2>1, <2>2
<1> QED BY <1>1, Invariance, PTL

\* A receipt calls new what its delivery has created; this delivery alone
\* announces it, in order, and all of it unless the tasks were lost.
THEOREM ReceiptsAreTrue == Spec => []ReceiptsAreHonest
<1>1. IInv => ReceiptsAreHonest
  <2> SUFFICES ASSUME IInv PROVE ReceiptsAreHonest
    OBVIOUS
  <2>1. ASSUME NEW d \in Deliveries, pc[d] = "answered"
        PROVE  /\ \A n \in DOMAIN results[d] :
                    ~results[d][n].duplicate <=> results[d][n].incident = <<d, attempt[d], n>>
               /\ \A i, k \in Created(d) :
                    <<i, d>> \in notified /\ k[3] <= i[3] => <<k, d>> \in notified
               /\ tasks[d] = {} /\ d \notin lost => Created(d) \X {d} \subseteq notified
    <3>1. DOMAIN results[d] = 1 .. Len(results[d])
      BY DEF IInv, TypeOK
    <3>2. Handling(d)
      BY DEF IInv
    <3>3. InOrder(d)
      BY <2>1, <3>2 DEF Handling, Tasked
    <3> QED BY <3>1, <3>2, <3>3 DEF Handling, Answered, InOrder
  <2>2. \A x, y \in notified : x[1] = y[1] => x = y
    BY DEF IInv, Heard
  <2> QED BY <2>1, <2>2 DEF ReceiptsAreHonest
<1> QED BY <1>1, Invariance, PTL

\* Committed deliveries that tell of the same occurrence are answered with the
\* same incident unless it was deleted, others with different ones.
THEOREM OneIncident == Spec => []OneIncidentPerOccurrence
<1>1. IInv => OneIncidentPerOccurrence
  <2> SUFFICES ASSUME IInv, NEW d \in Deliveries, NEW e \in Deliveries,
                      Committed(d), Committed(e),
                      NEW m \in DOMAIN batch[d], NEW n \in DOMAIN batch[e],
                      ~Nameless(batch[d][m]), ~Nameless(batch[e][n])
               PROVE  LET i == results[d][m].incident  j == results[e][n].incident IN
                      IF Occurrence(batch[d][m]) = Occurrence(batch[e][n])
                      THEN i = j \/ i \in gone \/ j \in gone
                      ELSE i # j
    BY DEF OneIncidentPerOccurrence
  <2> DEFINE i == results[d][m].incident
             j == results[e][n].incident
  <2>1. ASSUME NEW c \in Deliveries, Committed(c), NEW k \in DOMAIN batch[c]
        PROVE  /\ KeyOf(results[c][k].incident) = batch[c][k].key
               /\ results[c][k].incident \in incidents \cup gone
    <3>1. Handling(c) /\ IsList(batch[c])
      BY Lists DEF IInv
    <3>2. k \in 1 .. Len(results[c])
      BY <2>1, <3>1 DEF Handling, Answered, IsList
    <3>3. Pending(c) = {}
      BY <2>1, <3>1 DEF Handling, Opened, Pending, Committed, InTransaction
    <3> QED BY <3>1, <3>2, <3>3 DEF Handling, Answered
  <2>2. KeyOf(i) = batch[d][m].key /\ i \in incidents \cup gone
    BY <2>1
  <2>3. KeyOf(j) = batch[e][n].key /\ j \in incidents \cup gone
    BY <2>1
  <2>4. Occurrence(batch[d][m]) = Occurrence(batch[e][n]) <=> KeyOf(i) = KeyOf(j)
    <3>1. WellNamed(batch[d][m]) /\ WellNamed(batch[e][n])
      BY Lists DEF IInv
    <3> QED BY <2>2, <2>3, <3>1, KeysAreOccurrences
  <2> HIDE DEF i, j
  <2>5. ASSUME KeyOf(i) = KeyOf(j), i \notin gone, j \notin gone
        PROVE  i = j
    <3>1. Entry(i) \in alerts /\ Entry(j) \in alerts
      BY <2>2, <2>3, <2>5 DEF IInv, Booked
    <3>2. Entry(i) = Entry(j)
      BY <2>5, <3>1 DEF IInv, OneRow, Visible, Entry
    <3> QED BY <3>2 DEF Entry
  <2>6. IF Occurrence(batch[d][m]) = Occurrence(batch[e][n])
        THEN i = j \/ i \in gone \/ j \in gone
        ELSE i # j
    BY <2>4, <2>5
  <2> QED BY <2>6 DEF i, j
<1> QED BY <1>1, Invariance, PTL

-----------------------------------------------------------------------------
(* Nobody is forgotten, where nothing can come between commit and tasks.   *)

\* The process does not die, a COMMIT that raises has not happened, and no
\* analysis is queued before the response or runs among its tasks.
Undisturbed == Faults \cap {"crash", "ambiguous_commit"} = {} /\ ~AutoAnalyze

\* The announcement of an incident is still to come.
Due(i) ==
  \/ pc[i[1]] \in {"schedule", "respond"} /\ i \in Created(i[1])
  \/ pc[i[1]] = "answered" /\ i \in tasks[i[1]]

\* An incident is announced, or going to be.
Told == \A i \in incidents : <<i, i[1]>> \in notified \/ Due(i)

\* What a step has to leave alone for Told to stay.
LEMMA ToldStays ==
  ASSUME Told, IInv, NEW d \in Deliveries,
         pc[d] # "answered",
         pc[d] \in {"schedule", "respond"} =>
           pc'[d] \in {"schedule", "respond"} /\ results'[d] = results[d],
         \A e \in Deliveries \ {d} :
           pc'[e] = pc[e] /\ results'[e] = results[e] /\ tasks'[e] = tasks[e],
         incidents' \subseteq incidents, notified' = notified
  PROVE  Told'
<1> SUFFICES ASSUME NEW i \in incidents', <<i, i[1]>> \notin notified
    PROVE  Due(i)'
  BY DEF Told
<1>1. Due(i) /\ i[1] \in Deliveries
  BY DEF Told, IInv, Booked, Named, Id
<1>2. CASE i[1] = d
  BY <1>1, <1>2 DEF Due, Created
<1>3. CASE i[1] # d
  BY <1>1, <1>3 DEF Due, Created
<1> QED BY <1>2, <1>3

\* The handler raises before the commit only.
LEMMA LeaveTold ==
  ASSUME Undisturbed, Told, IInv, NEW d \in Deliveries,
         \/ Refuse(d) \/ Busy(d) \/ Invalid(d) \/ Vanished(d) \/ LoadNothing(d)
         \/ AbortDeadlock(d) \/ DatabaseFails(d) \/ ScheduleFails(d) \/ Crash(d)
  PROVE  Told'
<1>1. pc[d] \notin {"schedule", "respond", "answered"}
  <2>1. Deadlocked(d) => pc[d] = "insert"
    BY DEF Deadlocked, WaitsFor
  <2> QED BY <2>1 DEF Undisturbed, Refuse, Busy, Invalid, Vanished, LoadNothing,
                      AbortDeadlock, DatabaseFails, InTransaction, ScheduleFails, Crash
<1>2. PICK l : Leave(d, l)
  BY HandlerRaises
<1>3. /\ \A e \in Deliveries \ {d} :
           pc'[e] = pc[e] /\ results'[e] = results[e] /\ tasks'[e] = tasks[e]
      /\ incidents' = incidents /\ notified' = notified
  BY <1>2 DEF Leave, Go, IInv, TypeOK
<1> QED BY <1>1, <1>3, ToldStays

\* A commit leaves its incidents to the loop that schedules them.
LEMMA CommitTold == ASSUME Told, IInv, NEW d \in Deliveries, Commit(d) PROVE Told'
<1>1. /\ pc[d] = "commit" /\ pc' = [pc EXCEPT ![d] = "schedule"]
      /\ incidents' = incidents \cup Pending(d)
      /\ UNCHANGED <<results, tasks, notified>>
  BY DEF Commit, Store, Go, Pending
<1>2. pc'[d] = "schedule" /\ \A e \in Deliveries \ {d} : pc'[e] = pc[e]
  BY <1>1 DEF IInv, TypeOK
<1>3. Pending(d) = Created(d) /\ \A i \in Created(d) : i[1] = d
  BY <1>1, PendingCreated, CreatedOnRecord DEF InTransaction
<1>4. ASSUME NEW i \in incidents', <<i, i[1]>> \notin notified
      PROVE  Due(i)'
  <2>1. \A e : Created(e)' = Created(e)
    BY <1>1 DEF Created
  <2>2. CASE i \in incidents
    <3>1. Due(i) /\ i[1] \in Deliveries
      BY <1>4, <2>2 DEF Told, IInv, Booked, Named, Id
    <3>2. i[1] # d
      BY <1>1, <3>1 DEF Due
    <3> QED BY <1>1, <1>2, <2>1, <3>1, <3>2 DEF Due
  <2>3. CASE i \in Created(d)
    BY <1>2, <1>3, <2>1, <2>3 DEF Due
  <2> QED BY <1>1, <1>3, <2>2, <2>3
<1> QED BY <1>1, <1>4 DEF Told

\* The tasks of a response are all that its batch has created.
LEMMA RespondTold == ASSUME Told, IInv, NEW d \in Deliveries, Respond(d) PROVE Told'
<1>1. /\ pc[d] = "respond" /\ pc' = [pc EXCEPT ![d] = "answered"]
      /\ UNCHANGED <<incidents, results, tasks, notified>>
  BY DEF Respond, Go
<1>2. pc'[d] = "answered" /\ \A e \in Deliveries \ {d} : pc'[e] = pc[e]
  BY <1>1 DEF IInv, TypeOK
<1>3. tasks[d] = Created(d)
  BY <1>1 DEF IInv, Handling, Tasked
<1>4. ASSUME NEW i \in incidents, <<i, i[1]>> \notin notified
      PROVE  Due(i)'
  <2>1. Due(i) /\ i[1] \in Deliveries
    BY <1>4 DEF Told, IInv, Booked, Named, Id
  <2>2. CASE i[1] = d
    BY <1>1, <1>2, <1>3, <2>1, <2>2 DEF Due
  <2>3. CASE i[1] # d
    BY <1>1, <1>2, <2>1, <2>3 DEF Due, Created
  <2> QED BY <2>2, <2>3
<1> QED BY <1>1, <1>4 DEF Told

\* A task that waits no more has started.
LEMMA RunTaskTold == ASSUME Told, IInv, NEW d \in Deliveries, RunTask(d) PROVE Told'
<1>1. PICK i \in tasks[d] : /\ notified' = notified \cup {<<i, d>>}
                            /\ tasks' = [tasks EXCEPT ![d] = @ \ {i}]
  BY DEF RunTask
<1>2. pc[d] = "answered" /\ UNCHANGED <<incidents, pc, results>>
  BY DEF RunTask
<1>3. tasks'[d] = tasks[d] \ {i} /\ \A e \in Deliveries \ {d} : tasks'[e] = tasks[e]
  BY <1>1 DEF IInv, TypeOK
<1>4. ASSUME NEW k \in incidents, <<k, k[1]>> \notin notified'
      PROVE  Due(k)'
  <2>1. Due(k) /\ k[1] \in Deliveries
    BY <1>1, <1>4 DEF Told, IInv, Booked, Named, Id
  <2>2. CASE k[1] = d
    <3>1. k \in tasks[d] /\ k # i
      BY <1>1, <1>2, <1>4, <2>1, <2>2 DEF Due
    <3> QED BY <1>2, <1>3, <2>2, <3>1 DEF Due
  <2>3. CASE k[1] # d
    BY <1>2, <1>3, <2>1, <2>3 DEF Due, Created
  <2> QED BY <2>2, <2>3
<1> QED BY <1>2, <1>4 DEF Told

\* Slack, Teams and APNs hear of every incident, whatever races, fails and is
\* sent again, when the process lives, a COMMIT that raises has not happened and
\* auto_analyze is off: what is on record has been announced, its own delivery
\* is about to respond, or the task is one of those that wait.
THEOREM NobodyForgotten == ASSUME Undisturbed PROVE Spec => []Told
<1>1. Init => Told
  BY DEF Init, Told
<1>2. IInv /\ Told /\ [Next]_vars => Told'
  <2> SUFFICES ASSUME IInv, Told, [Next]_vars PROVE Told'
    OBVIOUS
  <2>1. ASSUME NEW d \in Deliveries,
               \/ Refuse(d) \/ Busy(d) \/ Invalid(d) \/ Vanished(d) \/ LoadNothing(d)
               \/ AbortDeadlock(d) \/ DatabaseFails(d) \/ ScheduleFails(d) \/ Crash(d)
        PROVE  Told'
    BY <2>1, LeaveTold
  <2>2. ASSUME NEW d \in Deliveries, Commit(d) PROVE Told'
    BY <2>2, CommitTold
  <2>3. ASSUME NEW d \in Deliveries, Respond(d) PROVE Told'
    BY <2>3, RespondTold
  <2>7. ASSUME NEW d \in Deliveries, RunTask(d) PROVE Told'
    BY <2>7, RunTaskTold
  <2>4. ASSUME NEW d \in Deliveries,
               \/ Begin(d) \/ Lookup(d) \/ LookupNothing(d) \/ Load(d) \/ Insert(d)
               \/ InsertConflicts(d) \/ Schedule(d) \/ Scheduled(d) \/ Resend(d)
        PROVE  Told'
    <3>1. /\ pc[d] # "answered"
          /\ pc[d] \in {"schedule", "respond"} =>
               pc'[d] \in {"schedule", "respond"} /\ results'[d] = results[d]
          /\ \A e \in Deliveries \ {d} : pc'[e] = pc[e] /\ tasks'[e] = tasks[e]
      BY <2>4 DEF Begin, Lookup, LookupNothing, Load, Insert, InsertConflicts, Schedule,
                  Scheduled, Resend, Record, Go, Final, IInv, TypeOK
    <3>2. \A e \in Deliveries \ {d} : results'[e] = results[e]
      BY <2>4 DEF Begin, Lookup, LookupNothing, Load, Insert, InsertConflicts, Schedule,
                  Scheduled, Resend, Record, IInv, TypeOK
    <3>3. incidents' = incidents /\ notified' = notified
      BY <2>4 DEF Begin, Lookup, LookupNothing, Load, Insert, InsertConflicts, Schedule,
                  Scheduled, Resend
    <3> QED BY <3>1, <3>2, <3>3, ToldStays
  <2>5. ASSUME NEW i \in incidents, DeleteIncident(i) PROVE Told'
    <3>1. incidents' \subseteq incidents /\ UNCHANGED <<pc, results, tasks, notified>>
      BY <2>5 DEF DeleteIncident
    <3>2. \A j : Due(j)' <=> Due(j)
      BY <3>1 DEF Due, Created
    <3> QED BY <3>1, <3>2 DEF Told
  <2>6. CASE UNCHANGED vars
    BY <2>6 DEF Told, Due, Created
  <2>8. ASSUME NEW d \in Deliveries, CommitUnsure(d) \/ LoseTasks(d) PROVE FALSE
    BY <2>8 DEF Undisturbed, CommitUnsure, LoseTasks
  <2> QED BY <2>1, <2>2, <2>3, <2>4, <2>5, <2>6, <2>7, <2>8 DEF Next, Handle, Disturb
<1> QED BY <1>1, <1>2, Invariance, PTL DEF Spec

-----------------------------------------------------------------------------
(* The book.                                                               *)

GoneRows  == {Entry(i) : i \in gone}
Announced == {x[1] : x \in notified}

\* A book that nobody writes to stays as it is.
LEMMA BookStutters ==
  ASSUME UNCHANGED <<batch, incidents, alerts, gone, notified>>
  PROVE  UNCHANGED Book!book
BY DEF Book!book

\* A commit enters the batch in the book, or finds all of its keys in it.
LEMMA CommitEnters ==
  ASSUME IInv, NEW d \in Deliveries, Commit(d) \/ CommitUnsure(d)
  PROVE  [Book!Next]_(Book!book)
<1> USE DEF IInv
<1>1. /\ pc[d] = "commit"
      /\ incidents' = incidents \cup Pending(d) /\ alerts' = alerts \cup mine[d]
      /\ UNCHANGED <<batch, gone, notified>>
  BY DEF Commit, CommitUnsure, Store, Pending
<1>2. /\ mine[d] = {Entry(i) : i \in Created(d)} /\ Pending(d) = Created(d)
      /\ \A i \in Created(d) : i \notin incidents \cup gone
  BY <1>1, PendingCreated DEF InTransaction
<1>3. CASE mine[d] = {}
  BY <1>1, <1>3, BookStutters DEF Pending
<1>4. CASE mine[d] # {}
  <2> DEFINE keys == {batch[d][n].key : n \in DOMAIN batch[d]}
  <2>1. keys \in KeySets
    BY DEF KeySets, TypeOK
  <2>2. \A i : Entry(i).incident = i /\ Entry(i).key = KeyOf(i)
    BY DEF Entry
  <2>3. alerts' \ alerts = mine[d]
    BY <1>1, <1>2, <2>2 DEF Booked
  <2>4. \A r \in mine[d] : \A s \in alerts : r.key # s.key
    BY <1>2, <2>2 DEF OneRow, Visible, Booked
  <2>5. DOMAIN batch[d] = 1 .. Len(results[d])
    BY <1>1, Lists DEF IsList, Handling, Answered
  <2>6. \A r \in mine[d] : r.key \in keys
    <3> SUFFICES ASSUME NEW i \in Created(d) PROVE KeyOf(i) \in keys
      BY <1>2, <2>2
    <3>1. i[1] = d /\ i[3] \in DOMAIN batch[d]
      BY <2>5, CreatedOnRecord
    <3> QED BY <3>1 DEF KeyOf
  <2>7. ASSUME NEW n \in DOMAIN batch[d]
        PROVE  \/ \E r \in mine[d] : r.key = batch[d][n].key
               \/ \E r \in alerts : r.key = batch[d][n].key
               \/ \E r \in GoneRows : r.key = batch[d][n].key
    <3> DEFINE i == results[d][n].incident
    <3>1. KeyOf(i) = batch[d][n].key /\ i \in incidents \cup gone \cup Created(d)
      BY <1>2, <2>5 DEF Handling, Answered
    <3> HIDE DEF i
    <3>2. Entry(i) \in mine[d] \cup alerts \cup GoneRows
      BY <1>2, <3>1 DEF Booked, GoneRows
    <3> QED BY <2>2, <3>1, <3>2
  <2>8. \A r \in mine[d] :
          r.incident \notin incidents /\ \A s \in GoneRows : r.incident # s.incident
    BY <1>2, <2>2 DEF GoneRows
  <2>9. \A r, s \in mine[d] : r.key = s.key <=> r.incident = s.incident
    BY <1>2, <2>2 DEF OneRow, Visible
  <2>10. incidents' = incidents \cup {r.incident : r \in mine[d]}
    BY <1>1 DEF Pending
  <2> HIDE DEF keys
  <2>11. Book!Enter(keys, mine[d])
    BY <1>1, <2>4, <2>6, <2>7, <2>8, <2>9, <2>10
       DEF Book!Enter, Book!Keys, Book!Ids, GoneRows, Entry, KeyOf, keys
  <2> QED BY <1>4, <2>1, <2>3, <2>11 DEF Book!Next
<1> QED BY <1>3, <1>4

\* DELETE strikes an entry out.
LEMMA DeleteStrikes ==
  ASSUME IInv, NEW i \in incidents, DeleteIncident(i)
  PROVE  Book!Next
<1>1. /\ incidents' = incidents \ {i} /\ gone' = gone \cup {i}
      /\ alerts' = {r \in alerts : r.incident # i}
      /\ UNCHANGED <<batch, notified>>
  BY DEF DeleteIncident
<1>2. PICK r \in alerts : r = Entry(i)
  BY DEF IInv, Booked
<1>3. r.incident = i /\ \A s \in alerts : s.incident = i => s = r
  BY <1>2 DEF IInv, Booked, Entry
<1>4. alerts' = alerts \ {r}
  BY <1>1, <1>3
<1>5. Book!Delete(r)
  BY <1>1, <1>2, <1>3, <1>4 DEF Book!Delete, Entry, KeyOf
<1> QED BY <1>5 DEF Book!Next

\* A background task announces an entry that nobody has announced.
LEMMA RunTaskAnnounces ==
  ASSUME IInv, NEW d \in Deliveries, RunTask(d)
  PROVE  Book!Next
<1>1. PICK i \in tasks[d] : notified' = notified \cup {<<i, d>>}
  BY DEF RunTask
<1>2. pc[d] = "answered" /\ UNCHANGED <<batch, incidents, alerts, gone>>
  BY DEF RunTask
<1>3. /\ mine[d] = {} /\ i \in Created(d) /\ <<i, d>> \notin notified
  BY <1>2 DEF IInv, Handling, Opened, Tasked, InOrder, InTransaction
<1>4. i[1] = d /\ i \in incidents \cup gone
  BY <1>3, CreatedOnRecord DEF Pending
<1>5. i \notin Announced
  <2> SUFFICES ASSUME NEW x \in notified, x[1] = i PROVE FALSE
    BY DEF Announced
  <2>1. x = <<i, d>>
    BY <1>4 DEF IInv, Heard
  <2> QED BY <1>3, <2>1
<1>6. Announced' = Announced \cup {i}
  <2>1. <<i, d>>[1] = i
    OBVIOUS
  <2> QED BY <1>1, <2>1 DEF Announced
<1>7. i \in incidents \cup {r.incident : r \in GoneRows}
  <2>1. \A k \in gone : Entry(k) \in GoneRows /\ Entry(k).incident = k
    BY DEF GoneRows, Entry
  <2> QED BY <1>4, <2>1
<1>8. Book!Announce(i)
  BY <1>2, <1>5, <1>6, <1>7 DEF Book!Announce, Book!Ids, GoneRows, Announced, Entry, KeyOf
<1>9. i \in Announced' \ Announced
  BY <1>5, <1>6
<1> QED BY <1>8, <1>9 DEF Book!Next, Announced

\* Everything else a delivery does is invisible in the book.
LEMMA OthersStutter ==
  ASSUME NEW d \in Deliveries,
         \/ Handle(d) /\ ~Commit(d) /\ ~RunTask(d)
         \/ Disturb(d) /\ ~CommitUnsure(d)
         \/ Resend(d)
  PROVE  UNCHANGED Book!book
<1>1. UNCHANGED <<batch, incidents, alerts, gone, notified>>
  BY DEF Handle, Disturb, Refuse, Begin, Busy, Lookup, LookupNothing, Invalid, Vanished, Load,
         LoadNothing, Insert, InsertConflicts, AbortDeadlock, DatabaseFails, Schedule,
         ScheduleFails, Scheduled, Respond, Crash, LoseTasks, Resend, Leave
<1> QED BY <1>1, BookStutters

\* Batches that race, conflict, fail and are sent again are, seen from outside,
\* whole entries in a book that has one incident for a key.
THEOREM Implementation == Spec => ImplementsBook
<1>1. Init => Book!Init
  BY DEF Init, Book!Init
<1>2. IInv /\ [Next]_vars => [Book!Next]_(Book!book)
  <2> SUFFICES ASSUME IInv, [Next]_vars PROVE [Book!Next]_(Book!book)
    OBVIOUS
  <2>1. ASSUME NEW d \in Deliveries, Commit(d) \/ CommitUnsure(d)
        PROVE  [Book!Next]_(Book!book)
    BY <2>1, CommitEnters
  <2>2. ASSUME NEW d \in Deliveries, RunTask(d) PROVE [Book!Next]_(Book!book)
    BY <2>2, RunTaskAnnounces
  <2>3. ASSUME NEW i \in incidents, DeleteIncident(i) PROVE [Book!Next]_(Book!book)
    BY <2>3, DeleteStrikes
  <2>4. CASE UNCHANGED vars
    BY <2>4, BookStutters DEF vars, store
  <2>5. ASSUME NEW d \in Deliveries,
               \/ Handle(d) /\ ~Commit(d) /\ ~RunTask(d)
               \/ Disturb(d) /\ ~CommitUnsure(d)
               \/ Resend(d)
        PROVE  [Book!Next]_(Book!book)
    BY <2>5, OthersStutter
  <2> QED BY <2>1, <2>2, <2>3, <2>4, <2>5 DEF Next
<1> QED BY <1>1, <1>2, Invariance, PTL DEF Spec, ImplementsBook, Book!Spec

=============================================================================
