-------------------------- MODULE LogArchiveProofs --------------------------
(***************************************************************************)
(* The safety of LogArchive for any number of requests, log entries and    *)
(* attempts.  First what ORDER BY timestamp determines, then the inductive *)
(* invariant.                                                              *)
(***************************************************************************)
EXTENDS LogArchive, FiniteSetTheorems, SequenceTheorems, TLAPS

-----------------------------------------------------------------------------
(* What the order determines.                                              *)

\* Numbers have a least one: the initial segments are well-founded.
LEMMA LeastOf ==
  ASSUME NEW T, T \subseteq Nat, T # {}
  PROVE  \E x \in T : \A y \in T : x <= y
<1> DEFINE F == {0 .. x : x \in T}
<1>1. F \subseteq FiniteSubsetsOf(Nat) /\ F # {}
  <2>1. ASSUME NEW x \in T PROVE 0 .. x \in FiniteSubsetsOf(Nat)
    <3>1. x \in Int /\ 0 .. x \subseteq Nat
      OBVIOUS
    <3>2. IsFiniteSet(0 .. x)
      BY <3>1, FS_Interval
    <3> QED BY <3>1, <3>2 DEF FiniteSubsetsOf
  <2> QED BY <2>1
<1>2. IsWellFoundedOn(StrictSubsetOrdering(Nat), FiniteSubsetsOf(Nat))
  BY FS_StrictSubsetOrderingWellFounded
<1> HIDE DEF F
<1>3. PICK I \in F : \A J \in F : <<J, I>> \notin StrictSubsetOrdering(Nat)
  BY <1>1, <1>2, WFMin
<1>4. PICK x \in T : I = 0 .. x
  BY DEF F
<1>5. ASSUME NEW y \in T, y < x PROVE FALSE
  <2>1. 0 .. y \in F /\ 0 .. y \subseteq 0 .. x /\ x \notin 0 .. y /\ x \in 0 .. x
    BY <1>5 DEF F
  <2>2. 0 .. x \subseteq Nat /\ 0 .. y \subseteq Nat
    OBVIOUS
  <2> QED BY <1>3, <1>4, <2>1, <2>2 DEF StrictSubsetOrdering
<1> QED BY <1>5

\* The order of the SELECT.
Sorted(s) == IsInjective(s) /\ \A m, n \in DOMAIN s : m < n => s[m].time <= s[n].time

\* Entries whose timestamps differ come in one order only.
LEMMA SortedOnce ==
  ASSUME NEW s \in Seq(Entry), NEW t \in Seq(Entry), Sorted(s), Sorted(t),
         Range(s) = Range(t), Distinct(s)
  PROVE  s = t
<1>1. /\ Len(s) \in Nat /\ DOMAIN s = 1 .. Len(s)
      /\ Len(t) \in Nat /\ DOMAIN t = 1 .. Len(t)
  OBVIOUS
<1>2. /\ \A n \in DOMAIN s : s[n].time \in Nat /\ \E a \in DOMAIN t : s[n] = t[a]
      /\ \A n \in DOMAIN t : t[n].time \in Nat /\ \E b \in DOMAIN s : t[n] = s[b]
  <2>1. \A n \in DOMAIN s : s[n] \in Entry
    OBVIOUS
  <2>2. \A n \in DOMAIN t : t[n] \in Entry
    OBVIOUS
  <2>3. \A n \in DOMAIN s : s[n] \in Range(t)
    BY DEF Range
  <2>4. \A n \in DOMAIN t : t[n] \in Range(s)
    BY DEF Range
  <2> QED BY <2>1, <2>2, <2>3, <2>4, ArchiveAssumption DEF Entry, Range
<1>3. \A m, n \in DOMAIN s : m < n => s[m].time < s[n].time
  <2> SUFFICES ASSUME NEW m \in DOMAIN s, NEW n \in DOMAIN s, m < n
               PROVE  s[m].time < s[n].time
    OBVIOUS
  <2>1. s[m].time <= s[n].time
    BY DEF Sorted
  <2>2. s[m].time # s[n].time
    BY <1>1 DEF Distinct
  <2>3. s[m].time \in Nat /\ s[n].time \in Nat
    BY <1>2
  <2> QED BY <2>1, <2>2, <2>3
<1> DEFINE differ == {n \in DOMAIN s : ~(n \in DOMAIN t /\ s[n] = t[n])}
<1>4. differ = {}
  <2> SUFFICES ASSUME differ # {} PROVE FALSE
    OBVIOUS
  <2>1. PICK n \in differ : \A k \in differ : n <= k
    <3> differ \subseteq Nat
      BY <1>1
    <3> QED BY LeastOf
  <2>2. n \in DOMAIN s /\ \A k \in 1 .. n - 1 : k \in DOMAIN s /\ k \in DOMAIN t /\ s[k] = t[k]
    BY <1>1, <2>1
  <2>3. PICK a \in DOMAIN t : s[n] = t[a]
    BY <1>2, <2>2
  <2>4. a >= n
    BY <1>1, <2>2, <2>3 DEF Sorted, IsInjective
  <2>5. n \in DOMAIN t
    BY <1>1, <2>2, <2>4
  <2>6. PICK b \in DOMAIN s : t[n] = s[b]
    BY <1>2, <2>5
  <2>7. b >= n
    BY <1>1, <2>2, <2>5, <2>6 DEF Sorted, IsInjective
  <2>8. b # n
    BY <2>1, <2>5, <2>6
  <2>9. s[n].time < s[b].time
    BY <1>1, <1>3, <2>2, <2>7, <2>8
  <2>10. t[n].time <= t[a].time
    <3>1. CASE a = n
      <4>1. t[n].time \in Nat
        BY <1>2, <2>5
      <4> QED BY <3>1, <4>1
    <3>2. CASE a > n
      BY <2>5, <3>2 DEF Sorted
    <3> QED BY <1>1, <2>4, <2>5, <3>1, <3>2
  <2>11. s[n].time \in Nat /\ t[n].time \in Nat
    BY <1>2, <2>2, <2>5
  <2> QED BY <2>3, <2>6, <2>9, <2>10, <2>11
<1>5. DOMAIN s \subseteq DOMAIN t /\ \A n \in DOMAIN s : s[n] = t[n]
  BY <1>4
<1>6. DOMAIN t \subseteq DOMAIN s
  <2> SUFFICES ASSUME NEW n \in DOMAIN t PROVE n \in DOMAIN s
    OBVIOUS
  <2>1. PICK b \in DOMAIN s : t[n] = s[b]
    BY <1>2
  <2>2. t[b] = t[n] /\ b \in DOMAIN t
    BY <1>5, <2>1
  <2> QED BY <2>1, <2>2 DEF Sorted, IsInjective
<1>7. Len(s) = Len(t)
  <2>1. 1 .. Len(s) = 1 .. Len(t)
    BY <1>1, <1>5, <1>6
  <2>2. ASSUME NEW i \in Nat, NEW j \in Nat, 1 .. i = 1 .. j
        PROVE  i = j
    <3>1. i # 0 => i \in 1 .. j
      BY <2>2
    <3>2. j # 0 => j \in 1 .. i
      BY <2>2
    <3> QED BY <3>1, <3>2
  <2> QED BY <1>1, <2>1, <2>2
<1> QED BY <1>1, <1>5, <1>7, SeqEqual

-----------------------------------------------------------------------------
(* The inductive invariant.                                                *)

\* Whatever has been read is in the order of its timestamps.
InOrder == \A r \in Archives : Sorted(content[r])

\* A file that was begun, an upload that succeeded and what the timeline tells
\* of are in the store.
InStore ==
  \A r \in Archives :
    r \in timeline \/ pc[r] \in {"writing", "interrupted", "stored", "committed", "done"} =>
      content[r] \in DOMAIN objects

\* Only a write that is under way or was cut short leaves a torn object.
Torn ==
  \A s \in DOMAIN objects : objects[s] = "torn" =>
    \E q \in Archives : content[q] = s /\ MayTear(q)

\* The event is committed before the answer, and after the upload.
Recorded ==
  \A r \in Archives :
    /\ r \in timeline => pc[r] \in {"committed", "done", "crashed"}
    /\ pc[r] \in {"committed", "done"} => r \in timeline \/ ~exists

\* Objects were made by requests that had read them.
Idle == {"waiting", "not_found", "refused"}

Made ==
  /\ \A s \in DOMAIN objects : \E r \in Archives : content[r] = s /\ pc[r] \notin Idle
  /\ DOMAIN objects # {} => store # "none"

IInv ==
  /\ TypeOK /\ IsFiniteSet(logs)
  /\ InOrder /\ InStore /\ Torn /\ Recorded /\ Made

-----------------------------------------------------------------------------
(* The steps.                                                              *)

\* No request has come.
LEMMA InitInv == Init => IInv
<1> SUFFICES ASSUME Init PROVE IInv
  OBVIOUS
<1>1. TypeOK
  BY ArchiveAssumption DEF Init, TypeOK
<1>2. IsFiniteSet(logs)
  BY FS_EmptySet DEF Init
<1>3. InOrder
  BY DEF Init, InOrder, Sorted, IsInjective
<1>4. InStore /\ Torn /\ Recorded /\ Made
  BY DEF Init, InStore, Torn, Recorded, Made, Requests
<1> QED BY <1>1, <1>2, <1>3, <1>4 DEF IInv

Labels == {"waiting", "read", "writing", "stored", "committed", "done",
           "not_found", "refused", "failed", "crashed", "interrupted"}

\* A request goes on without touching any data.
LEMMA MoveStep ==
  ASSUME IInv, NEW r \in Requests, NEW l \in Labels, Go(r, l),
         UNCHANGED <<store, exists, logs, timeline, objects, content, attempts>>,
         r \in Archives =>
           /\ l \in {"writing", "interrupted", "stored", "committed", "done"} =>
                pc[r] \in {"writing", "interrupted", "stored", "committed", "done"}
           /\ MayTear(r) => l \in {"writing", "interrupted"}
           /\ r \in timeline => l \in {"committed", "done", "crashed"}
           /\ l \in {"committed", "done"} => pc[r] \in {"committed", "done"}
           /\ l \in Idle => pc[r] \in Idle \/ content[r] \notin DOMAIN objects
  PROVE  IInv'
<1> USE DEF IInv
<1>1. pc'[r] = l /\ \A q \in Requests \ {r} : pc'[q] = pc[q]
  BY DEF Go, TypeOK
<1>2. TypeOK'
  BY DEF Go, TypeOK, Labels
<1>3. IsFiniteSet(logs') /\ InOrder'
  BY DEF InOrder
<1>4. InStore'
  BY <1>1 DEF InStore, Requests
<1>5. Torn'
  BY <1>1 DEF Torn, MayTear, Requests
<1>6. Recorded'
  BY <1>1 DEF Recorded, Requests
<1>7. Made'
  BY <1>1 DEF Made, Requests
<1> QED BY <1>2, <1>3, <1>4, <1>5, <1>6, <1>7

\* One object is put into the store, whole or torn.
LEMMA StoreStep ==
  ASSUME IInv, NEW r \in Archives, NEW l \in Labels, NEW form \in {"whole", "torn"},
         Go(r, l), UNCHANGED <<store, exists, logs, timeline, content>>,
         attempts' \in [Archives -> 0 .. MaxAttempts],
         Len(content[r]) <= MaxEntries, store # "none",
         objects' = [s \in DOMAIN objects \cup {content[r]} |->
                       IF s = content[r] THEN form ELSE objects[s]],
         form = "torn" <=> l = "writing", l \notin Idle \cup {"committed", "done"},
         pc[r] \in {"read", "writing"}, l # "interrupted"
  PROVE  IInv'
<1> USE DEF IInv
<1>1. pc'[r] = l /\ \A q \in Requests \ {r} : pc'[q] = pc[q]
  BY DEF Go, TypeOK, Requests
<1>2. /\ DOMAIN objects' = DOMAIN objects \cup {content[r]}
      /\ objects'[content[r]] = form
      /\ \A s \in DOMAIN objects : s # content[r] => objects'[s] = objects[s]
  OBVIOUS
<1>3. TypeOK'
  <2>1. \A s \in DOMAIN objects' :
          s \in Seq(Entry) /\ objects'[s] \in {"whole", "torn"} /\ Len(s) <= MaxEntries
    BY <1>2 DEF TypeOK
  <2>2. pc' \in [Requests -> Labels]
    BY DEF Go, TypeOK, Labels
  <2> QED BY <2>1, <2>2 DEF TypeOK, Labels
<1>4. IsFiniteSet(logs') /\ InOrder'
  BY DEF InOrder
<1>5. InStore'
  BY <1>1, <1>2 DEF InStore, Requests
<1>6. Torn'
  <2> SUFFICES ASSUME NEW s \in DOMAIN objects', objects'[s] = "torn"
               PROVE  \E q \in Archives : content[q] = s /\ MayTear(q)'
    BY DEF Torn
  <2>1. CASE s = content[r]
    BY <1>1, <1>2, <2>1 DEF MayTear
  <2>2. CASE s # content[r]
    <3>1. PICK q \in Archives : content[q] = s /\ MayTear(q)
      BY <1>2, <2>2 DEF Torn
    <3> QED BY <1>1, <2>2, <3>1 DEF MayTear, Requests
  <2> QED BY <2>1, <2>2
<1>7. Recorded'
  BY <1>1 DEF Recorded, Requests
<1>8. Made'
  BY <1>1, <1>2 DEF Made, Requests
<1> QED BY <1>3, <1>4, <1>5, <1>6, <1>7, <1>8

\* The logs are read.
LEMMA ReadStep == ASSUME IInv, NEW r \in Archives, ReadLogs(r) PROVE IInv'
<1> USE DEF IInv
<1>1. PICK s \in Orders : content' = [content EXCEPT ![r] = s]
  BY DEF ReadLogs
<1>2. /\ pc[r] = "waiting" /\ pc' = [pc EXCEPT ![r] = "read"]
      /\ UNCHANGED <<store, exists, logs, timeline, objects, attempts>>
  BY DEF ReadLogs, Go
<1>3. /\ pc'[r] = "read" /\ content'[r] = s
      /\ \A q \in Requests \ {r} : pc'[q] = pc[q]
      /\ \A q \in Archives \ {r} : content'[q] = content[q]
  BY <1>1, <1>2 DEF TypeOK, Requests
<1>4. s \in Seq(Entry) /\ Sorted(s)
  <2>1. Cardinality(logs) \in Nat
    BY FS_CardinalityType
  <2>2. s \in [1 .. Cardinality(logs) -> Entry]
    BY <1>1 DEF Orders, TypeOK
  <2> QED BY <1>1, <2>1, <2>2 DEF Orders, Sorted
<1>5. TypeOK'
  BY <1>1, <1>2, <1>4 DEF TypeOK, Requests
<1>6. InOrder'
  BY <1>3, <1>4 DEF InOrder
<1>7. r \notin timeline
  BY <1>2 DEF Recorded
<1>8. InStore'
  BY <1>2, <1>3, <1>7 DEF InStore, Requests
<1>9. Torn'
  BY <1>2, <1>3 DEF Torn, MayTear, Requests
<1>10. Recorded'
  BY <1>2, <1>3, <1>7 DEF Recorded, Requests
<1>11. Made'
  BY <1>2, <1>3 DEF Made, Idle, Requests
<1> QED BY <1>2, <1>5, <1>6, <1>8, <1>9, <1>10, <1>11

\* The event is committed.
LEMMA RecordStep == ASSUME IInv, NEW r \in Archives, Record(r) PROVE IInv'
<1> USE DEF IInv
<1>1. /\ pc[r] = "stored" /\ timeline' = timeline \cup {r}
      /\ pc' = [pc EXCEPT ![r] = "committed"]
      /\ UNCHANGED <<store, exists, logs, objects, content, attempts>>
  BY DEF Record, Go
<1>2. pc'[r] = "committed" /\ \A q \in Requests \ {r} : pc'[q] = pc[q]
  BY <1>1 DEF TypeOK, Requests
<1>3. TypeOK'
  BY <1>1 DEF TypeOK, Requests
<1>4. InOrder' /\ InStore'
  BY <1>1, <1>2 DEF InOrder, InStore, Requests
<1>5. Torn' /\ Recorded' /\ Made'
  BY <1>1, <1>2 DEF Torn, MayTear, Recorded, Made, Idle, Requests
<1> QED BY <1>1, <1>3, <1>4, <1>5

\* Log entries or a note are added, with their event.
LEMMA AddStep ==
  ASSUME IInv, NEW l, \/ l \in Additions /\ AddLogs(l)
                      \/ l \in Notes /\ AddNote(l)
  PROVE  IInv'
<1> USE DEF IInv
<1>1. /\ timeline' = timeline \cup {l} /\ pc' = [pc EXCEPT ![l] = "done"]
      /\ UNCHANGED <<store, exists, objects, content, attempts>>
  BY DEF AddLogs, AddNote, Go
<1>2. l \notin Archives /\ l \in Requests
  BY ArchiveAssumption DEF Requests
<1>3. \A q \in Archives : pc'[q] = pc[q] /\ (q \in timeline' <=> q \in timeline)
  BY <1>1, <1>2 DEF TypeOK, Requests
<1>4. logs' \subseteq Entry /\ IsFiniteSet(logs')
  <2>1. CASE AddNote(l)
    BY <2>1 DEF AddNote, TypeOK
  <2>2. CASE l \in Additions /\ AddLogs(l)
    <3>1. PICK time \in Times : logs' = logs \cup {[by |-> l, time |-> time]}
      BY <2>2 DEF AddLogs
    <3>2. [by |-> l, time |-> time] \in Entry
      BY <2>2 DEF Entry
    <3>3. IsFiniteSet(logs')
      BY <3>1, FS_AddElement
    <3> QED BY <3>1, <3>2, <3>3 DEF TypeOK
  <2> QED BY <2>1, <2>2
<1>5. TypeOK'
  BY <1>1, <1>2, <1>4 DEF TypeOK
<1>6. InOrder' /\ InStore' /\ Torn' /\ Recorded' /\ Made'
  BY <1>1, <1>3 DEF InOrder, InStore, Torn, MayTear, Recorded, Made
<1> QED BY <1>4, <1>5, <1>6

\* The incident is deleted.
LEMMA DeleteStep == ASSUME IInv, DeleteIncident PROVE IInv'
<1> USE DEF IInv
<1>1. /\ exists' = FALSE /\ logs' = {} /\ timeline' = {}
      /\ UNCHANGED <<store, objects, pc, content, attempts>>
  BY DEF DeleteIncident
<1>2. IsFiniteSet(logs')
  BY <1>1, FS_EmptySet
<1>3. TypeOK'
  BY <1>1 DEF TypeOK
<1>4. InOrder' /\ InStore' /\ Torn' /\ Recorded' /\ Made'
  BY <1>1 DEF InOrder, InStore, Torn, MayTear, Recorded, Made
<1> QED BY <1>2, <1>3, <1>4

\* Every step keeps the invariant.
LEMMA StepInv == IInv /\ [Next]_vars => IInv'
<1> SUFFICES ASSUME IInv, [Next]_vars PROVE IInv'
  OBVIOUS
<1> USE DEF IInv
<1>1. ASSUME NEW r \in Archives,
             WriteFails(r) \/ RecordFails(r) \/ Answer(r) \/ Crash(r)
      PROVE  IInv'
  <2>1. PICK l \in Labels :
          /\ Go(r, l)
          /\ UNCHANGED <<store, exists, logs, timeline, objects, content, attempts>>
          /\ \/ pc[r] = "writing" /\ l = "interrupted"
             \/ pc[r] = "stored" /\ l = "failed"
             \/ pc[r] = "committed" /\ l = "done"
             \/ pc[r] \in {"read", "stored", "committed"} /\ l = "crashed"
    BY <1>1 DEF WriteFails, RecordFails, Answer, Crash, Labels
  <2>2. r \in timeline => pc[r] \in {"committed", "done", "crashed"}
    BY DEF Recorded
  <2> QED BY <2>1, <2>2, MoveStep DEF MayTear, Idle, Requests
<1>2. ASSUME NEW r \in Archives, Refuse(r) PROVE IInv'
  <2>1. content[r] \notin DOMAIN objects
    BY <1>2 DEF Refuse, MayUpload, TypeOK, Made
  <2>2. r \notin timeline
    BY <1>2 DEF Refuse, Recorded
  <2> QED BY <1>2, <2>1, <2>2, MoveStep DEF Refuse, MayTear, Idle, Labels, Requests
<1>3. ASSUME NEW r \in Requests, NotFound(r) PROVE IInv'
  <2>1. r \in Archives => r \notin timeline
    BY <1>3 DEF NotFound, Recorded
  <2> QED BY <1>3, <2>1, MoveStep DEF NotFound, MayTear, Idle, Labels
<1>4. ASSUME NEW r \in Archives, Truncate(r) PROVE IInv'
  BY <1>4, StoreStep DEF Truncate, MayUpload, Idle, Labels, TypeOK
<1>5. ASSUME NEW r \in Archives, Write(r) PROVE IInv'
  <2>1. pc[r] = "writing" /\ content[r] \in DOMAIN objects
    BY <1>5 DEF Write, InStore
  <2>2. Len(content[r]) <= MaxEntries /\ store # "none"
    BY <2>1 DEF TypeOK, Made
  <2> QED BY <1>5, <2>1, <2>2, StoreStep DEF Write, Stored, Idle, Labels, TypeOK
<1>6. ASSUME NEW r \in Archives, Attempt(r)
      PROVE  /\ attempts' \in [Archives -> 0 .. MaxAttempts]
             /\ pc[r] = "read" /\ Len(content[r]) <= MaxEntries /\ store # "none"
  BY <1>6, ArchiveAssumption DEF Attempt, MayUpload, TypeOK
<1>7. ASSUME NEW r \in Archives, Put(r) PROVE IInv'
  BY <1>6, <1>7, StoreStep DEF Put, Stored, Idle, Labels
<1>8. ASSUME NEW r \in Archives, PutFails(r) PROVE IInv'
  <2>1. PICK l \in {"read", "failed"} : Go(r, l)
    BY <1>8 DEF PutFails
  <2>2. Attempt(r) /\ UNCHANGED <<store, exists, logs, timeline, content>>
    BY <1>8 DEF PutFails
  <2>3. CASE objects' = Stored(r)
    BY <1>6, <2>1, <2>2, <2>3, StoreStep DEF Stored, Idle, Labels
  <2>4. CASE objects' = objects
    <3>1. pc'[r] = l /\ \A q \in Requests \ {r} : pc'[q] = pc[q]
      BY <2>1 DEF Go, TypeOK, Requests
    <3>2. pc[r] = "read" /\ r \notin timeline
      BY <1>6, <2>2 DEF Recorded
    <3>3. TypeOK'
      BY <1>6, <2>1, <2>2, <2>4 DEF Go, TypeOK
    <3>4. InOrder' /\ InStore'
      BY <2>2, <2>4, <3>1, <3>2 DEF InOrder, InStore, Requests
    <3>5. Torn' /\ Recorded' /\ Made'
      BY <2>2, <2>4, <3>1, <3>2 DEF Torn, MayTear, Recorded, Made, Idle, Requests
    <3> QED BY <2>2, <3>3, <3>4, <3>5
  <2> QED BY <1>8, <2>3, <2>4 DEF PutFails
<1>9. ASSUME NEW l \in Additions, AddLogs(l) PROVE IInv'
  BY <1>9, AddStep
<1>10. ASSUME NEW n \in Notes, AddNote(n) PROVE IInv'
  BY <1>10, AddStep
<1>11. CASE UNCHANGED vars
  BY <1>11 DEF vars, TypeOK, InOrder, InStore, Torn, MayTear, Recorded, Made
<1> QED BY <1>1, <1>2, <1>3, <1>4, <1>5, <1>7, <1>8, <1>9, <1>10, <1>11,
           ReadStep, RecordStep, DeleteStep DEF Next, Archive

-----------------------------------------------------------------------------
(* The theorems.                                                           *)

\* The invariant always holds.
THEOREM Invariance == Spec => []IInv
<1>1. Init => IInv
  BY InitInv
<1>2. IInv /\ [Next]_vars => IInv'
  BY StepInv
<1> QED BY <1>1, <1>2, PTL DEF Spec

\* Types; no object exceeds the limit.
THEOREM TypeCorrect == Spec => []TypeOK
<1>1. IInv => TypeOK
  BY DEF IInv
<1> QED BY <1>1, Invariance, PTL

\* An archive on the timeline, or answered with a receipt, is in the store, and
\* torn only by another request for the same logs.
THEOREM ReceiptsAreBacked == Spec => []ReceiptBacked
<1>1. IInv => ReceiptBacked
  <2> SUFFICES ASSUME IInv, NEW r \in Archives,
                      r \in timeline \/ pc[r] \in {"committed", "done"}
               PROVE  /\ content[r] \in DOMAIN objects
                      /\ objects[content[r]] = "torn" =>
                           \E q \in Archives \ {r} : content[q] = content[r] /\ MayTear(q)
    BY DEF ReceiptBacked
  <2>1. content[r] \in DOMAIN objects
    BY DEF IInv, InStore
  <2>2. ~MayTear(r)
    BY DEF IInv, Recorded, MayTear
  <2> QED BY <2>1, <2>2 DEF IInv, Torn
<1> QED BY <1>1, Invariance, PTL

\* Every object is accounted for, and unchanged logs with distinct timestamps
\* have one object at most.
THEOREM AccountIsComplete == Spec => []ArchivesAccountedFor
<1>1. IInv => ArchivesAccountedFor
  <2> SUFFICES ASSUME IInv PROVE ArchivesAccountedFor
    OBVIOUS
  <2>1. ASSUME NEW s \in DOMAIN objects
        PROVE  \E r \in Archives :
                 /\ content[r] = s
                 /\ \/ r \in timeline
                    \/ ~exists
                    \/ pc[r] \in {"read", "writing", "stored"}
                    \/ pc[r] \in {"failed", "crashed", "interrupted"}
    <3>1. PICK r \in Archives : content[r] = s /\ pc[r] \notin Idle
      BY DEF IInv, Made
    <3>2. pc[r] \in {"read", "writing", "stored", "failed", "crashed", "interrupted",
                     "committed", "done"}
      BY <3>1 DEF IInv, TypeOK, Requests, Idle
    <3> QED BY <3>1, <3>2 DEF IInv, Recorded
  <2>2. ASSUME NEW s \in DOMAIN objects, NEW t \in DOMAIN objects,
               Range(s) = Range(t), Distinct(s)
        PROVE  s = t
    <3>1. Sorted(s) /\ Sorted(t)
      BY DEF IInv, Made, InOrder
    <3>2. s \in Seq(Entry) /\ t \in Seq(Entry)
      BY DEF IInv, TypeOK
    <3> QED BY <2>2, <3>1, <3>2, SortedOnce
  <2> QED BY <2>1, <2>2 DEF ArchivesAccountedFor
<1> QED BY <1>1, Invariance, PTL

=============================================================================
