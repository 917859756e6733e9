----------------------- MODULE PostmortemExportProofs -----------------------
(***************************************************************************)
(* The safety of PostmortemExport for any number of exports, drafts,       *)
(* processes, destinations and restarts, on both databases.                *)
(***************************************************************************)
EXTENDS PostmortemExport, FiniteSetTheorems, TLAPS

-----------------------------------------------------------------------------
(* The inductive invariant.                                                *)

\* Artifacts are numbered from 1.
Numbered ==
  /\ IsFiniteSet(remote)
  /\ \A a \in remote : a.id \in 1 .. Cardinality(remote)
  /\ \A a, b \in remote : a.id = b.id => a = b

\* One process on SQLite, one export of a process, one holder of the row lock.
AtRow(r) == pc[r] \in {"posting", "storing", "read"}

Locked ==
  /\ sqlite => \E p \in Processes : \A r \in Requests : home[r] = p
  /\ \A x, y \in Exports : Guarded(x) /\ Guarded(y) /\ home[x] = home[y] => x = y
  /\ ~sqlite => \A q, r \in Requests : AtRow(q) /\ AtRow(r) => q = r

\* What a session has read is still so: on PostgreSQL to the letter, on SQLite
\* that there is a draft.
Copied(r) ==
  copy[r] # None => /\ exists => draft # None
                    /\ ~sqlite /\ AtRow(r) => copy[r] = draft

Real(x) == answer[x] # None /\ ~answer[x].demo

\* An export posts only while there is no real receipt, and has what it posted.
Handing(x) ==
  /\ pc[x] \in {"posting", "storing"} =>
       /\ copy[x] # None
       /\ exists => receipts[target[x]] = None \/ receipts[target[x]].demo
  /\ pc[x] = "storing" =>
       /\ answer[x] # None
       /\ Real(x) => \E a \in remote : /\ a.id = answer[x].id
                                       /\ a.destination = target[x]
                                       /\ a.text = copy[x].text

\* While the incident exists an artifact that is no orphan has its receipt, in
\* the table or in the hands of the export that made it.
Recorded(a) ==
  receipts[a.destination] # None /\ ~receipts[a.destination].demo
    /\ receipts[a.destination].id = a.id

InHand(a) ==
  \E x \in Exports : /\ pc[x] = "storing" /\ Real(x)
                     /\ answer[x].id = a.id /\ target[x] = a.destination

Owned == exists => \A a \in remote \ orphans : Recorded(a) \/ InHand(a)

\* The version counts the writes, from nothing.
Counted == (draft = None => writes = 0) /\ VersionCountsWrites

IInv ==
  /\ TypeOK /\ Numbered /\ Locked
  /\ \A r \in Requests : Copied(r)
  /\ \A x \in Exports : Handing(x)
  /\ Owned /\ LinksAgree /\ Counted

-----------------------------------------------------------------------------
(* What the locks and the numbers give.                                    *)

USE DEF settings, store

\* One export at a time posts or stores, under either database.
LEMMA OneAtWork ==
  ASSUME IInv, NEW x \in Exports, NEW y \in Exports,
         pc[x] \in {"posting", "storing"}, pc[y] \in {"posting", "storing"}
  PROVE  x = y
<1>1. x \in Requests /\ y \in Requests
  BY DEF Requests
<1>2. CASE sqlite
  BY <1>1, <1>2 DEF IInv, Locked, Guarded
<1>3. CASE ~sqlite
  BY <1>1, <1>3 DEF IInv, Locked, AtRow
<1> QED BY <1>2, <1>3

\* An export that is posting has the text in hand.
LEMMA NewArtifactType ==
  ASSUME IInv, NEW x \in Exports, pc[x] = "posting"
  PROVE  /\ NewArtifact(x) \in Artifact
         /\ NewArtifact(x).id = Cardinality(remote) + 1
         /\ NewArtifact(x).destination = target[x]
         /\ NewArtifact(x).text = copy[x].text
         /\ NewArtifact(x) \notin remote
         /\ Cardinality(remote) \in Nat
<1>1. Cardinality(remote) \in Nat
  BY FS_CardinalityType DEF IInv, Numbered
<1>2. copy[x] \in Draft
  BY DEF IInv, TypeOK, Handing, Requests
<1>3. target[x] \in Destinations
  BY DEF IInv, TypeOK
<1>4. \A a \in remote : a.id # Cardinality(remote) + 1
  BY <1>1 DEF IInv, Numbered
<1> QED BY <1>1, <1>2, <1>3, <1>4 DEF NewArtifact, Artifact, Draft

\* A new artifact gets the next number.
LEMMA NumberedStep ==
  ASSUME IInv, NEW x \in Exports, pc[x] = "posting", remote' = remote \cup {NewArtifact(x)}
  PROVE  Numbered' /\ remote' \subseteq Artifact
<1> DEFINE new == NewArtifact(x)
<1>1. /\ new \in Artifact /\ new.id = Cardinality(remote) + 1
      /\ new \notin remote /\ Cardinality(remote) \in Nat
  BY NewArtifactType
<1> HIDE DEF new
<1>2. IsFiniteSet(remote') /\ Cardinality(remote') = Cardinality(remote) + 1
  BY <1>1, FS_AddElement DEF IInv, Numbered, new
<1>3. remote' = remote \cup {new}
  BY DEF new
<1>4. \A a \in remote' : a.id \in 1 .. Cardinality(remote')
  BY <1>1, <1>2, <1>3 DEF IInv, Numbered
<1>5. \A a \in remote : a.id # new.id
  BY <1>1 DEF IInv, Numbered
<1>6. \A a, b \in remote' : a.id = b.id => a = b
  BY <1>3, <1>5 DEF IInv, Numbered
<1> QED BY <1>1, <1>2, <1>3, <1>4, <1>6 DEF Numbered, IInv, TypeOK

-----------------------------------------------------------------------------
(* The steps.                                                              *)

\* Nothing has been exported.
LEMMA InitInv == Init => IInv
<1> SUFFICES ASSUME Init PROVE IInv
  OBVIOUS
<1>1. draft \in Draft \cup {None}
  BY DEF Init, Draft, NoUrls
<1>2. TypeOK
  BY <1>1, ExportAssumption DEF Init, TypeOK, Final
<1>3. Numbered
  BY FS_EmptySet DEF Init, Numbered
<1>4. Locked
  BY DEF Init, Locked, Guarded, AtRow, Requests
<1>5. (\A r \in Requests : Copied(r)) /\ (\A x \in Exports : Handing(x))
  BY DEF Init, Copied, Handing, Requests
<1>6. Owned
  BY DEF Init, Owned
<1>7. LinksAgree /\ Counted
  <2>1. [text |-> 1, version |-> 1, url |-> NoUrls] \in Draft
    BY DEF Draft, NoUrls
  <2>2. [text |-> 1, version |-> 1, url |-> NoUrls] # None
    BY <2>1, NoneAssumption
  <2> QED BY <2>2 DEF Init, LinksAgree, Counted, VersionCountsWrites, NoUrls
<1> QED BY <1>2, <1>3, <1>4, <1>5, <1>6, <1>7 DEF IInv

\* Requests end, by themselves or because their process does; the destination
\* may have got an artifact, which is orphaned like those they had in hand.
LEMMA EndStep ==
  ASSUME IInv, NEW R \in SUBSET Requests,
         UNCHANGED <<sqlite, home, target, store, writes>>,
         pc' \in [Requests -> {"sent", "guarded", "posting", "storing", "read"} \cup Final],
         copy' \in [Requests -> Draft \cup {None}],
         answer' \in [Exports -> Receipt \cup {None}],
         exporter' \in [Processes -> [Destinations -> Exporters]],
         restarts' \in Nat,
         \A r \in R : pc'[r] \in Final /\ copy'[r] = None,
         \A r \in Requests \ R : pc'[r] = pc[r] /\ copy'[r] = copy[r],
         \A x \in Exports \ R : answer'[x] = answer[x],
         Numbered', remote' \subseteq Artifact,
         remote \subseteq remote', orphans \subseteq orphans', orphans' \subseteq remote',
         remote' \ remote \subseteq orphans',
         \A x \in R \cap Exports : pc[x] = "storing" => Orphaned(x) \subseteq orphans'
  PROVE  IInv'
<1> USE DEF IInv
<1>1. TypeOK'
  BY DEF TypeOK
<1>2. Locked'
  <2>1. \A x \in Exports : Guarded(x)' => Guarded(x)
    BY DEF Guarded, Final, Requests
  <2>2. \A r \in Requests : AtRow(r)' => AtRow(r)
    BY DEF AtRow, Final
  <2> QED BY <2>1, <2>2 DEF Locked
<1>3. ASSUME NEW r \in Requests PROVE Copied(r)'
  BY DEF Copied, AtRow, Final
<1>4. ASSUME NEW x \in Exports PROVE Handing(x)'
  <2>1. CASE x \in R
    BY <2>1 DEF Handing, Final
  <2>2. CASE x \notin R
    <3>1. pc'[x] = pc[x] /\ copy'[x] = copy[x] /\ answer'[x] = answer[x]
      BY <2>2 DEF Requests
    <3> QED BY <3>1 DEF Handing, Real
  <2> QED BY <2>1, <2>2
<1>5. Owned'
  <2> SUFFICES ASSUME exists, NEW a \in remote \ orphans, a \notin orphans'
               PROVE  (Recorded(a) \/ InHand(a))'
    BY DEF Owned
  <2>1. CASE Recorded(a)
    BY <2>1 DEF Recorded
  <2>2. ASSUME NEW x \in Exports, pc[x] = "storing", Real(x),
               answer[x].id = a.id, target[x] = a.destination
        PROVE  InHand(a)'
    <3>1. x \notin R
      BY <2>2 DEF Orphaned
    <3>2. pc'[x] = pc[x] /\ answer'[x] = answer[x]
      BY <3>1 DEF Requests
    <3> QED BY <2>2, <3>2 DEF InHand, Real
  <2> QED BY <2>1, <2>2 DEF Owned, InHand
<1>6. LinksAgree' /\ Counted'
  BY DEF LinksAgree, Counted, VersionCountsWrites
<1> QED BY <1>1, <1>2, <1>3, <1>4, <1>5, <1>6

\* One request ends.
LEMMA EndOne ==
  ASSUME IInv, NEW r \in Requests, NEW l \in Final, End(r, l),
         UNCHANGED <<settings, store, writes, restarts>>,
         answer' \in [Exports -> Receipt \cup {None}],
         \A x \in Exports \ {r} : answer'[x] = answer[x],
         Numbered', remote' \subseteq Artifact,
         remote \subseteq remote', orphans \subseteq orphans', orphans' \subseteq remote',
         remote' \ remote \subseteq orphans',
         r \in Exports /\ pc[r] = "storing" => Orphaned(r) \subseteq orphans'
  PROVE  IInv'
<1>1. /\ pc' = [pc EXCEPT ![r] = l] /\ copy' = [copy EXCEPT ![r] = None]
      /\ TypeOK
  BY DEF End, Go, IInv
<1>2. /\ pc' \in [Requests -> {"sent", "guarded", "posting", "storing", "read"} \cup Final]
      /\ copy' \in [Requests -> Draft \cup {None}]
      /\ exporter' \in [Processes -> [Destinations -> Exporters]]
      /\ restarts' \in Nat
  BY <1>1 DEF TypeOK
<1>3. /\ \A q \in {r} : pc'[q] \in Final /\ copy'[q] = None
      /\ \A q \in Requests \ {r} : pc'[q] = pc[q] /\ copy'[q] = copy[q]
  BY <1>1 DEF TypeOK
<1>4. /\ {r} \in SUBSET Requests
      /\ UNCHANGED <<sqlite, home, target, store, writes>>
      /\ \A x \in {r} \cap Exports : pc[x] = "storing" => Orphaned(x) \subseteq orphans'
  OBVIOUS
<1> QED BY <1>2, <1>3, <1>4, EndStep

\* An export joins the queue for the row, with the lock of its process.
LEMMA GuardStep == ASSUME IInv, NEW x \in Exports, Guard(x) PROVE IInv'
<1> USE DEF IInv
<1>1. /\ pc[x] = "sent" /\ ProcessLockFree(x) /\ pc' = [pc EXCEPT ![x] = "guarded"]
      /\ UNCHANGED <<settings, store, remote, orphans, writes, copy, answer, restarts>>
  BY DEF Guard, Go
<1>2. pc'[x] = "guarded" /\ \A r \in Requests \ {x} : pc'[r] = pc[r]
  BY <1>1 DEF TypeOK, Requests
<1>3. TypeOK' /\ Numbered'
  BY <1>1 DEF TypeOK, Numbered, Requests
<1>4. Locked'
  <2>1. \A y \in Exports : Guarded(y)' => y = x \/ Guarded(y)
    BY <1>2 DEF Guarded, Requests
  <2>2. \A y \in Exports : Guarded(y) => home[y] # home[x]
    BY <1>1 DEF ProcessLockFree
  <2>3. \A r \in Requests : AtRow(r)' => AtRow(r)
    BY <1>2 DEF AtRow
  <2> QED BY <1>1, <2>1, <2>2, <2>3 DEF Locked
<1>5. \A r \in Requests : Copied(r)'
  BY <1>1, <1>2 DEF Copied, AtRow
<1>6. \A y \in Exports : Handing(y)'
  BY <1>1, <1>2 DEF Handing, Real, Requests
<1>7. Owned'
  BY <1>1, <1>2 DEF Owned, Recorded, InHand, Real, Requests
<1>8. LinksAgree' /\ Counted'
  BY <1>1 DEF LinksAgree, Counted, VersionCountsWrites
<1> QED BY <1>3, <1>4, <1>5, <1>6, <1>7, <1>8

\* A request that finds the row free takes it.
LEMMA RowStep ==
  ASSUME Locked, TypeOK, NEW r \in Requests, RowLockFree, pc'[r] \in {"posting", "read"},
         \A q \in Requests \ {r} : pc'[q] = pc[q],
         \A x \in Exports : pc'[x] = "posting" => Guarded(x),
         UNCHANGED <<sqlite, home>>
  PROVE  Locked'
<1>1. \A x \in Exports : Guarded(x)' => Guarded(x)
  BY DEF Guarded, Requests
<1>2. ~sqlite => \A q \in Requests : AtRow(q)' => q = r
  BY DEF RowLockFree, AtRow
<1> QED BY <1>1, <1>2 DEF Locked

\* An export has the row and posts what it reads there.
LEMMA StartStep == ASSUME IInv, NEW x \in Exports, StartExport(x) PROVE IInv'
<1> USE DEF IInv
<1>1. /\ pc[x] = "guarded" /\ RowLockFree /\ exists /\ draft # None /\ ~Reusable(x)
      /\ copy' = [copy EXCEPT ![x] = draft] /\ pc' = [pc EXCEPT ![x] = "posting"]
      /\ UNCHANGED <<settings, store, remote, orphans, writes, answer, restarts>>
  BY DEF StartExport, Go
<1>2. /\ x \in Requests /\ pc'[x] = "posting" /\ copy'[x] = draft
      /\ \A r \in Requests \ {x} : pc'[r] = pc[r] /\ copy'[r] = copy[r]
  BY <1>1 DEF TypeOK, Requests
<1>3. TypeOK' /\ Numbered'
  BY <1>1, <1>2 DEF TypeOK, Numbered
<1>4. Locked'
  <2>1. \A y \in Exports : pc'[y] = "posting" => Guarded(y)
    BY <1>1, <1>2 DEF Guarded, Requests
  <2> QED BY <1>1, <1>2, <2>1, RowStep
<1>5. \A r \in Requests : Copied(r)'
  BY <1>1, <1>2 DEF Copied, AtRow
<1>6. \A y \in Exports : Handing(y)'
  <2>1. receipts[target[x]] = None \/ receipts[target[x]].demo => Handing(x)'
    BY <1>1, <1>2 DEF Handing
  <2>2. receipts[target[x]] = None \/ receipts[target[x]].demo
    <3>1. receipts[target[x]] \in Receipt \cup {None}
      BY DEF TypeOK
    <3> QED BY <1>1, <3>1 DEF Reusable, Receipt
  <2> QED BY <1>1, <1>2, <2>1, <2>2 DEF Handing, Real, Requests
<1>7. Owned'
  BY <1>1, <1>2 DEF Owned, Recorded, InHand, Real, Requests
<1>8. LinksAgree' /\ Counted'
  BY <1>1 DEF LinksAgree, Counted, VersionCountsWrites
<1> QED BY <1>3, <1>4, <1>5, <1>6, <1>7, <1>8

\* The export has its receipt, of nothing or of a new artifact.
LEMMA ReceivedStep ==
  ASSUME IInv, NEW x \in Exports, NEW receipt \in Receipt, pc[x] = "posting",
         answer' = [answer EXCEPT ![x] = receipt], pc' = [pc EXCEPT ![x] = "storing"],
         UNCHANGED <<settings, store, orphans, writes, copy, restarts>>,
         \/ receipt.demo /\ UNCHANGED remote
         \/ /\ receipt = [id |-> NewArtifact(x).id, demo |-> FALSE]
            /\ remote' = remote \cup {NewArtifact(x)}
  PROVE  IInv'
<1> USE DEF IInv
<1>1. /\ x \in Requests /\ pc'[x] = "storing" /\ answer'[x] = receipt
      /\ \A r \in Requests \ {x} : pc'[r] = pc[r]
      /\ \A y \in Exports \ {x} : answer'[y] = answer[y]
      /\ receipt # None
  BY NoneAssumption DEF TypeOK, Requests
<1>2. Numbered' /\ remote' \subseteq Artifact /\ remote \subseteq remote'
  BY NumberedStep DEF TypeOK, Numbered
<1>3. TypeOK'
  BY <1>1, <1>2 DEF TypeOK
<1>4. Locked'
  <2>1. \A y \in Exports : Guarded(y)' => Guarded(y)
    BY <1>1 DEF Guarded, Requests
  <2>2. \A r \in Requests : AtRow(r)' => AtRow(r)
    BY <1>1 DEF AtRow
  <2> QED BY <2>1, <2>2 DEF Locked
<1>5. \A r \in Requests : Copied(r)'
  BY <1>1 DEF Copied, AtRow
<1>6. ASSUME NEW y \in Exports PROVE Handing(y)'
  <2>1. CASE y = x
    <3>1. copy[x] # None /\ (exists => receipts[target[x]] = None \/ receipts[target[x]].demo)
      BY DEF Handing
    <3>2. Real(x)' => \E a \in remote' : /\ a.id = answer'[x].id
                                         /\ a.destination = target[x]
                                         /\ a.text = copy[x].text
      BY <1>1, NewArtifactType DEF Real
    <3> QED BY <1>1, <2>1, <3>1, <3>2 DEF Handing
  <2>2. CASE y # x
    <3>1. pc'[y] = pc[y] /\ answer'[y] = answer[y] /\ copy'[y] = copy[y]
      BY <1>1, <2>2 DEF Requests
    <3> QED BY <1>2, <3>1 DEF Handing, Real
  <2> QED BY <2>1, <2>2
<1>7. Owned'
  <2> SUFFICES ASSUME exists, NEW a \in remote' \ orphans
               PROVE  (Recorded(a) \/ InHand(a))'
    BY DEF Owned
  <2>1. CASE a \in remote /\ Recorded(a)
    BY <2>1 DEF Recorded
  <2>2. CASE a \in remote /\ InHand(a)
    <3>1. PICK y \in Exports : /\ pc[y] = "storing" /\ Real(y)
                               /\ answer[y].id = a.id /\ target[y] = a.destination
      BY <2>2 DEF InHand
    <3>2. y # x
      BY <3>1
    <3> QED BY <1>1, <3>1, <3>2 DEF InHand, Real, Requests
  <2>3. CASE a \notin remote
    <3>1. a = NewArtifact(x) /\ receipt = [id |-> NewArtifact(x).id, demo |-> FALSE]
      BY <2>3
    <3>2. Real(x)' /\ answer'[x].id = a.id /\ target[x] = a.destination
      BY <1>1, <3>1, NewArtifactType DEF Real
    <3> QED BY <1>1, <3>2 DEF InHand
  <2> QED BY <2>1, <2>2, <2>3 DEF Owned
<1>8. LinksAgree' /\ Counted'
  BY DEF LinksAgree, Counted, VersionCountsWrites
<1> QED BY <1>2, <1>3, <1>4, <1>5, <1>6, <1>7, <1>8

\* A draft request has the row and reads what is there.
LEMMA ReadStep == ASSUME IInv, NEW r \in Drafts, ReadDraft(r) PROVE IInv'
<1> USE DEF IInv
<1>1. /\ pc[r] = "sent" /\ RowLockFree /\ exists
      /\ copy' = [copy EXCEPT ![r] = draft] /\ pc' = [pc EXCEPT ![r] = "read"]
      /\ UNCHANGED <<settings, store, remote, orphans, writes, answer, restarts>>
  BY DEF ReadDraft, Go
<1>2. /\ r \in Requests /\ pc'[r] = "read" /\ copy'[r] = draft
      /\ \A q \in Requests \ {r} : pc'[q] = pc[q] /\ copy'[q] = copy[q]
  BY <1>1 DEF TypeOK, Requests
<1>3. TypeOK' /\ Numbered'
  BY <1>1, <1>2 DEF TypeOK, Numbered
<1>4. Locked'
  <2>1. \A y \in Exports : pc'[y] = "posting" => Guarded(y)
    BY <1>1, <1>2 DEF Guarded, Requests
  <2> QED BY <1>1, <1>2, <2>1, RowStep
<1>5. \A q \in Requests : Copied(q)'
  BY <1>1, <1>2 DEF Copied, AtRow
<1>6. \A y \in Exports : Handing(y)'
  BY <1>1, <1>2 DEF Handing, Real, Requests
<1>7. Owned'
  BY <1>1, <1>2 DEF Owned, Recorded, InHand, Real, Requests
<1>8. LinksAgree' /\ Counted'
  BY <1>1 DEF LinksAgree, Counted, VersionCountsWrites
<1> QED BY <1>3, <1>4, <1>5, <1>6, <1>7, <1>8

\* A draft is written, by a request that ends with it.
LEMMA WriteStep ==
  ASSUME IInv, NEW r \in Drafts, Generate(r) \/ Rewrite(r)
  PROVE  IInv'
<1> USE DEF IInv
<1>1. /\ pc[r] = "read" /\ exists /\ writes' = writes + 1
      /\ pc' = [pc EXCEPT ![r] = "done"] /\ copy' = [copy EXCEPT ![r] = None]
      /\ UNCHANGED <<settings, exists, receipts, remote, orphans, answer, restarts>>
  BY DEF Generate, Rewrite, End, Go
<1>2. /\ r \in Requests /\ pc'[r] = "done" /\ copy'[r] = None
      /\ \A q \in Requests \ {r} : pc'[q] = pc[q] /\ copy'[q] = copy[q]
  BY <1>1 DEF TypeOK, Requests
<1>3. /\ draft' \in Draft /\ draft' # None /\ draft'.url = receipts
      /\ ~sqlite => draft'.version = writes'
  <2>1. CASE Generate(r)
    <3>1. draft = None /\ draft' = [text |-> writes + 1, version |-> 1, url |-> NoUrls]
      BY <2>1 DEF Generate
    <3>2. receipts = NoUrls /\ writes = 0
      BY <3>1 DEF LinksAgree, Counted, NoUrls, TypeOK
    <3>3. NoUrls \in [Destinations -> Receipt \cup {None}]
      BY DEF NoUrls
    <3>4. draft' \in Draft
      BY <3>1, <3>2, <3>3 DEF Draft
    <3> QED BY <1>1, <3>1, <3>2, <3>4, NoneAssumption
  <2>2. CASE Rewrite(r)
    <3>1. /\ copy[r] # None
          /\ draft' = [draft EXCEPT !.text = writes + 1, !.version = copy[r].version + 1]
      BY <2>2 DEF Rewrite
    <3>2. draft \in Draft /\ copy[r] \in Draft /\ writes \in Nat
      BY <1>1, <1>2, <3>1 DEF Copied, TypeOK
    <3>3. /\ draft' \in Draft /\ draft'.url = draft.url
          /\ draft'.version = copy[r].version + 1
      <4>1. draft' = [text |-> writes + 1, version |-> copy[r].version + 1, url |-> draft.url]
        BY <3>1, <3>2 DEF Draft
      <4>2. writes + 1 \in Nat /\ copy[r].version + 1 \in Nat
        BY <3>2 DEF Draft
      <4>3. draft.url \in [Destinations -> Receipt \cup {None}]
        BY <3>2 DEF Draft
      <4> QED BY <4>1, <4>2, <4>3 DEF Draft
    <3>4. draft # None
      BY <3>2, NoneAssumption
    <3>5. ~sqlite => copy[r] = draft /\ draft.version = writes
      BY <1>1, <1>2, <3>1, <3>4 DEF Copied, AtRow, Counted, VersionCountsWrites
    <3> QED BY <1>1, <3>3, <3>4, <3>5, NoneAssumption DEF LinksAgree
  <2> QED BY <2>1, <2>2
<1>4. TypeOK' /\ Numbered'
  <2>1. pc' \in [Requests -> {"sent", "guarded", "posting", "storing", "read"} \cup Final]
    BY <1>1 DEF TypeOK, Final
  <2>2. copy' \in [Requests -> Draft \cup {None}]
    BY <1>1 DEF TypeOK
  <2>3. draft' \in Draft \cup {None} /\ writes' \in Nat
    BY <1>1, <1>3 DEF TypeOK
  <2> QED BY <1>1, <2>1, <2>2, <2>3 DEF TypeOK, Numbered
<1>5. Locked'
  BY <1>1, <1>2 DEF Locked, Guarded, AtRow, Requests
<1>6. \A q \in Requests : Copied(q)'
  <2>1. ~sqlite => \A q \in Requests \ {r} : ~AtRow(q)
    BY <1>1, <1>2 DEF Locked, AtRow
  <2> QED BY <1>1, <1>2, <1>3, <2>1 DEF Copied, AtRow
<1>7. \A y \in Exports : Handing(y)'
  BY <1>1, <1>2 DEF Handing, Real, Requests
<1>8. Owned'
  BY <1>1, <1>2 DEF Owned, Recorded, InHand, Real, Requests
<1>9. LinksAgree' /\ Counted'
  BY <1>1, <1>3 DEF LinksAgree, Counted, VersionCountsWrites
<1> QED BY <1>1, <1>4, <1>5, <1>6, <1>7, <1>8, <1>9

\* The receipt is stored, and the link set.
LEMMA StoreStep ==
  ASSUME IInv, NEW x \in Exports, StoreReceipt(x)
  PROVE  IInv'
<1> USE DEF IInv
<1> DEFINE d == target[x]
<1>1. /\ pc[x] = "storing" /\ exists
      /\ receipts' = [receipts EXCEPT ![d] = answer[x]]
      /\ draft' = [draft EXCEPT !.url[d] = answer[x]]
      /\ pc' = [pc EXCEPT ![x] = "done"] /\ copy' = [copy EXCEPT ![x] = None]
      /\ UNCHANGED <<settings, exists, remote, orphans, writes, answer, restarts>>
  BY DEF StoreReceipt, End, Go
<1>2. /\ x \in Requests /\ pc'[x] = "done" /\ copy'[x] = None
      /\ \A q \in Requests \ {x} : pc'[q] = pc[q] /\ copy'[q] = copy[q]
  BY <1>1 DEF TypeOK, Requests
<1>3. /\ d \in Destinations /\ answer[x] \in Receipt /\ answer[x] # None
      /\ copy[x] # None /\ draft # None /\ draft \in Draft
  BY <1>1, <1>2 DEF TypeOK, Handing, Copied
<1>4. /\ receipts' \in [Destinations -> Receipt \cup {None}]
      /\ receipts'[d] = answer[x]
      /\ \A c \in Destinations \ {d} : receipts'[c] = receipts[c]
  BY <1>1, <1>3 DEF TypeOK
<1>5. /\ draft' \in Draft /\ draft' # None /\ draft'.url = receipts'
      /\ draft'.version = draft.version
  <2>1. draft' = [text |-> draft.text, version |-> draft.version,
                  url |-> [draft.url EXCEPT ![d] = answer[x]]]
    BY <1>1, <1>3 DEF Draft
  <2>2. draft.url = receipts
    BY <1>3 DEF LinksAgree
  <2>3. draft' \in Draft
    BY <1>1, <1>3, <1>4, <2>1, <2>2 DEF Draft
  <2> QED BY <1>1, <2>1, <2>2, <2>3, NoneAssumption
<1>6. \A y \in Exports \ {x} : pc[y] \notin {"posting", "storing"}
  BY <1>1, OneAtWork
<1> HIDE DEF d
<1>7. TypeOK' /\ Numbered'
  <2>1. pc' \in [Requests -> {"sent", "guarded", "posting", "storing", "read"} \cup Final]
    BY <1>1 DEF TypeOK, Final
  <2>2. copy' \in [Requests -> Draft \cup {None}]
    BY <1>1 DEF TypeOK
  <2> QED BY <1>1, <1>4, <1>5, <2>1, <2>2 DEF TypeOK, Numbered
<1>8. Locked'
  BY <1>1, <1>2 DEF Locked, Guarded, AtRow, Requests
<1>9. \A q \in Requests : Copied(q)'
  <2>1. ~sqlite => \A q \in Requests \ {x} : ~AtRow(q)
    BY <1>1, <1>2 DEF Locked, AtRow
  <2> QED BY <1>1, <1>2, <1>5, <2>1 DEF Copied, AtRow
<1>10. \A y \in Exports : Handing(y)'
  <2>1. \A y \in Exports : pc'[y] \notin {"posting", "storing"}
    BY <1>2, <1>6 DEF Requests
  <2> QED BY <2>1 DEF Handing
<1>11. Owned'
  <2> SUFFICES ASSUME NEW a \in remote \ orphans PROVE Recorded(a)'
    BY <1>1 DEF Owned
  <2>1. a.destination \in Destinations
    BY DEF TypeOK, Artifact
  <2>2. CASE Recorded(a)
    <3>1. a.destination # d
      BY <1>1, <2>2 DEF Handing, Recorded, d
    <3> QED BY <1>4, <2>1, <2>2, <3>1 DEF Recorded
  <2>3. CASE InHand(a)
    <3>1. PICK y \in Exports : /\ pc[y] = "storing" /\ Real(y)
                               /\ answer[y].id = a.id /\ target[y] = a.destination
      BY <2>3 DEF InHand
    <3>2. y = x
      BY <1>6, <3>1
    <3> QED BY <1>4, <3>1, <3>2 DEF Recorded, Real, d
  <2> QED BY <1>1, <2>2, <2>3 DEF Owned
<1>12. LinksAgree' /\ Counted'
  BY <1>1, <1>3, <1>5 DEF LinksAgree, Counted, VersionCountsWrites
<1> QED BY <1>7, <1>8, <1>9, <1>10, <1>11, <1>12

\* The incident is deleted, while nobody has its row.
LEMMA DeleteStep == ASSUME IInv, DeleteIncident PROVE IInv'
<1> USE DEF IInv
<1>1. /\ RowLockFree /\ exists' = FALSE /\ draft' = None /\ writes' = 0
      /\ receipts' = [d \in Destinations |-> None]
      /\ UNCHANGED <<settings, remote, orphans, pc, copy, answer, restarts>>
  BY DEF DeleteIncident
<1>2. TypeOK' /\ Numbered' /\ Locked'
  BY <1>1 DEF TypeOK, Numbered, Locked, Guarded, AtRow
<1>3. \A r \in Requests : Copied(r)'
  BY <1>1 DEF Copied, AtRow, RowLockFree
<1>4. \A x \in Exports : Handing(x)'
  BY <1>1 DEF Handing, Real
<1>5. Owned' /\ LinksAgree' /\ Counted'
  BY <1>1 DEF Owned, LinksAgree, Counted, VersionCountsWrites
<1> QED BY <1>2, <1>3, <1>4, <1>5

\* A process restarts, and its requests end where they are.
LEMMA RestartStep == ASSUME IInv, NEW p \in Processes, Restart(p) PROVE IInv'
<1> USE DEF IInv
<1> DEFINE dying   == {r \in Requests : home[r] = p /\ pc[r] \notin Final}
           posting == {x \in dying \cap Exports : pc[x] = "posting" /\ Kind(x) = "real"}
<1>1. /\ restarts' = restarts + 1
      /\ pc' = [r \in Requests |-> IF r \in dying THEN "failed" ELSE pc[r]]
      /\ copy' = [r \in Requests |-> IF r \in dying THEN None ELSE copy[r]]
      /\ answer' = [x \in Exports |-> IF x \in dying THEN None ELSE answer[x]]
      /\ UNCHANGED <<sqlite, home, target, store, writes>>
  BY DEF Restart
<1>2. PICK sent \in SUBSET posting :
        /\ remote' = remote \cup {NewArtifact(x) : x \in sent}
        /\ orphans' = orphans \cup {NewArtifact(x) : x \in sent}
                              \cup UNION {Orphaned(x) : x \in dying \cap Exports}
  BY DEF Restart
<1>3. PICK k \in [Destinations -> Exporters] : exporter' = [exporter EXCEPT ![p] = k]
  BY DEF Restart
<1>4. dying \in SUBSET Requests /\ posting \subseteq dying \cap Exports
  OBVIOUS
<1>5. Numbered' /\ remote' \subseteq Artifact
  <2>1. CASE sent = {}
    BY <1>2, <2>1 DEF Numbered, TypeOK
  <2>2. CASE sent # {}
    <3>1. PICK x \in sent : pc[x] = "posting" /\ x \in Exports
      BY <2>2
    <3>2. \A y \in sent : y = x
      BY <3>1, OneAtWork
    <3>3. remote' = remote \cup {NewArtifact(x)}
      BY <1>2, <3>2
    <3> QED BY <3>1, <3>3, NumberedStep
  <2> QED BY <2>1, <2>2
<1>6. /\ pc' \in [Requests -> {"sent", "guarded", "posting", "storing", "read"} \cup Final]
      /\ copy' \in [Requests -> Draft \cup {None}]
      /\ answer' \in [Exports -> Receipt \cup {None}]
      /\ exporter' \in [Processes -> [Destinations -> Exporters]]
      /\ restarts' \in Nat
  BY <1>1, <1>3 DEF TypeOK, Final
<1>7. /\ \A r \in dying : pc'[r] \in Final /\ copy'[r] = None
      /\ \A r \in Requests \ dying : pc'[r] = pc[r] /\ copy'[r] = copy[r]
      /\ \A x \in Exports \ dying : answer'[x] = answer[x]
  BY <1>1 DEF Final
<1>8. \A x \in Exports : Orphaned(x) \subseteq remote
  BY DEF Orphaned
<1>9. /\ remote \subseteq remote' /\ orphans \subseteq orphans'
      /\ orphans' \subseteq remote' /\ remote' \ remote \subseteq orphans'
      /\ \A x \in dying \cap Exports : Orphaned(x) \subseteq orphans'
  BY <1>2, <1>8 DEF TypeOK
<1> HIDE DEF dying, posting
<1> QED BY <1>1, <1>4, <1>5, <1>6, <1>7, <1>9, EndStep

\* Every step keeps the invariant.
LEMMA StepInv == IInv /\ [Next]_vars => IInv'
<1> SUFFICES ASSUME IInv, [Next]_vars PROVE IInv'
  OBVIOUS
<1> USE DEF IInv
<1>1. ASSUME NEW x \in Exports, ReuseReceipt(x) PROVE IInv'
  <2>1. /\ End(x, "done") /\ pc[x] = "guarded"
        /\ answer' = [answer EXCEPT ![x] = receipts[target[x]]]
        /\ UNCHANGED <<settings, store, remote, orphans, writes, restarts>>
    BY <1>1 DEF ReuseReceipt
  <2>2. /\ answer' \in [Exports -> Receipt \cup {None}]
        /\ \A y \in Exports \ {x} : answer'[y] = answer[y]
    BY <2>1 DEF TypeOK
  <2> QED BY <2>1, <2>2, EndOne DEF TypeOK, Numbered, Final, Requests
<1>2. ASSUME NEW r \in Requests, Refuse(r) \/ DraftFails(r), r \in Drafts => DraftFails(r)
      PROVE  IInv'
  <2>1. /\ End(r, "failed") /\ pc[r] # "storing"
        /\ UNCHANGED <<settings, store, remote, orphans, writes, answer, restarts>>
    BY <1>2 DEF Refuse, DraftFails
  <2> QED BY <2>1, EndOne DEF TypeOK, Numbered, Final
<1>3. ASSUME NEW x \in Exports, PostFails(x) PROVE IInv'
  <2>1. /\ End(x, "failed") /\ pc[x] = "posting"
        /\ UNCHANGED <<settings, store, writes, answer, restarts>>
        /\ \/ UNCHANGED <<remote, orphans>>
           \/ /\ remote' = remote \cup {NewArtifact(x)}
              /\ orphans' = orphans \cup {NewArtifact(x)}
    BY <1>3 DEF PostFails
  <2>2. Numbered' /\ remote' \subseteq Artifact
    BY <2>1, NumberedStep DEF TypeOK, Numbered
  <2> QED BY <2>1, <2>2, EndOne DEF TypeOK, Final, Requests
<1>4. ASSUME NEW x \in Exports, StoreFails(x) PROVE IInv'
  <2>1. /\ End(x, "failed") /\ orphans' = orphans \cup Orphaned(x)
        /\ answer' = [answer EXCEPT ![x] = None]
        /\ UNCHANGED <<settings, store, remote, writes, restarts>>
    BY <1>4 DEF StoreFails
  <2>2. /\ answer' \in [Exports -> Receipt \cup {None}]
        /\ \A y \in Exports \ {x} : answer'[y] = answer[y]
    BY <2>1 DEF TypeOK
  <2>3. Orphaned(x) \subseteq remote
    BY DEF Orphaned
  <2> QED BY <2>1, <2>2, <2>3, EndOne DEF TypeOK, Numbered, Final, Requests
<1>5. ASSUME NEW x \in Exports, ExportDemo(x) PROVE IInv'
  <2>1. [id |-> 0, demo |-> TRUE] \in Receipt /\ [id |-> 0, demo |-> TRUE].demo
    BY DEF Receipt
  <2> QED BY <1>5, <2>1, ReceivedStep DEF ExportDemo, Go
<1>6. ASSUME NEW x \in Exports, PostCreated(x) PROVE IInv'
  <2>1. [id |-> NewArtifact(x).id, demo |-> FALSE] \in Receipt
    BY <1>6, NewArtifactType DEF PostCreated, Receipt
  <2> QED BY <1>6, <2>1, ReceivedStep DEF PostCreated, Go
<1>7. CASE UNCHANGED vars
  BY <1>7 DEF vars, TypeOK, Numbered, Locked, Guarded, AtRow, Copied, Handing, Real, Owned,
     Recorded, InHand, LinksAgree, Counted, VersionCountsWrites
<1>8. ASSUME NEW x \in Exports, Export(x) PROVE IInv'
  BY <1>1, <1>2, <1>3, <1>4, <1>5, <1>6, <1>8, GuardStep, StartStep, StoreStep, ExportAssumption
     DEF Export, Requests
<1>9. ASSUME NEW r \in Drafts, Write(r) PROVE IInv'
  BY <1>2, <1>9, ReadStep, WriteStep DEF Write, Requests
<1> QED BY <1>7, <1>8, <1>9, RestartStep, DeleteStep DEF Next

-----------------------------------------------------------------------------
(* The theorems.                                                           *)

\* The invariant always holds.
THEOREM Invariance == Spec => []IInv
<1>1. Init => IInv
  BY InitInv
<1>2. IInv /\ [Next]_vars => IInv'
  BY StepInv
<1> QED BY <1>1, <1>2, PTL DEF Spec

\* Every variable keeps its type.
THEOREM TypeCorrect == Spec => []TypeOK
<1>1. IInv => TypeOK
  BY DEF IInv
<1> QED BY <1>1, Invariance, PTL

\* Exports, however many and wherever, create one artifact per destination;
\* any other one is the orphan of a request that failed.
THEOREM NeverSilentDuplicate == Spec => []NoSilentDuplicate
<1>1. IInv => NoSilentDuplicate
  <2> SUFFICES ASSUME IInv, exists, NEW a \in remote \ orphans, NEW b \in remote \ orphans,
                      a.destination = b.destination
               PROVE  a = b
    BY DEF NoSilentDuplicate
  <2>1. a.id = b.id => a = b
    BY DEF IInv, Numbered
  <2>2. (Recorded(a) \/ InHand(a)) /\ (Recorded(b) \/ InHand(b))
    BY DEF IInv, Owned
  <2>3. ~(Recorded(a) /\ InHand(b)) /\ ~(Recorded(b) /\ InHand(a))
    BY DEF IInv, Recorded, InHand, Handing
  <2>4. CASE Recorded(a) /\ Recorded(b)
    BY <2>1, <2>4 DEF Recorded
  <2>5. CASE InHand(a) /\ InHand(b)
    BY <2>1, <2>5, OneAtWork DEF InHand
  <2> QED BY <2>2, <2>3, <2>4, <2>5
<1> QED BY <1>1, Invariance, PTL

\* The postmortem's links are what the receipts say.
THEOREM LinksAlwaysAgree == Spec => []LinksAgree
<1>1. IInv => LinksAgree
  BY DEF IInv
<1> QED BY <1>1, Invariance, PTL

\* With row locks the version counts the writes of the draft: none is lost.
THEOREM NoWriteIsLost == Spec => []VersionCountsWrites
<1>1. IInv => VersionCountsWrites
  BY DEF IInv, Counted
<1> QED BY <1>1, Invariance, PTL

\* A real receipt is final while its incident exists; with row locks a new one
\* is of an artifact that holds the stored text.
THEOREM ReceiptsAreAlwaysEarned == Spec => ReceiptsAreEarned
<1> DEFINE Earned ==
      \A d \in Destinations :
        /\ exists' /\ receipts[d] # None /\ ~receipts[d].demo => receipts'[d] = receipts[d]
        /\ ~sqlite /\ receipts'[d] \notin {receipts[d], None} /\ ~receipts'[d].demo =>
             \E a \in remote : a.id = receipts'[d].id /\ a.text = draft.text
<1>1. IInv /\ [Next]_vars => [Earned]_vars
  <2> SUFFICES ASSUME IInv, [Next]_vars PROVE Earned
    OBVIOUS
  <2>1. ASSUME NEW x \in Exports, StoreReceipt(x) PROVE Earned
    <3>1. /\ pc[x] = "storing" /\ exists /\ receipts' = [receipts EXCEPT ![target[x]] = answer[x]]
      BY <2>1 DEF StoreReceipt
    <3>2. Handing(x) /\ x \in Requests /\ Copied(x) /\ target[x] \in Destinations
      BY DEF IInv, TypeOK, Requests
    <3>3. receipts'[target[x]] = answer[x]
      BY <3>1, <3>2 DEF IInv, TypeOK
    <3>4. \A d \in Destinations \ {target[x]} : receipts'[d] = receipts[d]
      BY <3>1 DEF IInv, TypeOK
    <3>5. ~sqlite => copy[x] = draft
      BY <3>1, <3>2 DEF Handing, Copied, AtRow
    <3>6. receipts[target[x]] = None \/ receipts[target[x]].demo
      BY <3>1, <3>2 DEF Handing
    <3>7. ~sqlite /\ ~answer[x].demo =>
            \E a \in remote : a.id = answer[x].id /\ a.text = draft.text
      BY <3>1, <3>2, <3>5 DEF Handing, Real
    <3> QED BY <3>3, <3>4, <3>6, <3>7
  <2>2. CASE DeleteIncident
    BY <2>2 DEF DeleteIncident
  <2>3. CASE receipts' = receipts
    BY <2>3
  <2>4. ASSUME NEW x \in Exports, Export(x), ~StoreReceipt(x) PROVE receipts' = receipts
    BY <2>4 DEF Export, Guard, ReuseReceipt, Refuse, StartExport, ExportDemo, PostCreated,
       PostFails, StoreFails
  <2>5. ASSUME NEW r \in Drafts, Write(r) PROVE receipts' = receipts
    BY <2>5 DEF Write, ReadDraft, Generate, Rewrite, DraftFails
  <2>6. ASSUME NEW p \in Processes, Restart(p) PROVE receipts' = receipts
    BY <2>6 DEF Restart
  <2>7. CASE UNCHANGED vars
    BY <2>3, <2>7 DEF vars
  <2> HIDE DEF Earned
  <2> QED BY <2>1, <2>2, <2>3, <2>4, <2>5, <2>6, <2>7 DEF Next
<1> QED BY <1>1, Invariance, PTL DEF Spec, ReceiptsAreEarned

=============================================================================
