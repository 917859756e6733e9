------------------------- MODULE IncidentRowProofs -------------------------
(***************************************************************************)
(* The safety of IncidentRow for any number of requests, analyses and      *)
(* embedding models, with row locks and without.  One lemma per group of   *)
(* the inductive invariant's conjuncts shows that every action keeps it.   *)
(***************************************************************************)
EXTENDS IncidentRow, TLAPS

USE DEF vars

-----------------------------------------------------------------------------
(* The inductive invariant.                                                *)

\* A PATCH that has read has a copy of the row.
Reading == \A p \in Patches : pc[p] = "read" => copy[p] # NoRow

\* FOR UPDATE keeps everybody else out, and what was read stays what is stored.
Exclusive ==
  locks => \A p \in Patches : pc[p] = "read" =>
    /\ row # NoRow /\ copy[p] = row
    /\ \A q \in Patches : pc[q] = "read" => q = p
    /\ \A a \in Analyses : ~Storing(a)

\* An analysis that stores has read the row, and the row cannot go.
Shared ==
  \A a \in Analyses : Storing(a) => row # NoRow /\ copy[a] # NoRow

\* An incident in work was acknowledged, and no UPDATE takes that back.
Acknowledged ==
  row # NoRow =>
    /\ row.status \in {"acknowledged", "investigating"} => row.ack # 0
    /\ \A p \in Patches : copy[p] # NoRow =>
         /\ copy[p].status \in {"acknowledged", "investigating"} => copy[p].ack # 0
         /\ copy[p].ack # 0 => row.ack # 0

\* The status and resolved_at tell one story.
Closed ==
  locks /\ row # NoRow => (row.status = "resolved" <=> row.resolved # 0)

OneModel == \A a, b \in Analyses : model[a] = model[b]

\* Under the share lock of an analysis the title stays, and only vectors and
\* labels of other analyses come: never NULL ones, and of its own model when
\* all run one.
Kept(a) ==
  /\ row.title = copy[a].title
  /\ copy[a].embedding # NoVector => row.embedding # NoVector
  /\ copy[a].label # NoModel => row.label # NoModel
  /\ OneModel => /\ row.label \in {copy[a].label, model[a]}
                 /\ row.embedding = copy[a].embedding \/ row.embedding.model = model[a]

\* What an analysis has read, and embedded, is of one title.
Coherent(a) ==
  /\ copy[a].embedding = NoVector <=> copy[a].label = NoModel
  /\ copy[a].embedding # NoVector => copy[a].embedding.title = copy[a].title
  /\ pc[a] = "embedded" /\ vector[a] # NoVector =>
       vector[a].title = copy[a].title /\ vector[a].model = model[a]

Embedders == locks => \A a \in Analyses : Storing(a) => Kept(a) /\ Coherent(a)

IInv ==
  /\ TypeOK
  /\ Reading
  /\ Exclusive
  /\ Shared
  /\ Acknowledged
  /\ Closed
  /\ Embedders
  /\ TimelineChain
  /\ EmbeddingFresh

-----------------------------------------------------------------------------
(* Rows.                                                                   *)

\* The handler's assignments leave a row.
LEMMA AssignedRow ==
  ASSUME NEW old \in Row, NEW b \in Bodies, NEW time \in Times
  PROVE  Assigned(old, b, time) \in Row
BY RowAssumption DEF Row, Bodies, Statuses, Assigned, NoVector

\* So does an UPDATE of the columns that differ.
LEMMA UpdatedRow ==
  ASSUME NEW stored \in Row, NEW read \in Row, NEW new \in Row
  PROVE  Updated(stored, read, new) \in Row
BY DEF Row, Updated, Column

\* What was not changed meanwhile is stored as assigned.
LEMMA UpdatedWhole ==
  ASSUME NEW read \in Row, NEW new \in Row
  PROVE  Updated(read, read, new) = new
BY DEF Row, Updated, Column

\* An UPDATE of a PATCH keeps the row acknowledged, and acknowledges what it
\* puts in work, when neither the stored row nor the copy lacks that.
LEMMA AckUpdated ==
  ASSUME NEW stored, NEW read, NEW b, NEW time, time # 0,
         stored.status \in {"acknowledged", "investigating"} => stored.ack # 0,
         read.status \in {"acknowledged", "investigating"} => read.ack # 0,
         read.ack # 0 => stored.ack # 0
  PROVE  LET new == Updated(stored, read, Assigned(read, b, time))
         IN  /\ stored.ack # 0 => new.ack # 0
             /\ new.status \in {"acknowledged", "investigating"} => new.ack # 0
<1> DEFINE told == Assigned(read, b, time)
           new == Updated(stored, read, told)
<1>1. /\ new.status = Column(stored.status, read.status, told.status)
      /\ new.ack = Column(stored.ack, read.ack, told.ack)
  BY DEF Updated
<1>2. \/ told.status = read.status
      \/ told.status = b.status /\ ChangesStatus(read, b)
  <2>1. told.status = IF b.status = Unset THEN read.status ELSE b.status
    BY DEF Assigned
  <2> HIDE DEF told
  <2>2. CASE b.status = Unset \/ b.status = read.status
    BY <2>1, <2>2
  <2>3. CASE b.status # Unset /\ b.status # read.status
    BY <2>1, <2>3 DEF ChangesStatus
  <2> QED BY <2>2, <2>3
<1>3. told.ack = IF /\ ChangesStatus(read, b)
                    /\ b.status \in {"acknowledged", "investigating"}
                    /\ read.ack = 0
                 THEN time ELSE read.ack
  BY DEF Assigned
<1> HIDE DEF told, new
<1>4. stored.ack # 0 => new.ack # 0
  <2>1. told.ack = read.ack \/ told.ack = time
    BY <1>3
  <2> QED BY <1>1, <2>1 DEF Column
<1>5. ASSUME new.status \in {"acknowledged", "investigating"} PROVE new.ack # 0
  <2>1. CASE told.status = read.status
    BY <1>1, <1>4, <1>5, <2>1 DEF Column
  <2>2. CASE told.status = b.status /\ ChangesStatus(read, b) /\ told.status # read.status
    <3>1. b.status \in {"acknowledged", "investigating"}
      BY <1>1, <1>5, <2>2 DEF Column
    <3>2. CASE read.ack = 0
      <4>1. told.ack = time
        BY <1>3, <2>2, <3>1, <3>2
      <4> QED BY <1>1, <3>2, <4>1 DEF Column
    <3>3. CASE read.ack # 0
      BY <1>4, <3>3
    <3> QED BY <3>2, <3>3
  <2> QED BY <1>2, <2>1, <2>2
<1> QED BY <1>4, <1>5 DEF new, told

\* What an analysis assigns to its copy leaves a row.
LEMMA EmbeddedRow ==
  ASSUME NEW a \in Analyses, copy[a] \in Row, model[a] \in Models,
         vector[a] \in Vectors \cup {NoVector}
  PROVE  /\ Embedded(a) \in Row
         /\ Embedded(a).embedding = vector[a]
         /\ Embedded(a).label = model[a]
         /\ \A f \in {"status", "ack", "resolved", "updated", "title"} :
              Embedded(a)[f] = copy[a][f]
BY DEF Row, Embedded

-----------------------------------------------------------------------------
(* Steps.                                                                  *)

\* Every step keeps every variable in its type.
LEMMA TypeStep == TypeOK /\ Reading /\ Shared /\ [Next]_vars => TypeOK'
<1> SUFFICES ASSUME TypeOK /\ Reading /\ Shared, [Next]_vars PROVE TypeOK'
  OBVIOUS
<1> USE RowAssumption, NoRowAssumption DEF TypeOK, Requests, Reading, Shared,
    Storing, Answers
<1>1. CASE UNCHANGED vars
  BY <1>1
<1>2. ASSUME NEW p \in Patches, Patch(p) PROVE TypeOK'
  <2>1. CASE ReadRow(p) BY <2>1 DEF ReadRow, Go
  <2>2. CASE ReadNothing(p)
    BY <2>2 DEF ReadNothing, AnswerPatch, Go
  <2>3. ASSUME NEW b \in Bodies, NEW time \in Times, CommitPatch(p, b, time)
        PROVE  TypeOK'
    <3>1. copy[p] \in Row
      BY <2>3 DEF CommitPatch
    <3>2. row' \in Row
      BY <2>3, <3>1, AssignedRow, UpdatedRow DEF CommitPatch
    <3>3. timeline' \in Seq([from : Statuses, to : Statuses])
      <4> DEFINE e == [from |-> copy[p].status, to |-> b.status]
      <4>1. ChangesStatus(copy[p], b) => e \in [from : Statuses, to : Statuses]
        BY <3>1 DEF ChangesStatus, Row, Bodies
      <4> HIDE DEF e
      <4>2. Logged(p, b) \in Seq([from : Statuses, to : Statuses])
        <5>1. CASE ChangesStatus(copy[p], b)
          <6>1. Logged(p, b) = Append(timeline, e) BY <5>1 DEF Logged, e
          <6> QED BY <4>1, <5>1, <6>1
        <5>2. CASE ~ChangesStatus(copy[p], b) BY <5>2 DEF Logged
        <5> QED BY <5>1, <5>2
      <4> QED BY <2>3, <4>2 DEF CommitPatch
    <3>4. /\ pc' \in [Requests -> {"waiting", "read", "inserted", "embedded"} \cup Answers]
          /\ copy' \in [Requests -> Row \cup {NoRow}]
      BY <2>3 DEF CommitPatch, AnswerPatch, Go
    <3> QED BY <2>3, <3>2, <3>3, <3>4 DEF CommitPatch, AnswerPatch
  <2>4. CASE PatchFails(p)
    BY <2>4 DEF PatchFails, AnswerPatch, Go
  <2> QED BY <1>2, <2>1, <2>2, <2>3, <2>4 DEF Patch
<1>3. ASSUME NEW a \in Analyses, Analyze(a) PROVE TypeOK'
  <2>1. CASE InsertAnalysis(a) BY <2>1 DEF InsertAnalysis, Go
  <2>2. CASE Embed(a)
    <3>1. copy[a] \in Row /\ copy[a].title \in Titles
      BY <2>2 DEF Embed, Row
    <3>2. vector' \in [Analyses -> Vectors \cup {NoVector}]
      BY <2>2, <3>1 DEF Embed, Vectors
    <3> QED BY <2>2, <3>2 DEF Embed, Go
  <2>3. CASE CommitAnalysis(a)
    <3>1. /\ copy[a] \in Row /\ model[a] \in Models /\ row \in Row
          /\ vector[a] \in Vectors \cup {NoVector}
      BY <2>3 DEF CommitAnalysis
    <3>2. row' \in Row
      BY <2>3, <3>1, EmbeddedRow, UpdatedRow DEF CommitAnalysis
    <3> QED BY <2>3, <3>2 DEF CommitAnalysis, AnswerAnalysis, Go
  <2>4. CASE AnalysisFails(a) BY <2>4 DEF AnalysisFails, AnswerAnalysis, Go
  <2> QED BY <1>3, <2>1, <2>2, <2>3, <2>4 DEF Analyze
<1>4. CASE DeleteIncident
  BY <1>4 DEF DeleteIncident
<1> QED BY <1>1, <1>2, <1>3, <1>4 DEF Next

\* What the commit of a PATCH writes: a row, and under locks the assigned one.
LEMMA PatchWrites ==
  ASSUME IInv, NEW p \in Patches, NEW b \in Bodies, NEW time \in Times,
         CommitPatch(p, b, time)
  PROVE  /\ copy[p] \in Row
         /\ row \in Row /\ row' \in Row
         /\ row' = Updated(row, copy[p], Assigned(copy[p], b, time))
         /\ locks => copy[p] = row /\ row' = Assigned(row, b, time)
<1>1. /\ copy[p] \in Row /\ row \in Row
      /\ row' = Updated(row, copy[p], Assigned(copy[p], b, time))
  BY RowAssumption, NoRowAssumption
     DEF IInv, TypeOK, Requests, Reading, CommitPatch
<1>2. row' \in Row
  BY <1>1, AssignedRow, UpdatedRow
<1>3. locks => copy[p] = row
  BY DEF IInv, Exclusive, CommitPatch
<1> QED BY <1>1, <1>2, <1>3, AssignedRow, UpdatedWhole

\* What the commit of an analysis writes: nothing, or its vector and label
\* where they differ from those it has read.
LEMMA AnalysisWrites ==
  ASSUME IInv, NEW a \in Analyses, CommitAnalysis(a)
  PROVE  /\ copy[a] \in Row /\ model[a] \in Models /\ row \in Row /\ row' \in Row
         /\ vector[a] \in Vectors \cup {NoVector}
         /\ \A f \in {"status", "ack", "resolved", "updated", "title"} : row'[f] = row[f]
         /\ \/ row'.embedding = row.embedding /\ row'.label = row.label
            \/ /\ vector[a] # NoVector
               /\ row'.embedding = Column(row.embedding, copy[a].embedding, vector[a])
               /\ row'.label = Column(row.label, copy[a].label, model[a])
<1>1. /\ copy[a] \in Row /\ model[a] \in Models /\ row \in Row
      /\ vector[a] \in Vectors \cup {NoVector}
  BY RowAssumption, NoRowAssumption
     DEF IInv, TypeOK, Requests, Shared, Storing, CommitAnalysis
<1>2. CASE vector[a] = NoVector
  BY <1>1, <1>2 DEF CommitAnalysis
<1>3. CASE vector[a] # NoVector
  <2>1. row' = Updated(row, copy[a], Embedded(a))
    BY <1>3 DEF CommitAnalysis
  <2>2. row' \in Row
    BY <1>1, <2>1, EmbeddedRow, UpdatedRow
  <2> QED BY <1>1, <1>3, <2>1, <2>2, EmbeddedRow DEF Updated, Column, Row
<1> QED BY <1>2, <1>3

\* A session keeps its copy until its request is answered.
LEMMA ReadingStep == IInv /\ [Next]_vars => Reading'
<1> SUFFICES ASSUME IInv, [Next]_vars PROVE Reading'
  OBVIOUS
<1> USE RowAssumption, NoRowAssumption DEF IInv, TypeOK, Requests, Reading
<1>1. CASE UNCHANGED vars
  BY <1>1
<1>2. ASSUME NEW p \in Patches, Patch(p) PROVE Reading'
  <2>1. CASE ReadRow(p) BY <2>1 DEF ReadRow, Go
  <2>2. CASE ReadNothing(p) BY <2>2 DEF ReadNothing, AnswerPatch, Go
  <2>3. ASSUME NEW b \in Bodies, NEW time \in Times, CommitPatch(p, b, time)
        PROVE  Reading'
    BY <2>3 DEF CommitPatch, AnswerPatch, Go
  <2>4. CASE PatchFails(p) BY <2>4 DEF PatchFails, AnswerPatch, Go
  <2> QED BY <1>2, <2>1, <2>2, <2>3, <2>4 DEF Patch
<1>3. ASSUME NEW a \in Analyses, Analyze(a) PROVE Reading'
  <2>1. CASE InsertAnalysis(a) BY <2>1 DEF InsertAnalysis, Go
  <2>2. CASE Embed(a) BY <2>2 DEF Embed, Go
  <2>3. CASE CommitAnalysis(a) BY <2>3 DEF CommitAnalysis, AnswerAnalysis, Go
  <2>4. CASE AnalysisFails(a) BY <2>4 DEF AnalysisFails, AnswerAnalysis, Go
  <2> QED BY <1>3, <2>1, <2>2, <2>3, <2>4 DEF Analyze
<1>4. CASE DeleteIncident
  BY <1>4 DEF DeleteIncident
<1> QED BY <1>1, <1>2, <1>3, <1>4 DEF Next

\* Nobody writes a row that is locked for update.
LEMMA ExclusiveStep == IInv /\ [Next]_vars => Exclusive'
<1> SUFFICES ASSUME IInv, [Next]_vars PROVE Exclusive'
  OBVIOUS
<1> USE RowAssumption, NoRowAssumption DEF IInv, TypeOK, Requests, Reading,
    Shared, Storing, Exclusive, MayRead, MayInsert, MayDelete, RowUnlocked,
    RowShareable
<1>1. CASE UNCHANGED vars
  BY <1>1
<1>2. ASSUME NEW p \in Patches, Patch(p) PROVE Exclusive'
  <2>1. CASE ReadRow(p)
    BY <2>1 DEF ReadRow, Go, Row
  <2>2. CASE ReadNothing(p) BY <2>2 DEF ReadNothing, AnswerPatch, Go
  <2>3. ASSUME NEW b \in Bodies, NEW time \in Times, CommitPatch(p, b, time)
        PROVE  Exclusive'
    BY <2>3 DEF CommitPatch, AnswerPatch, Logged, Go
  <2>4. CASE PatchFails(p) BY <2>4 DEF PatchFails, AnswerPatch, Go
  <2> QED BY <1>2, <2>1, <2>2, <2>3, <2>4 DEF Patch
<1>3. ASSUME NEW a \in Analyses, Analyze(a) PROVE Exclusive'
  <2>1. CASE InsertAnalysis(a) BY <2>1 DEF InsertAnalysis, Go
  <2>2. CASE Embed(a) BY <2>2 DEF Embed, Go
  <2>3. CASE CommitAnalysis(a) BY <2>3 DEF CommitAnalysis, AnswerAnalysis, Go
  <2>4. CASE AnalysisFails(a) BY <2>4 DEF AnalysisFails, AnswerAnalysis, Go
  <2> QED BY <1>3, <2>1, <2>2, <2>3, <2>4 DEF Analyze
<1>4. CASE DeleteIncident
  BY <1>4 DEF DeleteIncident
<1> QED BY <1>1, <1>2, <1>3, <1>4 DEF Next

\* Nobody deletes a row that an analysis refers to.
LEMMA SharedStep == IInv /\ [Next]_vars => Shared'
<1> SUFFICES ASSUME IInv, [Next]_vars PROVE Shared'
  OBVIOUS
<1> USE RowAssumption, NoRowAssumption DEF IInv, TypeOK, Requests, Reading,
    Shared, Storing, Exclusive, MayRead, MayInsert, MayWrite, MayDelete,
    RowUnlocked, DatabaseFree
<1>1. CASE UNCHANGED vars
  BY <1>1
<1>2. ASSUME NEW p \in Patches, Patch(p) PROVE Shared'
  <2>1. CASE ReadRow(p) BY <2>1 DEF ReadRow, Go
  <2>2. CASE ReadNothing(p) BY <2>2 DEF ReadNothing, AnswerPatch, Go
  <2>3. ASSUME NEW b \in Bodies, NEW time \in Times, CommitPatch(p, b, time)
        PROVE  Shared'
    BY <2>3, PatchWrites DEF CommitPatch, AnswerPatch, Go
  <2>4. CASE PatchFails(p) BY <2>4 DEF PatchFails, AnswerPatch, Go
  <2> QED BY <1>2, <2>1, <2>2, <2>3, <2>4 DEF Patch
<1>3. ASSUME NEW a \in Analyses, Analyze(a) PROVE Shared'
  <2>1. CASE InsertAnalysis(a) BY <2>1 DEF InsertAnalysis, Go
  <2>2. CASE Embed(a) BY <2>2 DEF Embed, Go
  <2>3. CASE CommitAnalysis(a)
    BY <2>3, AnalysisWrites DEF CommitAnalysis, AnswerAnalysis, Go
  <2>4. CASE AnalysisFails(a) BY <2>4 DEF AnalysisFails, AnswerAnalysis, Go
  <2> QED BY <1>3, <2>1, <2>2, <2>3, <2>4 DEF Analyze
<1>4. CASE DeleteIncident
  BY <1>4 DEF DeleteIncident
<1> QED BY <1>1, <1>2, <1>3, <1>4 DEF Next

\* No UPDATE forgets an acknowledgement.
LEMMA AcknowledgedStep == IInv /\ [Next]_vars => Acknowledged'
<1> SUFFICES ASSUME IInv, [Next]_vars PROVE Acknowledged'
  OBVIOUS
<1> USE RowAssumption, NoRowAssumption DEF IInv, TypeOK, Requests, Reading,
    Shared, Storing, Exclusive, Acknowledged
<1>1. CASE UNCHANGED vars
  BY <1>1
<1>2. ASSUME NEW p \in Patches, Patch(p) PROVE Acknowledged'
  <2>1. CASE ReadRow(p) BY <2>1 DEF ReadRow, Go
  <2>2. CASE ReadNothing(p) BY <2>2 DEF ReadNothing, AnswerPatch, Go
  <2>3. ASSUME NEW b \in Bodies, NEW time \in Times, CommitPatch(p, b, time)
        PROVE  Acknowledged'
    <3>0. /\ row' = Updated(row, copy[p], Assigned(copy[p], b, time))
          /\ row # NoRow /\ copy[p] # NoRow /\ time # 0
      BY <2>3 DEF CommitPatch
    <3>1. row'.status \in {"acknowledged", "investigating"} => row'.ack # 0
      BY <3>0, AckUpdated
    <3>2. row.ack # 0 => row'.ack # 0
      BY <3>0, AckUpdated
    <3> QED BY <2>3, <3>1, <3>2 DEF CommitPatch, AnswerPatch, Go
  <2>4. CASE PatchFails(p) BY <2>4 DEF PatchFails, AnswerPatch, Go
  <2> QED BY <1>2, <2>1, <2>2, <2>3, <2>4 DEF Patch
<1>3. ASSUME NEW a \in Analyses, Analyze(a) PROVE Acknowledged'
  <2>1. CASE InsertAnalysis(a) BY <2>1 DEF InsertAnalysis, Go
  <2>2. CASE Embed(a) BY <2>2 DEF Embed, Go
  <2>3. CASE CommitAnalysis(a)
    BY <2>3, AnalysisWrites DEF CommitAnalysis, AnswerAnalysis, Go
  <2>4. CASE AnalysisFails(a) BY <2>4 DEF AnalysisFails, AnswerAnalysis, Go
  <2> QED BY <1>3, <2>1, <2>2, <2>3, <2>4 DEF Analyze
<1>4. CASE DeleteIncident
  BY <1>4 DEF DeleteIncident
<1> QED BY <1>1, <1>2, <1>3, <1>4 DEF Next

\* With row locks resolved_at follows the status.
LEMMA ClosedStep == IInv /\ [Next]_vars => Closed'
<1> SUFFICES ASSUME IInv, [Next]_vars PROVE Closed'
  OBVIOUS
<1> USE RowAssumption, NoRowAssumption DEF IInv, TypeOK, Requests, Reading,
    Shared, Storing, Exclusive, Closed
<1>1. CASE UNCHANGED vars
  BY <1>1
<1>2. ASSUME NEW p \in Patches, Patch(p) PROVE Closed'
  <2>1. CASE ReadRow(p) BY <2>1 DEF ReadRow, Go
  <2>2. CASE ReadNothing(p) BY <2>2 DEF ReadNothing, AnswerPatch, Go
  <2>3. ASSUME NEW b \in Bodies, NEW time \in Times, CommitPatch(p, b, time)
        PROVE  Closed'
    <3> SUFFICES ASSUME locks PROVE Closed'
      BY <2>3 DEF CommitPatch
    <3>1. /\ row \in Row /\ row # NoRow /\ time # 0
          /\ row' = Assigned(row, b, time)
      BY <2>3, PatchWrites DEF CommitPatch
    <3>2. row'.status = "resolved" <=> row'.resolved # 0
      BY <3>1 DEF Assigned, ChangesStatus, Row, Statuses, Bodies
    <3> QED BY <3>2
  <2>4. CASE PatchFails(p) BY <2>4 DEF PatchFails, AnswerPatch, Go
  <2> QED BY <1>2, <2>1, <2>2, <2>3, <2>4 DEF Patch
<1>3. ASSUME NEW a \in Analyses, Analyze(a) PROVE Closed'
  <2>1. CASE InsertAnalysis(a) BY <2>1 DEF InsertAnalysis, Go
  <2>2. CASE Embed(a) BY <2>2 DEF Embed, Go
  <2>3. CASE CommitAnalysis(a)
    BY <2>3, AnalysisWrites DEF CommitAnalysis
  <2>4. CASE AnalysisFails(a) BY <2>4 DEF AnalysisFails, AnswerAnalysis, Go
  <2> QED BY <1>3, <2>1, <2>2, <2>3, <2>4 DEF Analyze
<1>4. CASE DeleteIncident
  BY <1>4 DEF DeleteIncident
<1> QED BY <1>1, <1>2, <1>3, <1>4 DEF Next

\* With row locks every event continues the last one.
LEMMA ChainStep == IInv /\ [Next]_vars => TimelineChain'
<1> SUFFICES ASSUME IInv, [Next]_vars PROVE TimelineChain'
  OBVIOUS
<1> USE RowAssumption, NoRowAssumption DEF IInv, TypeOK, Requests, Reading,
    Shared, Storing, Exclusive, TimelineChain
<1>1. CASE UNCHANGED vars
  BY <1>1
<1>2. ASSUME NEW p \in Patches, Patch(p) PROVE TimelineChain'
  <2>1. CASE ReadRow(p) BY <2>1 DEF ReadRow, Go
  <2>2. CASE ReadNothing(p) BY <2>2 DEF ReadNothing, AnswerPatch, Go
  <2>3. ASSUME NEW b \in Bodies, NEW time \in Times, CommitPatch(p, b, time)
        PROVE  TimelineChain'
    <3> DEFINE e == [from |-> copy[p].status, to |-> b.status]
    <3>3. CASE locks /\ ChangesStatus(copy[p], b)
      <4>1. timeline' = Append(timeline, e) /\ row'.status = e.to /\ row.status = e.from
        <5>1. /\ timeline' = Append(timeline, e) /\ b.status # Unset
              /\ copy[p] = row /\ row' = Assigned(row, b, time)
          BY <2>3, PatchWrites, <3>3 DEF CommitPatch, Logged, ChangesStatus
        <5>2. row'.status = b.status
          BY <5>1 DEF Assigned
        <5> QED BY <5>1, <5>2
      <4>2. timeline \in Seq([from : Statuses, to : Statuses])
        OBVIOUS
      <4>3. /\ Len(timeline') = Len(timeline) + 1
            /\ \A k \in 1 .. Len(timeline) : timeline'[k] = timeline[k]
            /\ timeline'[Len(timeline) + 1] = e
        BY <4>1, <4>2
      <4>4. row # NoRow /\ locks
        BY <2>3, <3>3 DEF CommitPatch
      <4> HIDE DEF e
      <4> QED BY <4>1, <4>2, <4>3, <4>4
    <3>4. CASE locks /\ ~ChangesStatus(copy[p], b)
      <4>1. timeline' = timeline /\ row # NoRow /\ row' = Assigned(row, b, time)
            /\ ~ChangesStatus(row, b)
        <5>1. copy[p] = row /\ row' = Assigned(row, b, time)
          BY <2>3, PatchWrites, <3>4
        <5>2. timeline' = timeline /\ row # NoRow
          BY <2>3, <3>4 DEF CommitPatch, Logged
        <5> QED BY <3>4, <5>1, <5>2
      <4>2. row'.status = row.status
        BY <4>1 DEF Assigned, ChangesStatus
      <4> QED BY <3>4, <4>1, <4>2
    <3>5. CASE ~locks
      BY <2>3, <3>5 DEF CommitPatch
    <3> QED BY <3>3, <3>4, <3>5
  <2>4. CASE PatchFails(p) BY <2>4 DEF PatchFails, AnswerPatch, Go
  <2> QED BY <1>2, <2>1, <2>2, <2>3, <2>4 DEF Patch
<1>3. ASSUME NEW a \in Analyses, Analyze(a) PROVE TimelineChain'
  <2>1. CASE InsertAnalysis(a) BY <2>1 DEF InsertAnalysis, Go
  <2>2. CASE Embed(a) BY <2>2 DEF Embed, Go
  <2>3. CASE CommitAnalysis(a)
    BY <2>3, AnalysisWrites DEF CommitAnalysis
  <2>4. CASE AnalysisFails(a) BY <2>4 DEF AnalysisFails, AnswerAnalysis, Go
  <2> QED BY <1>3, <2>1, <2>2, <2>3, <2>4 DEF Analyze
<1>4. CASE DeleteIncident
  BY <1>4 DEF DeleteIncident
<1> QED BY <1>1, <1>2, <1>3, <1>4 DEF Next

\* With row locks no stale vector and no wrong label is stored.
LEMMA FreshStep == IInv /\ [Next]_vars => EmbeddingFresh'
<1> SUFFICES ASSUME IInv, [Next]_vars PROVE EmbeddingFresh'
  OBVIOUS
<1> USE RowAssumption, NoRowAssumption DEF IInv, TypeOK, Requests, Shared,
    Storing, Exclusive,
    Embedders, Kept, Coherent, EmbeddingFresh, Compared, OneModel
<1>1. CASE UNCHANGED vars
  BY <1>1
<1>2. ASSUME NEW p \in Patches, Patch(p) PROVE EmbeddingFresh'
  <2>1. CASE ReadRow(p) BY <2>1 DEF ReadRow, Go
  <2>2. CASE ReadNothing(p) BY <2>2 DEF ReadNothing, AnswerPatch, Go
  <2>3. ASSUME NEW b \in Bodies, NEW time \in Times, CommitPatch(p, b, time)
        PROVE  EmbeddingFresh'
    <3> SUFFICES ASSUME locks PROVE EmbeddingFresh'
      BY <2>3 DEF CommitPatch
    <3>1. row' = Assigned(row, b, time) /\ row \in Row
      BY <2>3, PatchWrites
    <3>2. row # NoRow /\ UNCHANGED model
      BY <2>3 DEF CommitPatch, AnswerPatch
    <3>3. CASE b.title = Unset
      <4>1. /\ row'.embedding = row.embedding /\ row'.label = row.label
            /\ row'.title = row.title
        BY <3>1, <3>3 DEF Assigned
      <4> QED BY <3>2, <4>1
    <3>4. CASE b.title # Unset
      <4>1. row'.embedding = NoVector /\ row'.label = NoModel
        BY <3>1, <3>4 DEF Assigned
      <4> QED BY <4>1
    <3> QED BY <3>3, <3>4
  <2>4. CASE PatchFails(p) BY <2>4 DEF PatchFails, AnswerPatch, Go
  <2> QED BY <1>2, <2>1, <2>2, <2>3, <2>4 DEF Patch
<1>3. ASSUME NEW a \in Analyses, Analyze(a) PROVE EmbeddingFresh'
  <2>1. CASE InsertAnalysis(a) BY <2>1 DEF InsertAnalysis, Go
  <2>2. CASE Embed(a) BY <2>2 DEF Embed, Go
  <2>3. CASE CommitAnalysis(a)
    <3> SUFFICES ASSUME locks PROVE EmbeddingFresh'
      BY <2>3 DEF CommitAnalysis
    <3>1. /\ row \in Row /\ row' \in Row /\ row # NoRow /\ row'.title = row.title
          /\ UNCHANGED model
      BY <2>3, AnalysisWrites DEF CommitAnalysis, AnswerAnalysis
    <3>2. CASE row'.embedding = row.embedding /\ row'.label = row.label
      BY <3>1, <3>2
    <3>3. CASE /\ vector[a] # NoVector
               /\ row'.embedding = Column(row.embedding, copy[a].embedding, vector[a])
               /\ row'.label = Column(row.label, copy[a].label, model[a])
      <4>1. vector[a].title = row.title /\ vector[a].model = model[a] /\ model[a] \in Models
        BY <2>3, <3>3 DEF CommitAnalysis
      <4>2. row'.embedding # NoVector /\ row'.label # NoModel
        BY <2>3, <3>3, <4>1 DEF Column, CommitAnalysis
      <4>3. row'.embedding.title = row'.title
        BY <2>3, <3>1, <3>3, <4>1 DEF Column, CommitAnalysis, Row
      <4>4. OneModel => row'.embedding.model = model[a] /\ row'.label = model[a]
        BY <2>3, <3>1, <3>3, <4>1 DEF Column, CommitAnalysis, Row
      <4> QED BY <3>1, <4>2, <4>3, <4>4
    <3> QED BY <2>3, <3>2, <3>3, AnalysisWrites
  <2>4. CASE AnalysisFails(a) BY <2>4 DEF AnalysisFails, AnswerAnalysis, Go
  <2> QED BY <1>3, <2>1, <2>2, <2>3, <2>4 DEF Analyze
<1>4. CASE DeleteIncident
  BY <1>4 DEF DeleteIncident
<1> QED BY <1>1, <1>2, <1>3, <1>4 DEF Next

\* Under an analysis's share lock only vectors and labels come.
LEMMA EmbeddersStep == IInv /\ [Next]_vars => Embedders'
<1> SUFFICES ASSUME IInv, [Next]_vars PROVE Embedders'
  OBVIOUS
<1> USE RowAssumption, NoRowAssumption DEF IInv, TypeOK, Requests, Shared,
    Storing, Exclusive,
    Embedders, Kept, Coherent, OneModel
<1>1. CASE UNCHANGED vars
  BY <1>1
<1>2. ASSUME NEW p \in Patches, Patch(p) PROVE Embedders'
  <2>1. CASE ReadRow(p) BY <2>1 DEF ReadRow, Go
  <2>2. CASE ReadNothing(p) BY <2>2 DEF ReadNothing, AnswerPatch, Go
  <2>3. ASSUME NEW b \in Bodies, NEW time \in Times, CommitPatch(p, b, time)
        PROVE  Embedders'
    BY <2>3 DEF CommitPatch, AnswerPatch, Logged, Go
  <2>4. CASE PatchFails(p) BY <2>4 DEF PatchFails, AnswerPatch, Go
  <2> QED BY <1>2, <2>1, <2>2, <2>3, <2>4 DEF Patch
<1>3. ASSUME NEW a \in Analyses, Analyze(a) PROVE Embedders'
  <2>1. CASE InsertAnalysis(a)
    <3> SUFFICES ASSUME locks PROVE Embedders'
      BY <2>1 DEF InsertAnalysis
    <3>1. row \in Row /\ row # NoRow
      BY <2>1 DEF InsertAnalysis
    <3>2. row.embedding # NoVector => row.embedding.title = row.title
      BY <3>1 DEF EmbeddingFresh, Compared, Row
    <3> QED BY <2>1, <3>1, <3>2 DEF InsertAnalysis, Go, EmbeddingFresh
  <2>2. CASE Embed(a)
    BY <2>2 DEF Embed, Go, Vectors, NoVector
  <2>3. CASE CommitAnalysis(a)
    <3> SUFFICES ASSUME locks, NEW b \in Analyses, Storing(b)'
                 PROVE  Kept(b)' /\ Coherent(b)'
      BY <2>3 DEF CommitAnalysis
    <3>1. /\ b # a /\ Storing(b) /\ pc[a] = "embedded" /\ Storing(a)
          /\ UNCHANGED <<pc[b], copy[b], vector[b], model>>
      BY <2>3 DEF CommitAnalysis, AnswerAnalysis, Go
    <3>2. /\ row \in Row /\ row' \in Row /\ row'.title = row.title
          /\ model[a] \in Models
          /\ Kept(a) /\ Coherent(a) /\ Kept(b) /\ Coherent(b)
      BY <2>3, <3>1, AnalysisWrites
    <3>3. Coherent(b)'
      BY <3>1, <3>2
    <3>4. CASE row'.embedding = row.embedding /\ row'.label = row.label
      BY <3>1, <3>2, <3>3, <3>4
    <3>5. CASE /\ vector[a] # NoVector
               /\ row'.embedding = Column(row.embedding, copy[a].embedding, vector[a])
               /\ row'.label = Column(row.label, copy[a].label, model[a])
      <4>1. row'.embedding # NoVector /\ row'.label # NoModel
        BY <3>1, <3>2, <3>5 DEF Column
      <4>2. OneModel => /\ row'.label \in {row.label, model[b]}
                        /\ row'.embedding = row.embedding \/ row'.embedding.model = model[b]
        BY <3>1, <3>2, <3>5 DEF Column
      <4> QED BY <3>1, <3>2, <3>3, <4>1, <4>2
    <3> QED BY <2>3, <3>4, <3>5, AnalysisWrites
  <2>4. CASE AnalysisFails(a) BY <2>4 DEF AnalysisFails, AnswerAnalysis, Go
  <2> QED BY <1>3, <2>1, <2>2, <2>3, <2>4 DEF Analyze
<1>4. CASE DeleteIncident
  BY <1>4 DEF DeleteIncident, MayDelete, RowUnlocked
<1> QED BY <1>1, <1>2, <1>3, <1>4 DEF Next

-----------------------------------------------------------------------------
(* Theorems.                                                               *)

\* The initial states satisfy the invariant.
LEMMA InitInv == Init => IInv
<1> SUFFICES ASSUME Init PROVE IInv
  OBVIOUS
<1> USE RowAssumption, NoRowAssumption DEF Init, Requests
<1>1. TypeOK
  BY DEF TypeOK, Row, Statuses, Vectors
<1>2. Reading /\ Exclusive /\ Shared /\ Acknowledged /\ Closed /\ Embedders
  BY DEF Reading, Exclusive, Shared, Storing, Acknowledged, Closed, Embedders
<1>3. TimelineChain
  BY DEF TimelineChain
<1>4. EmbeddingFresh
  BY DEF EmbeddingFresh, Compared, NoVector
<1> QED BY <1>1, <1>2, <1>3, <1>4 DEF IInv

\* Every step keeps the invariant.
LEMMA StepInv == IInv /\ [Next]_vars => IInv'
<1> SUFFICES ASSUME IInv, [Next]_vars PROVE IInv'
  OBVIOUS
<1>1. TypeOK'
  BY TypeStep DEF IInv
<1> QED BY <1>1, ReadingStep, ExclusiveStep, SharedStep, AcknowledgedStep, ClosedStep,
           EmbeddersStep, ChainStep, FreshStep DEF IInv

\* The invariant holds in every reachable state.
THEOREM Invariance == Spec => []IInv
BY InitInv, StepInv, PTL DEF Spec

\* Rows, copies, payloads, stamps and vectors keep their types.
THEOREM TypeCorrect == Spec => []TypeOK
<1>1. IInv => TypeOK
  BY DEF IInv
<1> QED BY <1>1, Invariance, PTL

\* However PATCH requests overlap, under row locks the dashboard and the list
\* agree on what is active and resolved; and even without locks an incident
\* in work counts for the time to acknowledgement.
THEOREM DashboardIsRight == Spec => []DashboardAgrees
<1>1. IInv => DashboardAgrees
  BY DEF IInv, Acknowledged, Closed, DashboardAgrees, CountedActive, CountedResolved,
     HasDuration, MayBeOverdue, HasAckDuration, Listed
<1> QED BY <1>1, Invariance, PTL

\* Under row locks the timeline is one chain from open to the row's status.
THEOREM TimelineIsChain == Spec => []TimelineChain
<1>1. IInv => TimelineChain
  BY DEF IInv
<1> QED BY <1>1, Invariance, PTL

\* Under row locks semantic search never compares with the vector of an old
\* title, and under one model never with another model's vector.
THEOREM SearchIsFresh == Spec => []EmbeddingFresh
<1>1. IInv => EmbeddingFresh
  BY DEF IInv
<1> QED BY <1>1, Invariance, PTL

\* Under row locks acknowledged_at is set once, and resolved_at once each time
\* the incident is resolved, whatever the clocks of the processes read.
THEOREM StampsAreKept == Spec => StampsStay
<1> DEFINE A == locks /\ row # NoRow /\ row' # NoRow =>
                  /\ row.ack # 0 => row'.ack = row.ack
                  /\ row.status = "resolved" /\ row'.status = "resolved" =>
                       row'.resolved = row.resolved
<1>1. ASSUME IInv, Next PROVE A
  <2> SUFFICES ASSUME locks, row # NoRow, row' # NoRow PROVE A
    OBVIOUS
  <2>1. ASSUME NEW p \in Patches, NEW b \in Bodies, NEW time \in Times,
               CommitPatch(p, b, time)
        PROVE  A
    <3>1. row' = Assigned(row, b, time)
      BY <1>1, <2>1, PatchWrites
    <3>2. row.ack # 0 => row'.ack = row.ack
      BY <3>1 DEF Assigned
    <3>3. ASSUME row.status = "resolved", row'.status = "resolved"
          PROVE  row'.resolved = row.resolved
      <4>1. row'.status = IF b.status = Unset THEN row.status ELSE b.status
        BY <3>1 DEF Assigned
      <4>2. ~ChangesStatus(row, b)
        BY <3>3, <4>1 DEF ChangesStatus
      <4> QED BY <3>1, <4>2 DEF Assigned
    <3> QED BY <3>2, <3>3
  <2>2. ASSUME NEW a \in Analyses, CommitAnalysis(a)
        PROVE  row'.ack = row.ack /\ row'.resolved = row.resolved
    BY <1>1, <2>2, AnalysisWrites
  <2>3. \/ \E p \in Patches, b \in Bodies, time \in Times : CommitPatch(p, b, time)
        \/ \E a \in Analyses : CommitAnalysis(a)
        \/ row' = row
    BY <1>1 DEF Next, Patch, Analyze, ReadRow, ReadNothing, PatchFails, InsertAnalysis,
       Embed, AnalysisFails, DeleteIncident
  <2> QED BY <2>1, <2>2, <2>3
<1>2. IInv /\ [Next]_vars => [A]_vars
  BY <1>1
<1>3. Spec => [][A]_vars
  BY <1>2, Invariance, PTL DEF Spec
<1> QED BY <1>3 DEF StampsStay

=============================================================================
