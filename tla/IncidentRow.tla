---------------------------- MODULE IncidentRow ----------------------------
(***************************************************************************)
(* One incident row under concurrent PATCH requests, analyses that write   *)
(* its embedding, and its deletion; and what the dashboard, the list and   *)
(* semantic search make of the row.                                        *)
(*                                                                         *)
(* With locks (PostgreSQL) a PATCH holds SELECT ... FOR UPDATE from its    *)
(* read to its commit and an inserted analysis holds a foreign-key share   *)
(* lock until its own.  Without (SQLite ignores FOR UPDATE) reads take no  *)
(* lock and a transaction locks the database from its first write on.      *)
(* Either way the ORM writes just the columns that differ from the copy a  *)
(* session has read.  A PATCH dates what it does by the wall clock of its  *)
(* own process, which may read anything; what its body says and its clock  *)
(* reads matters only when the commit writes it, and is chosen there.      *)
(***************************************************************************)
EXTENDS Naturals, Sequences

CONSTANTS
  Patches,      \* PATCH /incidents/{id} requests, all sent at the start
  Analyses,     \* analyses of the incident, all requested at the start
  Titles,       \* texts that are embedded
  Times,        \* readings of wall clocks
  Models,       \* embedding models, settings.embedding_model of a process
  NoModel,      \* embedding_model is NULL
  NoRow,        \* "no such row"
  Unset,        \* a field that a body does not have
  LockModes     \* {TRUE}: PostgreSQL, {FALSE}: SQLite

Statuses == {"open", "acknowledged", "investigating", "resolved"}

ASSUME RowAssumption ==
  /\ LockModes \subseteq BOOLEAN
  /\ Unset \notin Statuses
  /\ NoModel \notin Models
  /\ Unset \notin Titles
  /\ Patches \cap Analyses = {}
  /\ 0 \notin Times

Requests == Patches \cup Analyses

\* A vector is named by the title it was computed from (the rest of the
\* embedded text differs in every analysis, so no two vectors are equal: by is
\* the analysis) and by the model that did.
Vectors  == [title : Titles, model : Models, by : Analyses \cup {NoRow}]
NoVector == [title |-> NoRow, model |-> NoModel, by |-> NoRow]

\* 0 in ack or resolved is NULL; label is the column embedding_model.
Row == [status : Statuses, ack : Times \cup {0}, resolved : Times \cup {0},
        updated : Times, title : Titles,
        embedding : Vectors \cup {NoVector}, label : Models \cup {NoModel}]

ASSUME NoRowAssumption == NoRow \notin Row

Bodies == [status : Statuses \cup {Unset}, title : Titles \cup {Unset}]

VARIABLES
  locks,       \* the database honours FOR UPDATE
  row,         \* the committed row
  timeline,    \* committed status_changed events, oldest first
  pc,          \* of each request
  copy,        \* the row as each request's session has read it
  model,       \* of each analysis: settings.embedding_model of its process
  vector       \* of each analysis: what llm.embed has returned

vars == <<locks, row, timeline, pc, copy, model, vector>>

Answers == {"ok", "not_found", "error"}

TypeOK ==
  /\ locks \in BOOLEAN
  /\ row \in Row \cup {NoRow}
  /\ timeline \in Seq([from : Statuses, to : Statuses])
  /\ pc \in [Requests -> {"waiting", "read", "inserted", "embedded"} \cup Answers]
  /\ copy \in [Requests -> Row \cup {NoRow}]
  /\ model \in [Analyses -> Models]
  /\ vector \in [Analyses -> Vectors \cup {NoVector}]

\* A new incident, or one that an earlier analysis has embedded.
Init ==
  /\ locks \in LockModes
  /\ \E m \in Models \cup {NoModel}, time \in Times, title \in Titles :
       row = [status |-> "open", ack |-> 0, resolved |-> 0, updated |-> time,
              title |-> title,
              embedding |-> IF m = NoModel THEN NoVector
                            ELSE [title |-> title, model |-> m, by |-> NoRow],
              label |-> m]
  /\ timeline = <<>>
  /\ pc = [r \in Requests |-> "waiting"]
  /\ copy = [r \in Requests |-> NoRow]
  /\ model \in [Analyses -> Models]
  /\ vector = [a \in Analyses |-> NoVector]

-----------------------------------------------------------------------------
(* Locks.                                                                  *)

Storing(a) == pc[a] \in {"inserted", "embedded"}

\* Mutant: require_incident(lock=False).
RowUnlocked_Ignored == \A a \in Analyses : ~Storing(a)

\* SELECT ... FOR UPDATE, and DELETE, find no other lock on the row.
RowUnlocked == /\ \A p \in Patches : pc[p] # "read"
               /\ \A a \in Analyses : ~Storing(a)

\* Mutant: the analysis does not wait for an open PATCH.
RowShareable_Ignored == TRUE

\* The foreign-key check of an INSERT waits for FOR UPDATE only.
RowShareable == \A p \in Patches : pc[p] # "read"

\* SQLite's one writer is not inside a transaction.
DatabaseFree == \A a \in Analyses : ~Storing(a)

MayRead   == locks => RowUnlocked
MayInsert == IF locks THEN RowShareable ELSE DatabaseFree
MayWrite  == locks \/ DatabaseFree
MayDelete == IF locks THEN RowUnlocked ELSE DatabaseFree

Go(r, l) == pc' = [pc EXCEPT ![r] = l]

\* The request ends and its session with it.
AnswerPatch(p, a) ==
  /\ Go(p, a)
  /\ copy' = [copy EXCEPT ![p] = NoRow]
  /\ UNCHANGED <<model, vector>>

AnswerAnalysis(n, a) ==
  /\ Go(n, a)
  /\ copy' = [copy EXCEPT ![n] = NoRow]
  /\ vector' = [vector EXCEPT ![n] = NoVector]
  /\ UNCHANGED model

-----------------------------------------------------------------------------
(* update_incident.                                                        *)

ReadRow(p) ==
  /\ pc[p] = "waiting"
  /\ MayRead
  /\ row # NoRow
  /\ copy' = [copy EXCEPT ![p] = row]
  /\ Go(p, "read")
  /\ UNCHANGED <<locks, row, timeline, model, vector>>

ReadNothing(p) ==
  /\ pc[p] = "waiting"
  /\ MayRead
  /\ row = NoRow
  /\ AnswerPatch(p, "not_found")
  /\ UNCHANGED <<locks, row, timeline>>

ChangesStatus(old, b) == b.status # Unset /\ b.status # old.status

\* Mutant: model_dump() without exclude_unset.
Assigned_Unset(old, b, time) ==
  [old EXCEPT !.status = b.status, !.updated = time]

\* Mutant: only acknowledged sets acknowledged_at.
Assigned_AckOnly(old, b, time) ==
  [status    |-> IF b.status = Unset THEN old.status ELSE b.status,
   ack       |-> IF b.status = "acknowledged" /\ old.ack = 0 THEN time ELSE old.ack,
   resolved  |-> IF b.status = "resolved" THEN time ELSE 0,
   updated   |-> time,
   title     |-> old.title,
   embedding |-> old.embedding,
   label     |-> old.label]

\* Mutant: acknowledged_at is set again by every acknowledgement.
Assigned_AckAgain(old, b, time) ==
  [old EXCEPT !.status = IF b.status = Unset THEN @ ELSE b.status,
              !.ack = IF b.status = "acknowledged" THEN time ELSE @,
              !.updated = time]

\* The attributes of the ORM object after the handler has assigned them.
Assigned(old, b, time) ==
  [status    |-> IF b.status = Unset THEN old.status ELSE b.status,
   ack       |-> IF /\ ChangesStatus(old, b)
                    /\ b.status \in {"acknowledged", "investigating"}
                    /\ old.ack = 0
                 THEN time ELSE old.ack,
   resolved  |-> IF ChangesStatus(old, b)
                 THEN IF b.status = "resolved" THEN time ELSE 0
                 ELSE old.resolved,
   updated   |-> time,
   title     |-> IF b.title = Unset THEN old.title ELSE b.title,
   embedding |-> IF b.title = Unset THEN old.embedding ELSE NoVector,
   label     |-> IF b.title = Unset THEN old.label ELSE NoModel]

\* UPDATE sets the columns whose value differs from the one that was read.
Column(stored, read, assigned) == IF assigned = read THEN stored ELSE assigned

Updated(stored, read, new) ==
  [status    |-> Column(stored.status, read.status, new.status),
   ack       |-> Column(stored.ack, read.ack, new.ack),
   resolved  |-> Column(stored.resolved, read.resolved, new.resolved),
   updated   |-> Column(stored.updated, read.updated, new.updated),
   title     |-> Column(stored.title, read.title, new.title),
   embedding |-> Column(stored.embedding, read.embedding, new.embedding),
   label     |-> Column(stored.label, read.label, new.label)]

Logged(p, b) == IF ChangesStatus(copy[p], b)
                THEN Append(timeline, [from |-> copy[p].status, to |-> b.status])
                ELSE timeline

\* The body b was assigned at time, utcnow() of this process.
CommitPatch(p, b, time) ==
  /\ pc[p] = "read"
  /\ MayWrite
  /\ row # NoRow
  /\ row' = Updated(row, copy[p], Assigned(copy[p], b, time))
  /\ timeline' = Logged(p, b)
  /\ AnswerPatch(p, "ok")
  /\ UNCHANGED locks

\* The UPDATE matches no row any more (StaleDataError), the database stays
\* locked for the whole busy_timeout, or anything else raises: 500, rolled back.
PatchFails(p) ==
  /\ pc[p] = "read"
  /\ AnswerPatch(p, "error")
  /\ UNCHANGED <<locks, row, timeline>>

-----------------------------------------------------------------------------
(* analyze_incident, from its second require_incident on.                  *)

\* The autoflush inserts the analysis; then the row is read, title included.
InsertAnalysis(a) ==
  /\ pc[a] = "waiting"
  /\ MayInsert
  /\ row # NoRow
  /\ copy' = [copy EXCEPT ![a] = row]
  /\ Go(a, "inserted")
  /\ UNCHANGED <<locks, row, timeline, model, vector>>

\* llm.embed answers; an outage is swallowed and leaves the vector unset.
Embed(a) ==
  /\ pc[a] = "inserted"
  /\ \E v \in {NoVector, [title |-> copy[a].title, model |-> model[a], by |-> a]} :
       vector' = [vector EXCEPT ![a] = v]
  /\ Go(a, "embedded")
  /\ UNCHANGED <<locks, row, timeline, copy, model>>

\* The ORM object, which no other part of the analysis writes to.
Embedded(a) == [copy[a] EXCEPT !.embedding = vector[a], !.label = model[a]]

CommitAnalysis(a) ==
  /\ pc[a] = "embedded"
  /\ row' = IF vector[a] = NoVector THEN row ELSE Updated(row, copy[a], Embedded(a))
  /\ AnswerAnalysis(a, "ok")
  /\ UNCHANGED <<locks, timeline>>

\* The incident is gone, the database stays locked, or something else raises.
AnalysisFails(a) ==
  /\ pc[a] \in {"waiting", "inserted", "embedded"}
  /\ AnswerAnalysis(a, "error")
  /\ UNCHANGED <<locks, row, timeline>>

-----------------------------------------------------------------------------
\* delete_incident, with everything that refers to the row.
DeleteIncident ==
  /\ row # NoRow
  /\ MayDelete
  /\ row' = NoRow
  /\ timeline' = <<>>
  /\ UNCHANGED <<locks, pc, copy, model, vector>>

-----------------------------------------------------------------------------
Patch(p) == \/ ReadRow(p) \/ ReadNothing(p) \/ PatchFails(p)
            \/ \E b \in Bodies, time \in Times : CommitPatch(p, b, time)

Analyze(a) == \/ InsertAnalysis(a) \/ Embed(a)
              \/ CommitAnalysis(a) \/ AnalysisFails(a)

Next == \/ \E p \in Patches : Patch(p)
        \/ \E a \in Analyses : Analyze(a)
        \/ DeleteIncident

Spec == Init /\ [][Next]_vars

-----------------------------------------------------------------------------
(* What readers make of the row.                                           *)

\* GET /incidents?status=...
Listed(status) ==
  IF status = "active" THEN row.status # "resolved" ELSE row.status = status

\* GET /dashboard: the counts, the durations of MTTR and of acknowledgement,
\* and the unresolved ones that may count against the SLA.
CountedResolved == row.status = "resolved" /\ row.resolved # 0
CountedActive   == ~CountedResolved
HasDuration     == CountedResolved
HasAckDuration  == row.ack # 0
MayBeOverdue    == row.status # "resolved"

\* Semantic search under model m compares its query with the row's vector.
Compared(m) == row.embedding # NoVector /\ row.label = m

-----------------------------------------------------------------------------
(* Properties.                                                             *)

\* With row locks the dashboard and the list agree on which incidents are
\* active, whatever PATCH requests overlap: resolved_at is set exactly while
\* the incident is resolved, so that each one is in the MTTR or may be overdue,
\* never both or neither.  Without locks too an incident that is listed as
\* acknowledged or investigated counts for the time to acknowledgement.
DashboardAgrees ==
  row # NoRow =>
    /\ locks => /\ CountedActive <=> Listed("active")
                /\ CountedResolved <=> row.resolved # 0
                /\ HasDuration <=> ~MayBeOverdue
    /\ Listed("acknowledged") \/ Listed("investigating") => HasAckDuration

\* With row locks the status_changed events read as one chain from open to the
\* row's status: no event tells of a status the incident was not in.  (The
\* chain is in the order of the commits.  The API orders events by created_at,
\* which each process takes from its own clock.)
TimelineChain ==
  locks /\ row # NoRow =>
    LET n == Len(timeline) IN
    /\ \A k \in 1 .. n : timeline[k].from =
                           (IF k = 1 THEN "open" ELSE timeline[k - 1].to)
    /\ row.status = (IF n = 0 THEN "open" ELSE timeline[n].to)

\* With row locks semantic search compares only with vectors of the stored
\* title: an analysis that overlaps a change of title leaves none of the old
\* one.  Vector and label are there together, and when all processes run one
\* model, even after a change of it, the label is right.  (Under two models it
\* may not be: an analysis that read its own model's label leaves it out of the
\* UPDATE, although another one has changed it meanwhile.)
EmbeddingFresh ==
  locks /\ row # NoRow =>
    /\ row.embedding = NoVector <=> row.label = NoModel
    /\ \A m \in Models : Compared(m) =>
         /\ row.embedding.title = row.title
         /\ (\A a, b \in Analyses : model[a] = model[b]) => row.embedding.model = m

\* With row locks acknowledged_at never changes once set, and resolved_at not
\* while the incident stays resolved: neither repeated nor overlapping PATCH
\* requests shift the durations behind MTTA and MTTR.  (Without locks two that
\* acknowledge or resolve an incident at once overwrite each other's stamp.
\* Nothing orders stamps of different processes: clocks are not compared.)
StampsStay ==
  [][locks /\ row # NoRow /\ row' # NoRow =>
       /\ row.ack # 0 => row'.ack = row.ack
       /\ row.status = "resolved" /\ row'.status = "resolved" =>
            row'.resolved = row.resolved]_vars

=============================================================================
