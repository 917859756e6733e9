--------------------------- MODULE AlertIngestion ---------------------------
(***************************************************************************)
(* POST /webhooks/{source}: batches of alerts from a provider that sends a *)
(* batch again when it was not answered with a receipt.  A batch is one    *)
(* transaction; each alert in it is a SELECT by its unique key, then a     *)
(* savepoint that inserts incident and alert.  The notifications of new    *)
(* incidents are background tasks of the response: they run one by one     *)
(* after the receipt is sent, and those that have not started are lost     *)
(* when the process dies or a task before them raises.  The source's       *)
(* adapter (AlertSources) says what a payload's batch is.                  *)
(*                                                                         *)
(* incidents and alerts hold committed rows, mine[d] what d's transaction  *)
(* has inserted.  On SQLite BEGIN IMMEDIATE admits one batch at a time; on *)
(* PostgreSQL an INSERT waits for the transaction holding the same key.    *)
(***************************************************************************)
EXTENDS AlertSources

CONSTANTS
  Deliveries,      \* batches a provider sends
  Scenarios,       \* their payloads, as functions from Deliveries
  MaxAttempts,     \* bound: how often one batch is sent
  DatabaseModes,   \* {TRUE}: SQLite, {FALSE}: PostgreSQL
  AutoAnalyze,     \* settings.auto_analyze
  Faults           \* which of FaultKinds may happen

FaultKinds ==
  {"queue_down",         \* the broker refuses a job
   "crash",              \* the process that handles a delivery dies
   "database_down",      \* a statement fails, COMMIT included
   "ambiguous_commit",   \* a COMMIT that has happened raises
   "task_raises"}        \* an analysis among the background tasks raises

ASSUME IngestionAssumption ==
  /\ \A s \in Scenarios : DOMAIN s = Deliveries
  /\ MaxAttempts \in Nat \ {0}
  /\ DatabaseModes \subseteq BOOLEAN
  /\ AutoAnalyze \in BOOLEAN
  /\ Faults \subseteq FaultKinds

\* A payload holds a list of alerts, Grafana's alone more than one; CloudWatch
\* tells the state of its alarm.
ASSUME PayloadAssumption ==
  \A s \in Scenarios : \A d \in Deliveries :
    LET raws == s[d].alerts IN
    /\ raws \in Seq({raws[n] : n \in DOMAIN raws})
    /\ s[d].source # "grafana" => Len(raws) <= 1
    /\ s[d].source = "cloudwatch" =>
         \A n \in DOMAIN raws : raws[n].state \in {"firing", "resolved"}

VARIABLES
  sqlite,      \* the dialect
  batch,       \* of each delivery, as its adapter normalizes it
  incidents,   \* committed incidents
  alerts,      \* committed alerts, [key, incident]
  gone,        \* history: incidents that were deleted
  pc,          \* of each delivery
  attempt,     \* which sending this is
  found,       \* the incident ids an alert row named
  mine,        \* alerts (with their incidents) inserted, not yet committed
  results,     \* of the alerts handled so far, [incident, duplicate]
  tasks,       \* incidents whose notification has yet to start
  notified,    \* incidents whose notification was started, and by whom
  lost         \* history: deliveries whose tasks were lost after the receipt

store   == <<incidents, alerts, gone>>
session == <<found, mine, results>>
vars    == <<sqlite, batch, store, pc, attempt, session, tasks, notified, lost>>

Batches == UNION {{Batch(s[d]) : d \in Deliveries} : s \in Scenarios}

Final == {"answered", "invalid", "error", "unsure", "unqueued", "crashed"}

\* A new incident is named by the delivery, the attempt and the position.
Id == Deliveries \X (1 .. MaxAttempts) \X Nat

Nobody == <<>>

Receipt == [incident : Id, duplicate : BOOLEAN]

TypeOK ==
  /\ sqlite \in BOOLEAN
  /\ batch \in [Deliveries -> Batches]
  /\ incidents \subseteq Id
  /\ \A r \in alerts : r.incident \in Id
  /\ gone \subseteq Id
  /\ pc \in [Deliveries -> {"sent", "select", "insert", "reselect", "load",
                            "commit", "schedule", "respond"} \cup Final]
  /\ attempt \in [Deliveries -> 1 .. MaxAttempts]
  /\ found \in [Deliveries -> Id \cup {Nobody}]
  /\ DOMAIN mine = Deliveries
  /\ \A d \in Deliveries : \A r \in mine[d] : r.incident \in Id
  /\ results \in [Deliveries -> Seq(Receipt)]
  /\ \A d \in Deliveries : Len(results[d]) <= Len(batch[d])
  /\ tasks \in [Deliveries -> SUBSET Id]
  /\ notified \subseteq Id \X Deliveries
  /\ lost \subseteq Deliveries

Init ==
  /\ sqlite \in DatabaseModes
  /\ \E s \in Scenarios : batch = [d \in Deliveries |-> Batch(s[d])]
  /\ incidents = {} /\ alerts = {} /\ gone = {}
  /\ pc = [d \in Deliveries |-> "sent"]
  /\ attempt = [d \in Deliveries |-> 1]
  /\ found = [d \in Deliveries |-> Nobody]
  /\ mine = [d \in Deliveries |-> {}]
  /\ results = [d \in Deliveries |-> <<>>]
  /\ tasks = [d \in Deliveries |-> {}]
  /\ notified = {}
  /\ lost = {}

-----------------------------------------------------------------------------
InTransaction(d) == pc[d] \in {"select", "insert", "reselect", "load", "commit"}

Go(d, l) == pc' = [pc EXCEPT ![d] = l]

Position(d) == Len(results[d]) + 1
Alert(d)    == batch[d][Position(d)]
NewId(d)    == <<d, attempt[d], Position(d)>>

\* Mutant: on SQLite the batch did not BEGIN, so released savepoints stay.
Leave_KeepsSavepoints(d, l) ==
  /\ Go(d, l)
  /\ incidents' = incidents \cup {r.incident : r \in mine[d]}
  /\ alerts' = alerts \cup mine[d]
  /\ mine' = [mine EXCEPT ![d] = {}]
  /\ found' = [found EXCEPT ![d] = Nobody]
  /\ results' = [results EXCEPT ![d] = <<>>]
  /\ tasks' = [tasks EXCEPT ![d] = {}]
  /\ UNCHANGED <<sqlite, batch, gone, attempt, notified, lost>>

\* Mutant: get_session does not roll back.
Leave_NoRollback(d, l) ==
  /\ Go(d, l)
  /\ found' = [found EXCEPT ![d] = Nobody]
  /\ results' = [results EXCEPT ![d] = <<>>]
  /\ tasks' = [tasks EXCEPT ![d] = {}]
  /\ UNCHANGED <<sqlite, batch, store, attempt, mine, notified, lost>>

\* The handler raises: get_session rolls back, the response has no tasks.
Leave(d, l) ==
  /\ Go(d, l)
  /\ mine' = [mine EXCEPT ![d] = {}]
  /\ found' = [found EXCEPT ![d] = Nobody]
  /\ results' = [results EXCEPT ![d] = <<>>]
  /\ tasks' = [tasks EXCEPT ![d] = {}]
  /\ UNCHANGED <<sqlite, batch, store, attempt, notified, lost>>

\* One alert is done; the loop goes on or ends.
Record(d, incident, duplicate) ==
  /\ results' = [results EXCEPT ![d] =
       Append(@, [incident |-> incident, duplicate |-> duplicate])]
  /\ Go(d, IF Position(d) = Len(batch[d]) THEN "commit" ELSE "select")

-----------------------------------------------------------------------------
(* ingest.                                                                 *)

\* get_source(...).normalize refuses the payload, or gives no alert or more
\* than 100: the empty batch stands for all of these.
Refuse(d) == pc[d] = "sent" /\ batch[d] = <<>> /\ Leave(d, "invalid")

Begin(d) ==
  /\ pc[d] = "sent"
  /\ batch[d] # <<>>
  /\ sqlite => \A e \in Deliveries : ~InTransaction(e)
  /\ Go(d, "select")
  /\ UNCHANGED <<sqlite, batch, store, attempt, session, tasks, notified, lost>>

\* BEGIN IMMEDIATE gives up after the busy timeout.
Busy(d) ==
  /\ pc[d] = "sent"
  /\ sqlite
  /\ \E e \in Deliveries : InTransaction(e)
  /\ Leave(d, "error")

\* The SELECT by key sees what is committed and what this batch inserted.
Visible(d) == alerts \cup mine[d]

Lookup(d) ==
  /\ pc[d] \in {"select", "reselect"}
  /\ \E r \in Visible(d) :
       /\ r.key = Alert(d).key
       /\ found' = [found EXCEPT ![d] = r.incident]
  /\ Go(d, "load")
  /\ UNCHANGED <<sqlite, batch, store, attempt, mine, results, tasks, notified, lost>>

Unknown(d) == \A r \in Visible(d) : r.key # Alert(d).key

LookupNothing(d) ==
  /\ pc[d] = "select"
  /\ Unknown(d)
  /\ Alert(d).valid
  /\ Go(d, "insert")
  /\ UNCHANGED <<sqlite, batch, store, attempt, session, tasks, notified, lost>>

\* IncidentCreate or LogInput does not validate: 422 for the whole batch.
Invalid(d) ==
  /\ pc[d] = "select"
  /\ Unknown(d)
  /\ ~Alert(d).valid
  /\ Leave(d, "invalid")

\* The key vanished between the IntegrityError and the second SELECT.
Vanished(d) == pc[d] = "reselect" /\ Unknown(d) /\ Leave(d, "error")

\* require_incident loads the incident of a duplicate ...
Load(d) ==
  /\ pc[d] = "load"
  /\ found[d] \in incidents \cup {r.incident : r \in mine[d]}
  /\ Record(d, found[d], TRUE)
  /\ found' = [found EXCEPT ![d] = Nobody]
  /\ UNCHANGED <<sqlite, batch, store, attempt, mine, tasks, notified, lost>>

\* ... or finds it deleted since the first SELECT.
LoadNothing(d) ==
  /\ pc[d] = "load"
  /\ found[d] \notin incidents \cup {r.incident : r \in mine[d]}
  /\ Leave(d, "error")

\* An INSERT of d's key has to wait for e's transaction.
WaitsFor(d, e) ==
  /\ d # e
  /\ pc[d] = "insert"
  /\ \E r \in mine[e] : r.key = Alert(d).key

\* Mutant: alerts lack the unique constraint.
KeyTaken_Never(d) == d \notin Deliveries

KeyTaken(d) == \E r \in alerts : r.key = Alert(d).key

\* Mutant: the alert is added before the flush that gives the incident its id.
Insert_NoIncident(d) ==
  /\ pc[d] = "insert"
  /\ \A e \in Deliveries : ~WaitsFor(d, e)
  /\ ~KeyTaken(d)
  /\ mine' = [mine EXCEPT ![d] = @ \cup {[key |-> Alert(d).key, incident |-> Nobody]}]
  /\ Record(d, NewId(d), FALSE)
  /\ UNCHANGED <<sqlite, batch, store, attempt, found, tasks, notified, lost>>

\* The savepoint is released: incident, alert, logs and timeline.
Insert(d) ==
  /\ pc[d] = "insert"
  /\ \A e \in Deliveries : ~WaitsFor(d, e)
  /\ ~KeyTaken(d)
  /\ mine' = [mine EXCEPT ![d] = @ \cup {[key |-> Alert(d).key, incident |-> NewId(d)]}]
  /\ Record(d, NewId(d), FALSE)
  /\ UNCHANGED <<sqlite, batch, store, attempt, found, tasks, notified, lost>>

\* IntegrityError: the savepoint is rolled back, its incident included.
InsertConflicts(d) ==
  /\ pc[d] = "insert"
  /\ \A e \in Deliveries : ~WaitsFor(d, e)
  /\ KeyTaken(d)
  /\ Go(d, "reselect")
  /\ UNCHANGED <<sqlite, batch, store, attempt, session, tasks, notified, lost>>

\* PostgreSQL aborts one of a ring of waiting transactions; the error is no
\* IntegrityError and ends the request.
Deadlocked(d) ==
  \E ring \in SUBSET Deliveries :
    /\ d \in ring
    /\ \A e \in ring : \E f \in ring : WaitsFor(e, f)

AbortDeadlock(d) == Deadlocked(d) /\ Leave(d, "error")

\* A SELECT, an INSERT or the COMMIT fails: 500, rolled back.
DatabaseFails(d) ==
  "database_down" \in Faults /\ InTransaction(d) /\ Leave(d, "error")

\* What COMMIT does to the rows.
Store(d) ==
  /\ incidents' = incidents \cup {r.incident : r \in mine[d]}
  /\ alerts' = alerts \cup mine[d]
  /\ mine' = [mine EXCEPT ![d] = {}]
  /\ UNCHANGED gone

Commit(d) ==
  /\ pc[d] = "commit"
  /\ Store(d)
  /\ Go(d, "schedule")
  /\ UNCHANGED <<sqlite, batch, attempt, found, results, tasks, notified, lost>>

\* The answer to a COMMIT that has happened is lost: 500, and no tasks.
CommitUnsure(d) ==
  /\ "ambiguous_commit" \in Faults
  /\ pc[d] = "commit"
  /\ Store(d)
  /\ results' = [results EXCEPT ![d] = <<>>]
  /\ Go(d, "unsure")
  /\ UNCHANGED <<sqlite, batch, attempt, found, tasks, notified, lost>>

-----------------------------------------------------------------------------
(* The loop over the incidents the batch has created.                      *)

Created(d) == {results[d][n].incident :
                 n \in {m \in 1 .. Len(results[d]) : ~results[d][m].duplicate}}

\* The incidents the loop still has to visit, and the one that is next.
Left(d)      == Created(d) \ tasks[d]
IsNext(d, i) == i \in Left(d) /\ \A k \in Left(d) : i[3] <= k[3]

\* schedule_created, and with auto_analyze a queued analysis.
Schedule(d) ==
  /\ pc[d] = "schedule"
  /\ \E i \in Left(d) :
       /\ IsNext(d, i)
       /\ AutoAnalyze => i \in incidents
       /\ tasks' = [tasks EXCEPT ![d] = @ \cup {i}]
  /\ UNCHANGED <<sqlite, batch, store, pc, attempt, session, notified, lost>>

\* queue_analysis raises: 503 from the broker, 404 for an incident deleted since
\* the commit, or the database fails.  The tasks added so far belong to no
\* response any more.
ScheduleFails(d) ==
  /\ AutoAnalyze
  /\ pc[d] = "schedule"
  /\ \E i \in Left(d) :
       /\ IsNext(d, i)
       /\ i \notin incidents \/ Faults \cap {"queue_down", "database_down"} # {}
  /\ Leave(d, "unqueued")

\* Mutant: a failure to queue an analysis ends the loop and not the request.
Scheduled_Partly(d) ==
  /\ pc[d] = "schedule"
  /\ Go(d, "respond")
  /\ UNCHANGED <<sqlite, batch, store, attempt, session, tasks, notified, lost>>

Scheduled(d) ==
  /\ pc[d] = "schedule"
  /\ Left(d) = {}
  /\ Go(d, "respond")
  /\ UNCHANGED <<sqlite, batch, store, attempt, session, tasks, notified, lost>>

\* The receipt is sent, and takes the tasks with it.
Respond(d) ==
  /\ pc[d] = "respond"
  /\ Go(d, "answered")
  /\ UNCHANGED <<sqlite, batch, store, attempt, session, tasks, notified, lost>>

\* The next background task starts: notify_created, which raises nothing.
RunTask(d) ==
  /\ pc[d] = "answered"
  /\ \E i \in tasks[d] :
       /\ \A k \in tasks[d] : i[3] <= k[3]
       /\ notified' = notified \cup {<<i, d>>}
       /\ tasks' = [tasks EXCEPT ![d] = @ \ {i}]
  /\ UNCHANGED <<sqlite, batch, store, pc, attempt, session, lost>>

-----------------------------------------------------------------------------
(* Around the handler.                                                     *)

\* The process handling d dies, and its transaction with it.
Crash(d) == "crash" \in Faults /\ pc[d] \notin Final /\ Leave(d, "crashed")

\* The process dies after the receipt; or it runs analyses as tasks too, and the
\* one behind a notification that has started raises.  No other task starts.
LoseTasks(d) ==
  /\ pc[d] = "answered"
  /\ tasks[d] # {}
  /\ \/ "crash" \in Faults
     \/ "task_raises" \in Faults /\ AutoAnalyze /\ tasks[d] # Created(d)
  /\ tasks' = [tasks EXCEPT ![d] = {}]
  /\ lost' = lost \cup {d}
  /\ UNCHANGED <<sqlite, batch, store, pc, attempt, session, notified>>

\* The provider sends an unanswered batch again.
Resend(d) ==
  /\ pc[d] \in Final \ {"answered", "invalid"}
  /\ attempt[d] < MaxAttempts
  /\ attempt' = [attempt EXCEPT ![d] = @ + 1]
  /\ Go(d, "sent")
  /\ UNCHANGED <<sqlite, batch, store, session, tasks, notified, lost>>

\* delete_incident takes the alerts along; on SQLite it waits for the batch.
DeleteIncident(i) ==
  /\ i \in incidents
  /\ sqlite => \A d \in Deliveries : ~InTransaction(d)
  /\ incidents' = incidents \ {i}
  /\ alerts' = {r \in alerts : r.incident # i}
  /\ gone' = gone \cup {i}
  /\ UNCHANGED <<sqlite, batch, pc, attempt, session, tasks, notified, lost>>

Handle(d) == \/ Refuse(d) \/ Begin(d) \/ Busy(d) \/ Lookup(d)
             \/ LookupNothing(d) \/ Invalid(d) \/ Vanished(d) \/ Load(d)
             \/ LoadNothing(d) \/ Insert(d) \/ InsertConflicts(d)
             \/ AbortDeadlock(d) \/ Commit(d) \/ Schedule(d)
             \/ ScheduleFails(d) \/ Scheduled(d) \/ Respond(d) \/ RunTask(d)

Disturb(d) == DatabaseFails(d) \/ CommitUnsure(d) \/ Crash(d) \/ LoseTasks(d)

Next == \/ \E d \in Deliveries : Handle(d) \/ Disturb(d) \/ Resend(d)
        \/ \E i \in incidents : DeleteIncident(i)

Spec == Init /\ [][Next]_vars

\* The handler of a delivery goes on, and the provider does send again.  No
\* failure of the database, crash or deletion is counted on.
FairSpec == Spec /\ \A d \in Deliveries : WF_vars(Handle(d)) /\ WF_vars(Resend(d))

-----------------------------------------------------------------------------
(* Properties.                                                             *)

Committed(d) == pc[d] \in {"schedule", "respond", "answered"}

\* One occurrence of a problem is one incident and one incident is one
\* occurrence, for alerts of all deliveries, attempts and sources that are on
\* record, until somebody deletes the incident.  The exception are Grafana
\* alerts with a start time and no fingerprint: these the time identifies.
OneIncidentPerOccurrence ==
  \A d, e \in Deliveries : Committed(d) /\ Committed(e) =>
    \A m \in DOMAIN batch[d], n \in DOMAIN batch[e] :
      LET i == results[d][m].incident  j == results[e][n].incident IN
      ~Nameless(batch[d][m]) /\ ~Nameless(batch[e][n]) =>
        IF Occurrence(batch[d][m]) = Occurrence(batch[e][n])
        THEN i = j \/ i \in gone \/ j \in gone
        ELSE i # j

\* The keys of each batch.
KeySets == {{b[n].key : n \in DOMAIN b} : b \in Batches}

\* The committed rows are those of the book; a deleted incident's alert is told
\* by its name.
Book == INSTANCE AlertBook WITH
  KeySets   <- KeySets,
  gone      <- {[key |-> batch[i[1]][i[3]].key, incident |-> i] : i \in gone},
  announced <- {x[1] : x \in notified}

\* Seen from outside, batches that race, conflict, fail and are sent again are
\* entries in the book of AlertBook: whole, one incident for a key, incident and
\* alert never apart, and nothing announced that was not entered.
ImplementsBook == Book!Spec

\* A batch that was not committed leaves nothing behind, and a committed batch
\* leaves an alert for each of its keys until somebody deletes it.
BatchIsAtomic ==
  \A d \in Deliveries :
    /\ pc[d] \in {"invalid", "error"} =>
         \A i \in incidents \cup gone : i[1] = d => i[2] < attempt[d]
    /\ Committed(d) =>
         \A n \in 1 .. Len(results[d]) :
           LET i == results[d][n].incident IN
           \/ i \in gone
           \/ [key |-> batch[d][n].key, incident |-> i] \in alerts

\* The receipts: only the one of the delivery that created an incident calls
\* it new, and this delivery alone announces it.  Once a receipt is sent, what
\* it calls new is announced in its order, all of it unless the process dies or
\* a task raises: then the last ones are not, although the provider has a
\* receipt and sends nothing again.
ReceiptsAreHonest ==
  /\ \A d \in Deliveries : pc[d] = "answered" =>
       /\ \A n \in DOMAIN results[d] :
            ~results[d][n].duplicate <=> results[d][n].incident = <<d, attempt[d], n>>
       /\ \A i, k \in Created(d) :
            <<i, d>> \in notified /\ k[3] <= i[3] => <<k, d>> \in notified
       /\ tasks[d] = {} /\ d \notin lost => Created(d) \X {d} \subseteq notified
  /\ \A x, y \in notified : x[1] = y[1] => x = y

\* Every delivery ends, although batches wait for one another's keys, and its
\* background tasks with it.
DeliveriesEnd == \A d \in Deliveries : <>[](pc[d] \in Final /\ tasks[d] = {})

\* Slack, Teams and APNs hear of every new incident unless it is deleted first.
NewIncidentsNotified ==
  \A d \in Deliveries : \A a \in 1 .. MaxAttempts, n \in 1 .. 2 :
    LET i == <<d, a, n>> IN
    i \in incidents ~> i \notin incidents \/ \E x \in notified : x[1] = i

=============================================================================
