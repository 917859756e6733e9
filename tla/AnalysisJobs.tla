---------------------------- MODULE AnalysisJobs ----------------------------
(***************************************************************************)
(* Asynchronous analysis of an incident: the request that inserts a job    *)
(* and publishes it, the broker, the workers that run                      *)
(* execute_analysis_job, and the deletion of incidents, all against one    *)
(* PostgreSQL database at READ COMMITTED.                                  *)
(*                                                                         *)
(* jobs, analyses and incidents hold committed rows only.  A transaction's *)
(* own copy of a job row is draft[w]; the row locks are derived from the   *)
(* program counters (Locked, KeyShared) and from deleting.                 *)
(***************************************************************************)
EXTENDS Naturals

CONSTANTS
  Jobs,             \* the calls of queue_analysis, each of which makes a job
  Requests,         \* the requests that make these calls
  Incidents,        \* incidents that exist when the model starts
  Workers,          \* Celery worker processes, or background tasks of the API
  NoRow,            \* "no such row"
  NoJob,            \* "no message in hand"
  Plans,            \* which requests may call it for which incidents
  Modes,            \* values settings.celery_enabled may have
  Faults,           \* which of FaultKinds may happen
  MaxCrashes,       \* bound: worker processes lost
  MaxRedeliveries   \* bound: deliveries repeated while the first still runs

FaultKinds == {"api_crash", "ambiguous_publish", "ambiguous_commit",
               "lock_error", "time_limit", "database_outage"}

\* A webhook makes one call for each incident it has created.
EveryPlan == {p \in [request : [Jobs -> Requests], target : [Jobs -> Incidents]] :
                \A j, k \in Jobs :
                  p.request[j] = p.request[k] /\ p.target[j] = p.target[k] => j = k}

ASSUME JobsAssumption ==
  /\ Plans \subseteq EveryPlan
  /\ Modes \subseteq BOOLEAN
  /\ Faults \subseteq FaultKinds
  /\ MaxCrashes \in Nat
  /\ MaxRedeliveries \in Nat
  /\ NoJob \notin Jobs

VARIABLES
  celery,        \* settings.celery_enabled, read once at start-up
  request,       \* the request each call belongs to: a webhook makes several
  target,        \* the incident each call is about
  incidents,     \* incident rows
  deleting,      \* incidents whose deletion is executed but not committed
  jobs,          \* job rows
  analyses,      \* number of analysis rows stored by each job
  pub,           \* where queue_analysis stands for each job
  queue,         \* messages waiting in the broker (or tasks not yet started)
  pc, msg,       \* each worker's position, and the job it was handed
  draft,         \* each worker session's copy of that job's row
  owned,         \* the broker still counts the message as this worker's
  abandoned,     \* history: jobs dropped without anyone's noticing
  crashes, redeliveries

store  == <<incidents, deleting, jobs, analyses>>
worker == <<pc, msg, draft, owned>>
given  == <<celery, request, target>>
bounds == <<given, crashes, redeliveries>>
vars   == <<store, pub, queue, worker, abandoned, bounds>>

JobRow == [incident : Incidents,
           status   : {"queued", "running", "succeeded", "failed"},
           result   : BOOLEAN,
           error    : {"none", "analysis", "queue"}]

ASSUME NoRowAssumption == NoRow \notin JobRow

PcStates == {"idle", "received", "analysing", "storing", "stored",
             "failing", "writing", "finished"}

TypeOK ==
  /\ celery \in BOOLEAN
  /\ request \in [Jobs -> Requests]
  /\ target \in [Jobs -> Incidents]
  /\ incidents \subseteq Incidents
  /\ deleting \subseteq incidents
  /\ jobs \in [Jobs -> JobRow \cup {NoRow}]
  /\ analyses \in [Jobs -> Nat]
  /\ pub \in [Jobs -> {"idle", "publishing", "refusing", "returned", "answered"}]
  /\ queue \in [Jobs -> Nat]
  /\ pc \in [Workers -> PcStates]
  /\ msg \in [Workers -> Jobs \cup {NoJob}]
  /\ draft \in [Workers -> JobRow \cup {NoRow}]
  /\ owned \in [Workers -> BOOLEAN]
  /\ abandoned \subseteq Jobs
  /\ crashes \in Nat
  /\ redeliveries \in Nat

Init ==
  /\ celery \in Modes
  /\ \E p \in Plans : request = p.request /\ target = p.target
  /\ incidents = Incidents
  /\ deleting = {}
  /\ jobs = [j \in Jobs |-> NoRow]
  /\ analyses = [j \in Jobs |-> 0]
  /\ pub = [j \in Jobs |-> "idle"]
  /\ queue = [j \in Jobs |-> 0]
  /\ pc = [w \in Workers |-> "idle"]
  /\ msg = [w \in Workers |-> NoJob]
  /\ draft = [w \in Workers |-> NoRow]
  /\ owned = [w \in Workers |-> FALSE]
  /\ abandoned = {}
  /\ crashes = 0
  /\ redeliveries = 0

-----------------------------------------------------------------------------
(* Row locks.                                                              *)

\* Mutant: the failure is written while the first session is still open.
Locking_UntilWritten == {"analysing", "storing", "stored", "failing", "writing"}

\* w's open transaction holds the FOR UPDATE lock on the row of its job.
Locking == {"analysing", "storing", "stored"}
Locked(w) == pc[w] \in Locking

\* Mutant: SELECT without FOR UPDATE.
RowFree_Unlocked(j) == j \in Jobs

\* The job row can be locked or written now: nobody else holds it.
RowFree(j) == \A w \in Workers : Locked(w) => msg[w] # j

\* The inserted analysis gives w a foreign-key share lock on its incident.
KeyShared(w) == pc[w] = "stored"

-----------------------------------------------------------------------------
(* queue_analysis: require_incident, INSERT, COMMIT, then publish.         *)

CallsOf(r) == {j \in Jobs : request[j] = r}

\* The loop of r goes on: all its calls so far have returned.
Open(r) == \A j \in CallsOf(r) : pub[j] \in {"idle", "returned"}

\* The job is still with its request: not published, or a task of a response
\* that has not been sent.
Held(j) == \/ pub[j] \in {"publishing", "refusing"}
           \/ pub[j] = "returned" /\ ~celery

QueueAnalysis(j) ==
  /\ pub[j] = "idle"
  /\ Open(request[j])
  /\ target[j] \in incidents \ deleting
  /\ jobs' = [jobs EXCEPT ![j] = [incident |-> target[j], status |-> "queued",
                                  result |-> FALSE, error |-> "none"]]
  /\ pub' = [pub EXCEPT ![j] = "publishing"]
  /\ UNCHANGED <<incidents, deleting, analyses, queue, worker, abandoned, bounds>>

\* apply_async returns, or the task is added to the response's background tasks.
Publish(j) ==
  /\ pub[j] = "publishing"
  /\ queue' = IF celery THEN [queue EXCEPT ![j] = @ + 1] ELSE queue
  /\ pub' = [pub EXCEPT ![j] = "returned"]
  /\ UNCHANGED <<store, worker, abandoned, bounds>>

\* apply_async(retry=False) raises.  When the connection breaks after the
\* broker took the message, the message is there all the same.
PublishFails(j) ==
  /\ celery
  /\ pub[j] = "publishing"
  /\ pub' = [pub EXCEPT ![j] = "refusing"]
  /\ \/ UNCHANGED queue
     \/ /\ "ambiguous_publish" \in Faults
        /\ queue' = [queue EXCEPT ![j] = @ + 1]
  /\ UNCHANGED <<store, worker, abandoned, bounds>>

\* The handler marks its own stale copy failed and commits: an UPDATE by key,
\* whatever the row says by now.  A row that is gone raises StaleDataError.
RefuseJob(j) ==
  /\ pub[j] = "refusing"
  /\ RowFree(j)
  /\ jobs' = IF jobs[j] = NoRow THEN jobs
             ELSE [jobs EXCEPT ![j] = [@ EXCEPT !.status = "failed", !.error = "queue"]]
  /\ pub' = [pub EXCEPT ![j] = "answered"]
  /\ UNCHANGED <<incidents, deleting, analyses, queue, worker, abandoned, bounds>>

\* The request returns its response, and the response takes the tasks along.
Respond(r) ==
  /\ Open(r)
  /\ \E j \in CallsOf(r) : pub[j] = "returned"
  /\ pub' = [j \in Jobs |-> IF request[j] = r /\ pub[j] = "returned" THEN "answered" ELSE pub[j]]
  /\ queue' = [j \in Jobs |-> IF request[j] = r /\ pub[j] = "returned" /\ ~celery
                               THEN queue[j] + 1 ELSE queue[j]]
  /\ UNCHANGED <<store, worker, abandoned, bounds>>

\* A call raises: the answer to its COMMIT is lost; failed cannot be written; or
\* a later call finds its incident deleted or no database.  Without Celery the
\* tasks of the earlier calls are dropped with the response they were added to.
HandlerRaises(r) ==
  /\ \/ "ambiguous_commit" \in Faults /\ \E j \in CallsOf(r) : pub[j] = "publishing"
     \/ "database_outage" \in Faults /\ \E j \in CallsOf(r) : pub[j] = "refusing"
     \/ /\ Open(r)
        /\ \E j \in CallsOf(r) :
             /\ pub[j] = "idle"
             /\ target[j] \notin incidents \/ "database_outage" \in Faults
  /\ pub' = [j \in Jobs |-> IF request[j] = r /\ pub[j] # "idle" THEN "answered" ELSE pub[j]]
  /\ abandoned' = abandoned \cup {j \in CallsOf(r) : Held(j)}
  /\ UNCHANGED <<store, queue, worker, bounds>>

\* The API process dies between the commit and the publication.
CrashApi(j) ==
  /\ "api_crash" \in Faults
  /\ celery
  /\ pub[j] \in {"publishing", "refusing"}
  /\ pub' = [pub EXCEPT ![j] = "answered"]
  /\ abandoned' = abandoned \cup {j}
  /\ UNCHANGED <<store, queue, worker, bounds>>

\* Without Celery the tasks live in the API process and die with it.
CrashProcess ==
  /\ "api_crash" \in Faults
  /\ ~celery
  /\ crashes < MaxCrashes
  /\ crashes' = crashes + 1
  /\ deleting' = {}
  /\ pub' = [j \in Jobs |-> IF pub[j] = "idle" THEN "idle" ELSE "answered"]
  /\ queue' = [j \in Jobs |-> 0]
  /\ pc' = [w \in Workers |-> "idle"]
  /\ msg' = [w \in Workers |-> NoJob]
  /\ draft' = [w \in Workers |-> NoRow]
  /\ owned' = [w \in Workers |-> FALSE]
  /\ abandoned' = Jobs
  /\ UNCHANGED <<incidents, jobs, analyses, given, redeliveries>>

-----------------------------------------------------------------------------
(* execute_analysis_job, one action per transaction step.                  *)

\* The background tasks of one response run one after the other.
Waits(j) == ~celery /\ \E v \in Workers : pc[v] # "idle" /\ request[msg[v]] = request[j]

Receive(w) ==
  /\ pc[w] = "idle"
  /\ \E j \in Jobs : /\ queue[j] > 0 /\ ~Waits(j)
                     /\ queue' = [queue EXCEPT ![j] = @ - 1]
                     /\ msg' = [msg EXCEPT ![w] = j]
  /\ pc' = [pc EXCEPT ![w] = "received"]
  /\ owned' = [owned EXCEPT ![w] = TRUE]
  /\ UNCHANGED <<store, pub, draft, abandoned, bounds>>

\* Mutant: a succeeded job is executed again.
HasWork_Again(j) == jobs[j] # NoRow

HasWork(j) == jobs[j] # NoRow /\ jobs[j].status # "succeeded"

\* Mutant: running is committed before the analysis starts.
StartJob_CommitsRunning(w) ==
  /\ pc[w] = "received"
  /\ RowFree(msg[w])
  /\ HasWork(msg[w])
  /\ draft' = [draft EXCEPT ![w] = [jobs[msg[w]] EXCEPT !.status = "running"]]
  /\ jobs' = [jobs EXCEPT ![msg[w]].status = "running"]
  /\ pc' = [pc EXCEPT ![w] = "analysing"]
  /\ UNCHANGED <<incidents, deleting, analyses, pub, queue, msg, owned, abandoned, bounds>>

\* SELECT ... FOR UPDATE finds work to do: running is set in the draft only.
StartJob(w) ==
  /\ pc[w] = "received"
  /\ RowFree(msg[w])
  /\ HasWork(msg[w])
  /\ draft' = [draft EXCEPT ![w] = [jobs[msg[w]] EXCEPT !.status = "running"]]
  /\ pc' = [pc EXCEPT ![w] = "analysing"]
  /\ UNCHANGED <<store, pub, queue, msg, owned, abandoned, bounds>>

\* ... or the job is gone or already succeeded: return without doing anything.
SkipJob(w) ==
  /\ pc[w] = "received"
  /\ RowFree(msg[w])
  /\ ~HasWork(msg[w])
  /\ pc' = [pc EXCEPT ![w] = "finished"]
  /\ UNCHANGED <<store, pub, queue, msg, draft, owned, abandoned, bounds>>

\* analyze_incident has its context and the model's answer; the next query
\* autoflushes the INSERT of the analysis and its timeline event.
ModelAnswers(w) ==
  /\ pc[w] = "analysing"
  /\ pc' = [pc EXCEPT ![w] = "storing"]
  /\ UNCHANGED <<store, pub, queue, msg, draft, owned, abandoned, bounds>>

\* The INSERT waits for a deletion of the incident that is under way.
StoreAnalysis(w) ==
  /\ pc[w] = "storing"
  /\ draft[w].incident \notin deleting
  /\ pc' = [pc EXCEPT ![w] = "stored"]
  /\ UNCHANGED <<store, pub, queue, msg, draft, owned, abandoned, bounds>>

\* succeeded, the result and the analysis become visible in one commit.  When
\* the connection breaks on COMMIT, the worker takes the commit for a failure.
CommitResult(w) ==
  /\ pc[w] = "stored"
  /\ jobs' = [jobs EXCEPT ![msg[w]] =
                [draft[w] EXCEPT !.status = "succeeded", !.result = TRUE]]
  /\ analyses' = [analyses EXCEPT ![msg[w]] = @ + 1]
  /\ draft' = [draft EXCEPT ![w] = NoRow]
  /\ \/ pc' = [pc EXCEPT ![w] = "finished"]
     \/ "ambiguous_commit" \in Faults /\ pc' = [pc EXCEPT ![w] = "failing"]
  /\ UNCHANGED <<incidents, deleting, pub, queue, msg, owned, abandoned, bounds>>

\* Anything raises before the commit: the session closes, which rolls back and
\* releases the row lock before the except block runs.  The SELECT ... FOR
\* UPDATE itself may raise, on a broken connection.
Raise(w) ==
  /\ \/ Locked(w)
     \/ "lock_error" \in Faults /\ pc[w] = "received"
  /\ pc' = [pc EXCEPT ![w] = "failing"]
  /\ draft' = [draft EXCEPT ![w] = NoRow]
  /\ UNCHANGED <<store, pub, queue, msg, owned, abandoned, bounds>>

\* except block: session.get reads the committed row, without a lock.
ReadJob(w) ==
  /\ pc[w] = "failing"
  /\ draft' = [draft EXCEPT ![w] = jobs[msg[w]]]
  /\ pc' = [pc EXCEPT ![w] = IF jobs[msg[w]] = NoRow THEN "finished" ELSE "writing"]
  /\ UNCHANGED <<store, pub, queue, msg, owned, abandoned, bounds>>

\* Mutant: a failure wipes the stored result.
MarkFailed_Wipes(row, copy) ==
  [row EXCEPT !.status = "failed", !.error = "analysis", !.result = FALSE]

\* The ORM writes the columns that differ from what was read: the status stays
\* as it is now when the copy already said failed.
MarkFailed(row, copy) ==
  [row EXCEPT !.status = IF copy.status = "failed" THEN @ ELSE "failed",
              !.error = IF copy.error = "analysis" THEN @ ELSE "analysis"]

\* The UPDATE waits for a lock on the row.
WriteFailed(w) ==
  /\ pc[w] = "writing"
  /\ jobs[msg[w]] # NoRow
  /\ RowFree(msg[w])
  /\ jobs' = [jobs EXCEPT ![msg[w]] = MarkFailed(@, draft[w])]
  /\ pc' = [pc EXCEPT ![w] = "finished"]
  /\ draft' = [draft EXCEPT ![w] = NoRow]
  /\ UNCHANGED <<incidents, deleting, analyses, pub, queue, msg, owned, abandoned, bounds>>

\* The tasks of w's response that have not started: they run only if w's task
\* does not raise.
Behind(w) == {j \in Jobs : ~celery /\ queue[j] > 0 /\ request[j] = request[msg[w]]}

\* The UPDATE finds no row any more: StaleDataError leaves the task.
WriteRaises(w) ==
  /\ pc[w] = "writing"
  /\ jobs[msg[w]] = NoRow
  /\ pc' = [pc EXCEPT ![w] = "finished"]
  /\ draft' = [draft EXCEPT ![w] = NoRow]
  /\ queue' = [j \in Jobs |-> IF j \in Behind(w) THEN 0 ELSE queue[j]]
  /\ abandoned' = abandoned \cup Behind(w)
  /\ UNCHANGED <<store, pub, msg, owned, bounds>>

-----------------------------------------------------------------------------
(* The broker's side of a delivery.                                        *)

Release(w) ==
  /\ pc' = [pc EXCEPT ![w] = "idle"]
  /\ msg' = [msg EXCEPT ![w] = NoJob]
  /\ draft' = [draft EXCEPT ![w] = NoRow]
  /\ owned' = [owned EXCEPT ![w] = FALSE]

\* task_acks_late: acknowledged when the task function is over.
Ack(w) ==
  /\ pc[w] = "finished"
  /\ Release(w)
  /\ UNCHANGED <<store, pub, queue, abandoned, bounds>>

\* A task that ends in an exception is acknowledged too: a time limit strikes
\* anywhere, and an unreachable database makes the except block raise.
Abandon(w) ==
  /\ \/ "time_limit" \in Faults /\ celery /\ pc[w] # "idle"
     \/ "database_outage" \in Faults /\ pc[w] \in {"failing", "writing"}
  /\ Release(w)
  /\ queue' = [j \in Jobs |-> IF j \in Behind(w) THEN 0 ELSE queue[j]]
  /\ abandoned' = abandoned \cup Behind(w) \cup {msg[w]}
  /\ UNCHANGED <<store, pub, bounds>>

\* Mutant: messages are acknowledged when they are received.
Requeue_EarlyAck(w) == w \in Workers /\ queue' = queue

\* The message goes back to the broker unless it went back already.
Requeue(w) == queue' = IF owned[w] THEN [queue EXCEPT ![msg[w]] = @ + 1] ELSE queue

\* task_reject_on_worker_lost: the worker process dies.
CrashWorker(w) ==
  /\ celery
  /\ pc[w] # "idle"
  /\ crashes < MaxCrashes
  /\ crashes' = crashes + 1
  /\ Requeue(w)
  /\ Release(w)
  /\ UNCHANGED <<store, pub, abandoned, given, redeliveries>>

\* The worker loses its broker connection: the broker delivers the message
\* again while the execution that was started goes on.
Redeliver(w) ==
  /\ celery
  /\ owned[w]
  /\ redeliveries < MaxRedeliveries
  /\ redeliveries' = redeliveries + 1
  /\ Requeue(w)
  /\ owned' = [owned EXCEPT ![w] = FALSE]
  /\ UNCHANGED <<store, pub, pc, msg, draft, abandoned, given, crashes>>

-----------------------------------------------------------------------------
(* delete_incident: the row first, then the cascade to its jobs.           *)

\* Mutant: the foreign key of jobs lacks ON DELETE CASCADE.
JobsOf_NoCascade(i) == {j \in Jobs : i = NoRow}

JobsOf(i) == {j \in Jobs : jobs[j] # NoRow /\ jobs[j].incident = i}

\* DELETE FROM incidents waits for the share locks of stored analyses.
DeleteRow(i) ==
  /\ i \in incidents \ deleting
  /\ \A w \in Workers : KeyShared(w) => draft[w].incident # i
  /\ deleting' = deleting \cup {i}
  /\ UNCHANGED <<incidents, jobs, analyses, pub, queue, worker, abandoned, bounds>>

\* Mutant: the deletion commits and leaves its lock behind.
DeleteCascade_KeepsLock(i) ==
  /\ i \in deleting
  /\ \A j \in JobsOf(i) : RowFree(j)
  /\ incidents' = incidents \ {i}
  /\ jobs' = [j \in Jobs |-> IF j \in JobsOf(i) THEN NoRow ELSE jobs[j]]
  /\ analyses' = [j \in Jobs |-> IF j \in JobsOf(i) THEN 0 ELSE analyses[j]]
  /\ UNCHANGED <<deleting, pub, queue, worker, abandoned, bounds>>

\* ON DELETE CASCADE waits for the locks on the incident's jobs, then commits.
DeleteCascade(i) ==
  /\ i \in deleting
  /\ \A j \in JobsOf(i) : RowFree(j)
  /\ incidents' = incidents \ {i}
  /\ deleting' = deleting \ {i}
  /\ jobs' = [j \in Jobs |-> IF j \in JobsOf(i) THEN NoRow ELSE jobs[j]]
  /\ analyses' = [j \in Jobs |-> IF j \in JobsOf(i) THEN 0 ELSE analyses[j]]
  /\ UNCHANGED <<pub, queue, worker, abandoned, bounds>>

\* The worker holds the job and waits for the incident, the deletion the
\* other way round: PostgreSQL aborts one of the two.
Deadlocked(w) == pc[w] = "storing" /\ draft[w].incident \in deleting

BreakDeadlock(w) ==
  /\ Deadlocked(w)
  /\ \/ /\ deleting' = deleting \ {draft[w].incident}
        /\ UNCHANGED <<pc, draft>>
     \/ /\ pc' = [pc EXCEPT ![w] = "failing"]
        /\ draft' = [draft EXCEPT ![w] = NoRow]
        /\ UNCHANGED deleting
  /\ UNCHANGED <<incidents, jobs, analyses, pub, queue, msg, owned, abandoned, bounds>>

-----------------------------------------------------------------------------
Request(j) == \/ QueueAnalysis(j) \/ Publish(j) \/ PublishFails(j)
              \/ RefuseJob(j) \/ CrashApi(j)

Execute(w) == \/ Receive(w) \/ StartJob(w) \/ SkipJob(w) \/ ModelAnswers(w)
              \/ StoreAnalysis(w) \/ CommitResult(w) \/ Raise(w)
              \/ ReadJob(w) \/ WriteFailed(w) \/ WriteRaises(w) \/ Ack(w)

Disturb(w) == Abandon(w) \/ CrashWorker(w) \/ Redeliver(w)

Delete(i) == DeleteRow(i) \/ DeleteCascade(i)

Next == \/ \E j \in Jobs : Request(j)
        \/ \E r \in Requests : Respond(r) \/ HandlerRaises(r)
        \/ \E w \in Workers : Execute(w) \/ Disturb(w) \/ BreakDeadlock(w)
        \/ \E i \in Incidents : Delete(i)
        \/ CrashProcess

Spec == Init /\ [][Next]_vars

\* What w does by itself, and what it does once it has the row's lock.
Proceed(w) == \/ Receive(w) \/ ModelAnswers(w) \/ CommitResult(w)
              \/ ReadJob(w) \/ Ack(w) \/ BreakDeadlock(w)
GetLock(w) == \/ StartJob(w) \/ SkipJob(w) \/ StoreAnalysis(w)
              \/ WriteFailed(w) \/ WriteRaises(w)

\* An open request goes on, a worker takes messages and its task runs on, and
\* PostgreSQL breaks deadlocks and grants a row lock to the oldest waiter:
\* strong fairness where the step waits for a lock others keep taking.
\* Nothing is assumed of new requests, new deletions, failures or crashes.
Fairness ==
  /\ \A j \in Jobs : SF_vars(Publish(j) \/ PublishFails(j) \/ RefuseJob(j))
  /\ \A r \in Requests : WF_vars(Respond(r))
  /\ \A w \in Workers : WF_vars(Proceed(w)) /\ SF_vars(GetLock(w))
  /\ \A i \in Incidents : SF_vars(DeleteCascade(i))

FairSpec == Spec /\ Fairness

-----------------------------------------------------------------------------
(* Properties.                                                             *)

Exists(j) == jobs[j] # NoRow
Status(j) == IF Exists(j) THEN jobs[j].status ELSE "none"

\* "running" is never committed: no crash, rollback or redelivery leaves a job
\* that looks as if somebody worked on it (jobs.py, the comment over the lock).
NoStaleRunning == \A j \in Jobs : Status(j) # "running"

\* A job has a result exactly when its analysis row is stored, and succeeded
\* promises the result; the stale failure writes never tear these apart.
ResultBacked ==
  \A j \in Jobs : IF Exists(j)
                    THEN /\ jobs[j].result <=> analyses[j] > 0
                         /\ jobs[j].status = "succeeded" => jobs[j].result
                    ELSE analyses[j] = 0

\* Deleting an incident takes all its jobs: none is left, and none is inserted
\* or resurrected by a late UPDATE.
NoOrphans == \A j \in Jobs : Exists(j) => jobs[j].incident \in incidents

\* The analysis that is about to be committed belongs to a job that has not
\* succeeded since the worker looked, and to an incident nobody is deleting.
CommitIsSafe ==
  \A w \in Workers : pc[w] = "stored" =>
     /\ Status(msg[w]) \in {"queued", "failed"}
     /\ draft[w].incident \in incidents \ deleting

\* An analysis is stored only for a job that has not succeeded: delivering a
\* succeeded job again does nothing.
NoRepeatedAnalysis ==
  [][\A j \in Jobs : analyses'[j] > analyses[j] => Status(j) # "succeeded"]_vars

\* Nothing drops a job: there is a broker, and no API process dies, no time limit
\* strikes, the database is there and answers every COMMIT.
Durable == /\ celery
           /\ Faults \cap {"api_crash", "time_limit", "database_outage", "ambiguous_commit"} = {}

\* A queued job is always somebody's: its request still holds it, the broker or
\* the response's tasks have it, or a worker that is not done carries it.  Only
\* what abandoned records breaks the chain, and nothing does while Durable:
\* worker crashes, repeated deliveries and refused publications do not.
Carried(j) == \/ Held(j)
              \/ queue[j] > 0
              \/ \E w \in Workers : msg[w] = j /\ pc[w] # "finished"

NoStrandedJob ==
  \A j \in Jobs : Status(j) = "queued" /\ ~Carried(j) => j \in abandoned /\ ~Durable

\* A job that GET /jobs/{id} showed as succeeded stays so while it exists.
SucceededIsFinal ==
  [][\A j \in Jobs : Status(j) = "succeeded" => Status(j)' \in {"succeeded", "none"}]_vars

\* A worker always gets rid of its task and a deletion always ends, although
\* the two take the job's and the incident's locks in opposite orders.
LocksAreReleased ==
  /\ \A w \in Workers : (pc[w] # "idle") ~> (pc[w] = "idle")
  /\ \A i \in Incidents : (i \in deleting) ~> (i \notin deleting)

\* What a reader of the jobs table sees; nobody works on a stranded job.
Seen(j) == IF pub[j] = "idle" THEN "absent"
           ELSE IF ~Exists(j) THEN "gone"
           ELSE IF jobs[j].status = "queued" /\ ~Carried(j) THEN "stranded"
           ELSE jobs[j].status

Ledger == INSTANCE JobLedger WITH view <- [j \in Jobs |-> Seen(j)], durable <- Durable

\* The jobs table behaves as the ledger of JobLedger, fairness included.
ImplementsLedger == Ledger!FairSpec

-----------------------------------------------------------------------------
(* The inductive invariant behind the safety properties.                   *)

\* A worker that is not idle was handed a job, and has a copy of its row
\* while it works on it.
Handed ==
  \A w \in Workers : /\ pc[w] = "idle" <=> msg[w] = NoJob
                     /\ owned[w] => pc[w] # "idle"
                     /\ Locked(w) \/ pc[w] = "writing" => draft[w] # NoRow

\* While the job's row is locked, the copy differs from it only by "running".
Drafted ==
  \A w \in Workers : Locked(w) =>
     /\ HasWork(msg[w])
     /\ draft[w] = [jobs[msg[w]] EXCEPT !.status = "running"]

Exclusive ==
  \A v, w \in Workers : Locked(v) /\ Locked(w) /\ msg[v] = msg[w] => v = w

\* The share lock of a stored analysis keeps deletions away.
Shielded == \A w \in Workers : KeyShared(w) => draft[w].incident \notin deleting

\* Before its request there is neither a row nor a message.
Unborn == \A j \in Jobs : pub[j] = "idle" =>
             /\ jobs[j] = NoRow /\ queue[j] = 0
             /\ \A w \in Workers : msg[w] # j

\* A job read as failed is not queued when the failure is written.
NeverRequeued ==
  \A w \in Workers : pc[w] = "writing" /\ draft[w].status = "failed"
                       => Status(msg[w]) # "queued"

\* A job whose task is over is not queued.
Worked == \A w \in Workers : pc[w] = "finished" => Status(msg[w]) # "queued"

\* Who carries a queued job in the broker's eyes: unlike Carried, a worker
\* whose message the broker took back does not count.
Backed(j) == \/ Held(j)
             \/ queue[j] > 0
             \/ \E w \in Workers : msg[w] = j /\ owned[w] /\ pc[w] # "finished"

Chain == \A j \in Jobs : Status(j) = "queued" => Backed(j) \/ j \in abandoned

\* Only these faults and the loss of background tasks drop a job.
Kept == Durable => abandoned = {}

IInv == /\ TypeOK /\ Handed
        /\ Drafted /\ Exclusive /\ Shielded /\ Unborn
        /\ NoStaleRunning /\ ResultBacked /\ NoOrphans
        /\ NeverRequeued /\ Worked /\ Chain /\ Kept

=============================================================================
