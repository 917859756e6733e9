------------------------- MODULE AnalysisJobsProofs -------------------------
(***************************************************************************)
(* The safety of AnalysisJobs for any number of jobs, workers, incidents,  *)
(* crashes and redeliveries and any set of faults, and that its steps are  *)
(* those of JobLedger when nothing is executed twice at a time.  IInv is   *)
(* inductive: one lemma per group of its conjuncts.                        *)
(***************************************************************************)
EXTENDS AnalysisJobs, TLAPS

USE DEF store, worker, given, bounds, vars

-----------------------------------------------------------------------------
(* Rows.                                                                   *)

\* Every write to a job row leaves a job row.
LEMMA RowUpdates ==
  ASSUME NEW row \in JobRow, NEW copy \in JobRow
  PROVE  /\ [row EXCEPT !.status = "failed", !.error = "queue"] \in JobRow
         /\ [row EXCEPT !.status = "running"] \in JobRow
         /\ [row EXCEPT !.status = "succeeded", !.result = TRUE] \in JobRow
         /\ MarkFailed(row, copy) \in JobRow
BY DEF JobRow, MarkFailed

\* What the writes change and what they keep.
LEMMA RowFields ==
  ASSUME NEW row \in JobRow, NEW copy \in JobRow
  PROVE  LET refused == [row EXCEPT !.status = "failed", !.error = "queue"]
             done    == [row EXCEPT !.status = "succeeded", !.result = TRUE]
             marked  == MarkFailed(row, copy)
         IN  /\ refused.status = "failed" /\ refused.result = row.result
             /\ done.result = TRUE /\ done.incident = row.incident
             /\ marked.result = row.result
             /\ marked.status \in {row.status, "failed"}
             /\ marked.status = "queued" => copy.status = "failed"
BY DEF JobRow, MarkFailed

\* Every step keeps every variable in its type and a job in busy hands.
LEMMA TypeStep == TypeOK /\ Handed /\ [Next]_vars => TypeOK' /\ Handed'
<1> SUFFICES ASSUME TypeOK, Handed, [Next]_vars PROVE TypeOK' /\ Handed'
  OBVIOUS
<1> USE JobsAssumption, NoRowAssumption DEF TypeOK, Handed, PcStates, Locked,
    Locking
<1>1. CASE UNCHANGED vars
  BY <1>1
<1>2. ASSUME NEW j \in Jobs, Request(j) PROVE TypeOK' /\ Handed'
  <2>1. CASE QueueAnalysis(j) BY <2>1 DEF QueueAnalysis, JobRow
  <2>2. CASE Publish(j) BY <2>2 DEF Publish
  <2>3. CASE PublishFails(j) BY <2>3 DEF PublishFails
  <2>4. CASE RefuseJob(j)
    <3>1. jobs[j] # NoRow =>
            [jobs[j] EXCEPT !.status = "failed", !.error = "queue"] \in JobRow
      BY RowUpdates
    <3>2. jobs' \in [Jobs -> JobRow \cup {NoRow}]
      BY <2>4, <3>1 DEF RefuseJob
    <3> QED BY <2>4, <3>2 DEF RefuseJob
  <2>5. CASE CrashApi(j) BY <2>5 DEF CrashApi
  <2> QED BY <1>2, <2>1, <2>2, <2>3, <2>4, <2>5 DEF Request
<1>3. ASSUME NEW w \in Workers, Execute(w) PROVE TypeOK' /\ Handed'
  <2>1. CASE Receive(w) BY <2>1 DEF Receive
  <2>2. CASE StartJob(w)
    <3>1. jobs[msg[w]] \in JobRow
      BY <2>2 DEF StartJob, HasWork
    <3>2. [jobs[msg[w]] EXCEPT !.status = "running"] \in JobRow
      BY <3>1, RowUpdates
    <3> QED BY <2>2, <3>2 DEF StartJob
  <2>3. CASE SkipJob(w) BY <2>3 DEF SkipJob
  <2>4. CASE ModelAnswers(w) BY <2>4 DEF ModelAnswers
  <2>5. CASE StoreAnalysis(w) BY <2>5 DEF StoreAnalysis
  <2>6. CASE CommitResult(w)
    <3>1. [draft[w] EXCEPT !.status = "succeeded", !.result = TRUE] \in JobRow
      BY <2>6, RowUpdates DEF CommitResult, Locked, Locking
    <3>2. msg[w] \in Jobs BY <2>6 DEF CommitResult
    <3>3. /\ jobs' \in [Jobs -> JobRow \cup {NoRow}]
          /\ analyses' \in [Jobs -> Nat]
      BY <2>6, <3>1, <3>2 DEF CommitResult
    <3> QED BY <2>6, <3>3 DEF CommitResult
  <2>7. CASE Raise(w) BY <2>7 DEF Raise, Locked, Locking
  <2>8. CASE ReadJob(w) BY <2>8 DEF ReadJob
  <2>9. CASE WriteFailed(w)
    <3>1. jobs[msg[w]] # NoRow => MarkFailed(jobs[msg[w]], draft[w]) \in JobRow
      BY <2>9, RowUpdates DEF WriteFailed
    <3>2. jobs' \in [Jobs -> JobRow \cup {NoRow}]
      BY <2>9, <3>1 DEF WriteFailed
    <3> QED BY <2>9, <3>2 DEF WriteFailed
  <2>10. CASE Ack(w) BY <2>10 DEF Ack, Release
  <2>11. CASE WriteRaises(w) BY <2>11 DEF WriteRaises, Behind
  <2> QED BY <1>3, <2>1, <2>2, <2>3, <2>4, <2>5, <2>6, <2>7, <2>8, <2>9, <2>10,
         <2>11 DEF Execute
<1>4. ASSUME NEW w \in Workers, Disturb(w) PROVE TypeOK' /\ Handed'
  <2>1. CASE Abandon(w) BY <2>1 DEF Abandon, Release, Behind
  <2>2. CASE CrashWorker(w) BY <2>2 DEF CrashWorker, Release, Requeue
  <2>3. CASE Redeliver(w)
    <3>1. queue' = [queue EXCEPT ![msg[w]] = @ + 1]
      BY <2>3 DEF Redeliver, Requeue
    <3>2. queue' \in [Jobs -> Nat]
      BY <2>3, <3>1 DEF Redeliver
    <3> QED BY <2>3, <3>2 DEF Redeliver
  <2> QED BY <1>4, <2>1, <2>2, <2>3 DEF Disturb
<1>5. ASSUME NEW w \in Workers, BreakDeadlock(w) PROVE TypeOK' /\ Handed'
  BY <1>5 DEF BreakDeadlock, Deadlocked
<1>6. ASSUME NEW i \in Incidents, Delete(i) PROVE TypeOK' /\ Handed'
  BY <1>6 DEF Delete, DeleteRow, DeleteCascade
<1>7. CASE CrashProcess
  BY <1>7 DEF CrashProcess
<1>8. ASSUME NEW r \in Requests, Respond(r) PROVE TypeOK' /\ Handed'
  BY <1>8 DEF Respond
<1>9. ASSUME NEW r \in Requests, HandlerRaises(r) PROVE TypeOK' /\ Handed'
  BY <1>9 DEF HandlerRaises, CallsOf
<1> QED BY <1>1, <1>2, <1>3, <1>4, <1>5, <1>6, <1>7, <1>8, <1>9 DEF Next

\* No step changes a row under another transaction's lock, and no row
\* has two lockers.
LEMMA LockStep == IInv /\ [Next]_vars => Drafted' /\ Exclusive'
<1> SUFFICES ASSUME IInv, [Next]_vars PROVE Drafted' /\ Exclusive'
  OBVIOUS
<1> USE JobsAssumption, NoRowAssumption DEF IInv, TypeOK, Handed, Drafted,
    Exclusive, Locked, Locking, RowFree, HasWork, Unborn, NoOrphans, JobsOf
<1>1. CASE UNCHANGED vars
  BY <1>1
<1>2. ASSUME NEW j \in Jobs, Request(j) PROVE Drafted' /\ Exclusive'
  <2>1. CASE QueueAnalysis(j) BY <2>1 DEF QueueAnalysis
  <2>2. CASE Publish(j) BY <2>2 DEF Publish
  <2>3. CASE PublishFails(j) BY <2>3 DEF PublishFails
  <2>4. CASE RefuseJob(j) BY <2>4 DEF RefuseJob
  <2>5. CASE CrashApi(j) BY <2>5 DEF CrashApi
  <2> QED BY <1>2, <2>1, <2>2, <2>3, <2>4, <2>5 DEF Request
<1>3. ASSUME NEW w \in Workers, Execute(w) PROVE Drafted' /\ Exclusive'
  <2>1. CASE Receive(w) BY <2>1 DEF Receive
  <2>2. CASE StartJob(w) BY <2>2 DEF StartJob
  <2>3. CASE SkipJob(w) BY <2>3 DEF SkipJob
  <2>4. CASE ModelAnswers(w) BY <2>4 DEF ModelAnswers
  <2>5. CASE StoreAnalysis(w) BY <2>5 DEF StoreAnalysis
  <2>6. CASE CommitResult(w) BY <2>6 DEF CommitResult
  <2>7. CASE Raise(w) BY <2>7 DEF Raise
  <2>8. CASE ReadJob(w) BY <2>8 DEF ReadJob
  <2>9. CASE WriteFailed(w) BY <2>9 DEF WriteFailed, MarkFailed
  <2>10. CASE Ack(w) BY <2>10 DEF Ack, Release
  <2>11. CASE WriteRaises(w) BY <2>11 DEF WriteRaises, Behind
  <2> QED BY <1>3, <2>1, <2>2, <2>3, <2>4, <2>5, <2>6, <2>7, <2>8, <2>9, <2>10,
         <2>11 DEF Execute
<1>4. ASSUME NEW w \in Workers, Disturb(w) PROVE Drafted' /\ Exclusive'
  <2>1. CASE Abandon(w) BY <2>1 DEF Abandon, Release, Behind
  <2>2. CASE CrashWorker(w) BY <2>2 DEF CrashWorker, Release, Requeue
  <2>3. CASE Redeliver(w) BY <2>3 DEF Redeliver, Requeue
  <2> QED BY <1>4, <2>1, <2>2, <2>3 DEF Disturb
<1>5. ASSUME NEW w \in Workers, BreakDeadlock(w) PROVE Drafted' /\ Exclusive'
  BY <1>5 DEF BreakDeadlock, Deadlocked
<1>6. ASSUME NEW i \in Incidents, Delete(i) PROVE Drafted' /\ Exclusive'
  <2>1. CASE DeleteRow(i) BY <2>1 DEF DeleteRow
  <2>2. CASE DeleteCascade(i) BY <2>2 DEF DeleteCascade
  <2> QED BY <1>6, <2>1, <2>2 DEF Delete
<1>7. CASE CrashProcess
  BY <1>7 DEF CrashProcess
<1>8. ASSUME NEW r \in Requests, Respond(r) PROVE Drafted' /\ Exclusive'
  BY <1>8 DEF Respond
<1>9. ASSUME NEW r \in Requests, HandlerRaises(r) PROVE Drafted' /\ Exclusive'
  BY <1>9 DEF HandlerRaises, CallsOf
<1> QED BY <1>1, <1>2, <1>3, <1>4, <1>5, <1>6, <1>7, <1>8, <1>9 DEF Next

\* A deletion cannot start under a stored analysis, nor the other way round.
LEMMA ShieldStep == IInv /\ [Next]_vars => Shielded'
<1> SUFFICES ASSUME IInv, [Next]_vars PROVE Shielded'
  OBVIOUS
<1> USE JobsAssumption, NoRowAssumption DEF IInv, TypeOK, Handed, Drafted,
    Exclusive, Locked, Locking, Shielded, KeyShared
<1>1. CASE UNCHANGED vars
  BY <1>1
<1>2. ASSUME NEW j \in Jobs, Request(j) PROVE Shielded'
  <2>1. CASE QueueAnalysis(j) BY <2>1 DEF QueueAnalysis
  <2>2. CASE Publish(j) BY <2>2 DEF Publish
  <2>3. CASE PublishFails(j) BY <2>3 DEF PublishFails
  <2>4. CASE RefuseJob(j) BY <2>4 DEF RefuseJob
  <2>5. CASE CrashApi(j) BY <2>5 DEF CrashApi
  <2> QED BY <1>2, <2>1, <2>2, <2>3, <2>4, <2>5 DEF Request
<1>3. ASSUME NEW w \in Workers, Execute(w) PROVE Shielded'
  <2>1. CASE Receive(w) BY <2>1 DEF Receive
  <2>2. CASE StartJob(w) BY <2>2 DEF StartJob
  <2>3. CASE SkipJob(w) BY <2>3 DEF SkipJob
  <2>4. CASE ModelAnswers(w) BY <2>4 DEF ModelAnswers
  <2>5. CASE StoreAnalysis(w) BY <2>5 DEF StoreAnalysis
  <2>6. CASE CommitResult(w) BY <2>6 DEF CommitResult
  <2>7. CASE Raise(w) BY <2>7 DEF Raise
  <2>8. CASE ReadJob(w) BY <2>8 DEF ReadJob
  <2>9. CASE WriteFailed(w) BY <2>9 DEF WriteFailed, MarkFailed
  <2>10. CASE Ack(w) BY <2>10 DEF Ack, Release
  <2>11. CASE WriteRaises(w) BY <2>11 DEF WriteRaises, Behind
  <2> QED BY <1>3, <2>1, <2>2, <2>3, <2>4, <2>5, <2>6, <2>7, <2>8, <2>9, <2>10,
         <2>11 DEF Execute
<1>4. ASSUME NEW w \in Workers, Disturb(w) PROVE Shielded'
  <2>1. CASE Abandon(w) BY <2>1 DEF Abandon, Release, Behind
  <2>2. CASE CrashWorker(w) BY <2>2 DEF CrashWorker, Release, Requeue
  <2>3. CASE Redeliver(w) BY <2>3 DEF Redeliver, Requeue
  <2> QED BY <1>4, <2>1, <2>2, <2>3 DEF Disturb
<1>5. ASSUME NEW w \in Workers, BreakDeadlock(w) PROVE Shielded'
  BY <1>5 DEF BreakDeadlock, Deadlocked
<1>6. ASSUME NEW i \in Incidents, Delete(i) PROVE Shielded'
  <2>1. CASE DeleteRow(i) BY <2>1 DEF DeleteRow
  <2>2. CASE DeleteCascade(i) BY <2>2 DEF DeleteCascade
  <2> QED BY <1>6, <2>1, <2>2 DEF Delete
<1>7. CASE CrashProcess
  BY <1>7 DEF CrashProcess
<1>8. ASSUME NEW r \in Requests, Respond(r) PROVE Shielded'
  BY <1>8 DEF Respond
<1>9. ASSUME NEW r \in Requests, HandlerRaises(r) PROVE Shielded'
  BY <1>9 DEF HandlerRaises, CallsOf
<1> QED BY <1>1, <1>2, <1>3, <1>4, <1>5, <1>6, <1>7, <1>8, <1>9 DEF Next

\* No row and no message appears before the request that makes it.
LEMMA UnbornStep == IInv /\ [Next]_vars => Unborn'
<1> SUFFICES ASSUME IInv, [Next]_vars PROVE Unborn'
  OBVIOUS
<1> USE JobsAssumption, NoRowAssumption DEF IInv, TypeOK, Handed, Drafted,
    Exclusive, Locked, Locking, Unborn, HasWork
<1>1. CASE UNCHANGED vars
  BY <1>1
<1>2. ASSUME NEW j \in Jobs, Request(j) PROVE Unborn'
  <2>1. CASE QueueAnalysis(j) BY <2>1 DEF QueueAnalysis
  <2>2. CASE Publish(j) BY <2>2 DEF Publish
  <2>3. CASE PublishFails(j) BY <2>3 DEF PublishFails
  <2>4. CASE RefuseJob(j) BY <2>4 DEF RefuseJob
  <2>5. CASE CrashApi(j) BY <2>5 DEF CrashApi
  <2> QED BY <1>2, <2>1, <2>2, <2>3, <2>4, <2>5 DEF Request
<1>3. ASSUME NEW w \in Workers, Execute(w) PROVE Unborn'
  <2>1. CASE Receive(w) BY <2>1 DEF Receive
  <2>2. CASE StartJob(w) BY <2>2 DEF StartJob
  <2>3. CASE SkipJob(w) BY <2>3 DEF SkipJob
  <2>4. CASE ModelAnswers(w) BY <2>4 DEF ModelAnswers
  <2>5. CASE StoreAnalysis(w) BY <2>5 DEF StoreAnalysis
  <2>6. CASE CommitResult(w) BY <2>6 DEF CommitResult
  <2>7. CASE Raise(w) BY <2>7 DEF Raise
  <2>8. CASE ReadJob(w) BY <2>8 DEF ReadJob
  <2>9. CASE WriteFailed(w) BY <2>9 DEF WriteFailed, MarkFailed
  <2>10. CASE Ack(w) BY <2>10 DEF Ack, Release
  <2>11. CASE WriteRaises(w) BY <2>11 DEF WriteRaises, Behind
  <2> QED BY <1>3, <2>1, <2>2, <2>3, <2>4, <2>5, <2>6, <2>7, <2>8, <2>9, <2>10,
         <2>11 DEF Execute
<1>4. ASSUME NEW w \in Workers, Disturb(w) PROVE Unborn'
  <2>1. CASE Abandon(w) BY <2>1 DEF Abandon, Release, Behind
  <2>2. CASE CrashWorker(w) BY <2>2 DEF CrashWorker, Release, Requeue
  <2>3. CASE Redeliver(w) BY <2>3 DEF Redeliver, Requeue
  <2> QED BY <1>4, <2>1, <2>2, <2>3 DEF Disturb
<1>5. ASSUME NEW w \in Workers, BreakDeadlock(w) PROVE Unborn'
  BY <1>5 DEF BreakDeadlock, Deadlocked
<1>6. ASSUME NEW i \in Incidents, Delete(i) PROVE Unborn'
  <2>1. CASE DeleteRow(i) BY <2>1 DEF DeleteRow
  <2>2. CASE DeleteCascade(i) BY <2>2 DEF DeleteCascade
  <2> QED BY <1>6, <2>1, <2>2 DEF Delete
<1>7. CASE CrashProcess
  BY <1>7 DEF CrashProcess
<1>8. ASSUME NEW r \in Requests, Respond(r) PROVE Unborn'
  BY <1>8 DEF Respond
<1>9. ASSUME NEW r \in Requests, HandlerRaises(r) PROVE Unborn'
  BY <1>9 DEF HandlerRaises, CallsOf
<1> QED BY <1>1, <1>2, <1>3, <1>4, <1>5, <1>6, <1>7, <1>8, <1>9 DEF Next

\* No step commits the status running.
LEMMA StaleStep == IInv /\ [Next]_vars => NoStaleRunning'
<1> SUFFICES ASSUME IInv, [Next]_vars PROVE NoStaleRunning'
  OBVIOUS
<1> USE JobsAssumption, NoRowAssumption DEF IInv, TypeOK, Handed, Drafted,
    Exclusive, Locked, Locking, NoStaleRunning, Status, Exists
<1>1. CASE UNCHANGED vars
  BY <1>1
<1>2. ASSUME NEW j \in Jobs, Request(j) PROVE NoStaleRunning'
  <2>1. CASE QueueAnalysis(j) BY <2>1 DEF QueueAnalysis
  <2>2. CASE Publish(j) BY <2>2 DEF Publish
  <2>3. CASE PublishFails(j) BY <2>3 DEF PublishFails
  <2>4. CASE RefuseJob(j) BY <2>4 DEF RefuseJob
  <2>5. CASE CrashApi(j) BY <2>5 DEF CrashApi
  <2> QED BY <1>2, <2>1, <2>2, <2>3, <2>4, <2>5 DEF Request
<1>3. ASSUME NEW w \in Workers, Execute(w) PROVE NoStaleRunning'
  <2>1. CASE Receive(w) BY <2>1 DEF Receive
  <2>2. CASE StartJob(w) BY <2>2 DEF StartJob
  <2>3. CASE SkipJob(w) BY <2>3 DEF SkipJob
  <2>4. CASE ModelAnswers(w) BY <2>4 DEF ModelAnswers
  <2>5. CASE StoreAnalysis(w) BY <2>5 DEF StoreAnalysis
  <2>6. CASE CommitResult(w) BY <2>6 DEF CommitResult
  <2>7. CASE Raise(w) BY <2>7 DEF Raise
  <2>8. CASE ReadJob(w) BY <2>8 DEF ReadJob
  <2>9. CASE WriteFailed(w) BY <2>9 DEF WriteFailed, MarkFailed
  <2>10. CASE Ack(w) BY <2>10 DEF Ack, Release
  <2>11. CASE WriteRaises(w) BY <2>11 DEF WriteRaises, Behind
  <2> QED BY <1>3, <2>1, <2>2, <2>3, <2>4, <2>5, <2>6, <2>7, <2>8, <2>9, <2>10,
         <2>11 DEF Execute
<1>4. ASSUME NEW w \in Workers, Disturb(w) PROVE NoStaleRunning'
  <2>1. CASE Abandon(w) BY <2>1 DEF Abandon, Release, Behind
  <2>2. CASE CrashWorker(w) BY <2>2 DEF CrashWorker, Release, Requeue
  <2>3. CASE Redeliver(w) BY <2>3 DEF Redeliver, Requeue
  <2> QED BY <1>4, <2>1, <2>2, <2>3 DEF Disturb
<1>5. ASSUME NEW w \in Workers, BreakDeadlock(w) PROVE NoStaleRunning'
  BY <1>5 DEF BreakDeadlock, Deadlocked
<1>6. ASSUME NEW i \in Incidents, Delete(i) PROVE NoStaleRunning'
  <2>1. CASE DeleteRow(i) BY <2>1 DEF DeleteRow
  <2>2. CASE DeleteCascade(i) BY <2>2 DEF DeleteCascade
  <2> QED BY <1>6, <2>1, <2>2 DEF Delete
<1>7. CASE CrashProcess
  BY <1>7 DEF CrashProcess
<1>8. ASSUME NEW r \in Requests, Respond(r) PROVE NoStaleRunning'
  BY <1>8 DEF Respond
<1>9. ASSUME NEW r \in Requests, HandlerRaises(r) PROVE NoStaleRunning'
  BY <1>9 DEF HandlerRaises, CallsOf
<1> QED BY <1>1, <1>2, <1>3, <1>4, <1>5, <1>6, <1>7, <1>8, <1>9 DEF Next

\* The result and the analysis row come and go together.
LEMMA BackedStep == IInv /\ [Next]_vars => ResultBacked'
<1> SUFFICES ASSUME IInv, [Next]_vars PROVE ResultBacked'
  OBVIOUS
<1> USE JobsAssumption, NoRowAssumption DEF IInv, TypeOK, Handed, Drafted,
    Exclusive, Locked, Locking, ResultBacked, Exists, HasWork, Unborn
<1>1. CASE UNCHANGED vars
  BY <1>1
<1>2. ASSUME NEW j \in Jobs, Request(j) PROVE ResultBacked'
  <2>1. CASE QueueAnalysis(j) BY <2>1 DEF QueueAnalysis, JobRow
  <2>2. CASE Publish(j) BY <2>2 DEF Publish
  <2>3. CASE PublishFails(j) BY <2>3 DEF PublishFails
  <2>4. CASE RefuseJob(j)
    <3>1. jobs[j] # NoRow => /\ jobs'[j].result = jobs[j].result
                             /\ jobs'[j].status = "failed"
                             /\ jobs'[j] # NoRow
      <4> DEFINE row == [jobs[j] EXCEPT !.status = "failed", !.error = "queue"]
      <4>1. jobs[j] # NoRow => /\ row \in JobRow
                               /\ row.status = "failed"
                               /\ row.result = jobs[j].result
        <5> SUFFICES ASSUME jobs[j] \in JobRow
                     PROVE  /\ row \in JobRow
                            /\ row.status = "failed"
                            /\ row.result = jobs[j].result
          OBVIOUS
        <5> QED BY RowUpdates, RowFields
      <4>2. jobs[j] # NoRow => jobs'[j] = row
        BY <2>4 DEF RefuseJob
      <4> QED BY <4>1, <4>2
    <3>2. \A k \in Jobs : k # j \/ jobs[j] = NoRow => jobs'[k] = jobs[k]
      BY <2>4 DEF RefuseJob
    <3> QED BY <2>4, <3>1, <3>2 DEF RefuseJob
  <2>5. CASE CrashApi(j) BY <2>5 DEF CrashApi
  <2> QED BY <1>2, <2>1, <2>2, <2>3, <2>4, <2>5 DEF Request
<1>3. ASSUME NEW w \in Workers, Execute(w) PROVE ResultBacked'
  <2>1. CASE Receive(w) BY <2>1 DEF Receive
  <2>2. CASE StartJob(w) BY <2>2 DEF StartJob
  <2>3. CASE SkipJob(w) BY <2>3 DEF SkipJob
  <2>4. CASE ModelAnswers(w) BY <2>4 DEF ModelAnswers
  <2>5. CASE StoreAnalysis(w) BY <2>5 DEF StoreAnalysis
  <2>6. CASE CommitResult(w)
    <3>1. msg[w] \in Jobs /\ draft[w] \in JobRow
      BY <2>6 DEF CommitResult
    <3>2. jobs'[msg[w]].result = TRUE /\ jobs'[msg[w]] # NoRow
      <4> DEFINE row == [draft[w] EXCEPT !.status = "succeeded", !.result =
          TRUE]
      <4>1. row \in JobRow /\ row.result = TRUE
        BY <3>1, RowUpdates, RowFields
      <4>2. jobs'[msg[w]] = row
        BY <2>6, <3>1 DEF CommitResult
      <4> QED BY <4>1, <4>2
    <3>3. analyses'[msg[w]] > 0
      BY <2>6, <3>1 DEF CommitResult
    <3>4. \A k \in Jobs \ {msg[w]} : jobs'[k] = jobs[k] /\ analyses'[k] =
        analyses[k]
      BY <2>6 DEF CommitResult
    <3> QED BY <3>2, <3>3, <3>4
  <2>7. CASE Raise(w) BY <2>7 DEF Raise
  <2>8. CASE ReadJob(w) BY <2>8 DEF ReadJob
  <2>9. CASE WriteFailed(w)
    <3>1. msg[w] \in Jobs /\ draft[w] \in JobRow
      BY <2>9 DEF WriteFailed
    <3>2. jobs[msg[w]] # NoRow =>
            /\ jobs'[msg[w]].result = jobs[msg[w]].result
            /\ jobs'[msg[w]].status \in {jobs[msg[w]].status, "failed"}
            /\ jobs'[msg[w]] # NoRow
      <4> DEFINE row == MarkFailed(jobs[msg[w]], draft[w])
      <4>1. jobs[msg[w]] # NoRow =>
              /\ row \in JobRow
              /\ row.result = jobs[msg[w]].result
              /\ row.status \in {jobs[msg[w]].status, "failed"}
        <5> SUFFICES ASSUME jobs[msg[w]] \in JobRow
                     PROVE  /\ row \in JobRow
                            /\ row.result = jobs[msg[w]].result
                            /\ row.status \in {jobs[msg[w]].status, "failed"}
          BY <3>1
        <5> QED BY <3>1, RowUpdates, RowFields
      <4>2. jobs[msg[w]] # NoRow => jobs'[msg[w]] = row
        BY <2>9, <3>1 DEF WriteFailed
      <4> QED BY <4>1, <4>2
    <3>3. \A k \in Jobs : k # msg[w] \/ jobs[k] = NoRow => jobs'[k] = jobs[k]
      BY <2>9 DEF WriteFailed
    <3> QED BY <2>9, <3>1, <3>2, <3>3 DEF WriteFailed
  <2>10. CASE Ack(w) BY <2>10 DEF Ack, Release
  <2>11. CASE WriteRaises(w) BY <2>11 DEF WriteRaises, Behind
  <2> QED BY <1>3, <2>1, <2>2, <2>3, <2>4, <2>5, <2>6, <2>7, <2>8, <2>9, <2>10,
         <2>11 DEF Execute
<1>4. ASSUME NEW w \in Workers, Disturb(w) PROVE ResultBacked'
  <2>1. CASE Abandon(w) BY <2>1 DEF Abandon, Release, Behind
  <2>2. CASE CrashWorker(w) BY <2>2 DEF CrashWorker, Release, Requeue
  <2>3. CASE Redeliver(w) BY <2>3 DEF Redeliver, Requeue
  <2> QED BY <1>4, <2>1, <2>2, <2>3 DEF Disturb
<1>5. ASSUME NEW w \in Workers, BreakDeadlock(w) PROVE ResultBacked'
  BY <1>5 DEF BreakDeadlock, Deadlocked
<1>6. ASSUME NEW i \in Incidents, Delete(i) PROVE ResultBacked'
  <2>1. CASE DeleteRow(i) BY <2>1 DEF DeleteRow
  <2>2. CASE DeleteCascade(i) BY <2>2 DEF DeleteCascade
  <2> QED BY <1>6, <2>1, <2>2 DEF Delete
<1>7. CASE CrashProcess
  BY <1>7 DEF CrashProcess
<1>8. ASSUME NEW r \in Requests, Respond(r) PROVE ResultBacked'
  BY <1>8 DEF Respond
<1>9. ASSUME NEW r \in Requests, HandlerRaises(r) PROVE ResultBacked'
  BY <1>9 DEF HandlerRaises, CallsOf
<1> QED BY <1>1, <1>2, <1>3, <1>4, <1>5, <1>6, <1>7, <1>8, <1>9 DEF Next

\* No step leaves or writes a job of a deleted incident.
LEMMA OrphanStep == IInv /\ [Next]_vars => NoOrphans'
<1> SUFFICES ASSUME IInv, [Next]_vars PROVE NoOrphans'
  OBVIOUS
<1> USE JobsAssumption, NoRowAssumption DEF IInv, TypeOK, Handed, Drafted,
    Exclusive, Locked, Locking, NoOrphans, Exists, JobsOf, Shielded, KeyShared
<1>1. CASE UNCHANGED vars
  BY <1>1
<1>2. ASSUME NEW j \in Jobs, Request(j) PROVE NoOrphans'
  <2>1. CASE QueueAnalysis(j) BY <2>1 DEF QueueAnalysis
  <2>2. CASE Publish(j) BY <2>2 DEF Publish
  <2>3. CASE PublishFails(j) BY <2>3 DEF PublishFails
  <2>4. CASE RefuseJob(j) BY <2>4 DEF RefuseJob
  <2>5. CASE CrashApi(j) BY <2>5 DEF CrashApi
  <2> QED BY <1>2, <2>1, <2>2, <2>3, <2>4, <2>5 DEF Request
<1>3. ASSUME NEW w \in Workers, Execute(w) PROVE NoOrphans'
  <2>1. CASE Receive(w) BY <2>1 DEF Receive
  <2>2. CASE StartJob(w) BY <2>2 DEF StartJob
  <2>3. CASE SkipJob(w) BY <2>3 DEF SkipJob
  <2>4. CASE ModelAnswers(w) BY <2>4 DEF ModelAnswers
  <2>5. CASE StoreAnalysis(w) BY <2>5 DEF StoreAnalysis
  <2>6. CASE CommitResult(w)
    <3>1. msg[w] \in Jobs /\ jobs[msg[w]] \in JobRow
      BY <2>6 DEF CommitResult, HasWork
    <3>2. draft[w] \in JobRow /\ draft[w].incident = jobs[msg[w]].incident
      BY <2>6, <3>1 DEF CommitResult, JobRow
    <3>3. jobs'[msg[w]].incident = jobs[msg[w]].incident
      BY <2>6, <3>1, <3>2, RowFields DEF CommitResult
    <3>4. \A k \in Jobs \ {msg[w]} : jobs'[k] = jobs[k]
      BY <2>6 DEF CommitResult
    <3> QED BY <2>6, <3>1, <3>3, <3>4 DEF CommitResult, HasWork
  <2>7. CASE Raise(w) BY <2>7 DEF Raise
  <2>8. CASE ReadJob(w) BY <2>8 DEF ReadJob
  <2>9. CASE WriteFailed(w) BY <2>9 DEF WriteFailed, MarkFailed
  <2>10. CASE Ack(w) BY <2>10 DEF Ack, Release
  <2>11. CASE WriteRaises(w) BY <2>11 DEF WriteRaises, Behind
  <2> QED BY <1>3, <2>1, <2>2, <2>3, <2>4, <2>5, <2>6, <2>7, <2>8, <2>9, <2>10,
         <2>11 DEF Execute
<1>4. ASSUME NEW w \in Workers, Disturb(w) PROVE NoOrphans'
  <2>1. CASE Abandon(w) BY <2>1 DEF Abandon, Release, Behind
  <2>2. CASE CrashWorker(w) BY <2>2 DEF CrashWorker, Release, Requeue
  <2>3. CASE Redeliver(w) BY <2>3 DEF Redeliver, Requeue
  <2> QED BY <1>4, <2>1, <2>2, <2>3 DEF Disturb
<1>5. ASSUME NEW w \in Workers, BreakDeadlock(w) PROVE NoOrphans'
  BY <1>5 DEF BreakDeadlock, Deadlocked
<1>6. ASSUME NEW i \in Incidents, Delete(i) PROVE NoOrphans'
  <2>1. CASE DeleteRow(i) BY <2>1 DEF DeleteRow
  <2>2. CASE DeleteCascade(i) BY <2>2 DEF DeleteCascade
  <2> QED BY <1>6, <2>1, <2>2 DEF Delete
<1>7. CASE CrashProcess
  BY <1>7 DEF CrashProcess
<1>8. ASSUME NEW r \in Requests, Respond(r) PROVE NoOrphans'
  BY <1>8 DEF Respond
<1>9. ASSUME NEW r \in Requests, HandlerRaises(r) PROVE NoOrphans'
  BY <1>9 DEF HandlerRaises, CallsOf
<1> QED BY <1>1, <1>2, <1>3, <1>4, <1>5, <1>6, <1>7, <1>8, <1>9 DEF Next

\* A row read as failed never becomes queued before the write.
LEMMA RequeueStep == IInv /\ [Next]_vars => NeverRequeued'
<1> SUFFICES ASSUME IInv, [Next]_vars PROVE NeverRequeued'
  OBVIOUS
<1> USE JobsAssumption, NoRowAssumption DEF IInv, TypeOK, Handed, Drafted,
    Exclusive, Locked, Locking, NeverRequeued, Status, Exists, Unborn, JobsOf
<1>1. CASE UNCHANGED vars
  BY <1>1
<1>2. ASSUME NEW j \in Jobs, Request(j) PROVE NeverRequeued'
  <2>1. CASE QueueAnalysis(j) BY <2>1 DEF QueueAnalysis
  <2>2. CASE Publish(j) BY <2>2 DEF Publish
  <2>3. CASE PublishFails(j) BY <2>3 DEF PublishFails
  <2>4. CASE RefuseJob(j) BY <2>4 DEF RefuseJob
  <2>5. CASE CrashApi(j) BY <2>5 DEF CrashApi
  <2> QED BY <1>2, <2>1, <2>2, <2>3, <2>4, <2>5 DEF Request
<1>3. ASSUME NEW w \in Workers, Execute(w) PROVE NeverRequeued'
  <2>1. CASE Receive(w) BY <2>1 DEF Receive
  <2>2. CASE StartJob(w) BY <2>2 DEF StartJob
  <2>3. CASE SkipJob(w) BY <2>3 DEF SkipJob
  <2>4. CASE ModelAnswers(w) BY <2>4 DEF ModelAnswers
  <2>5. CASE StoreAnalysis(w) BY <2>5 DEF StoreAnalysis
  <2>6. CASE CommitResult(w) BY <2>6 DEF CommitResult
  <2>7. CASE Raise(w) BY <2>7 DEF Raise
  <2>8. CASE ReadJob(w) BY <2>8 DEF ReadJob
  <2>9. CASE WriteFailed(w)
    <3>1. msg[w] \in Jobs /\ draft[w] \in JobRow
      BY <2>9 DEF WriteFailed
    <3>2. jobs[msg[w]] # NoRow => jobs'[msg[w]].status # "queued"
      BY <2>9, <3>1, RowFields DEF WriteFailed
    <3>3. \A k \in Jobs : k # msg[w] \/ jobs[k] = NoRow => jobs'[k] = jobs[k]
      BY <2>9 DEF WriteFailed
    <3>4. \A v \in Workers : pc'[v] = "writing" =>
            v # w /\ pc[v] = "writing" /\ draft'[v] = draft[v] /\ msg'[v] = msg[v]
      BY <2>9 DEF WriteFailed
    <3> QED BY <3>1, <3>2, <3>3, <3>4
  <2>10. CASE Ack(w) BY <2>10 DEF Ack, Release
  <2>11. CASE WriteRaises(w) BY <2>11 DEF WriteRaises, Behind
  <2> QED BY <1>3, <2>1, <2>2, <2>3, <2>4, <2>5, <2>6, <2>7, <2>8, <2>9, <2>10,
         <2>11 DEF Execute
<1>4. ASSUME NEW w \in Workers, Disturb(w) PROVE NeverRequeued'
  <2>1. CASE Abandon(w) BY <2>1 DEF Abandon, Release, Behind
  <2>2. CASE CrashWorker(w) BY <2>2 DEF CrashWorker, Release, Requeue
  <2>3. CASE Redeliver(w) BY <2>3 DEF Redeliver, Requeue
  <2> QED BY <1>4, <2>1, <2>2, <2>3 DEF Disturb
<1>5. ASSUME NEW w \in Workers, BreakDeadlock(w) PROVE NeverRequeued'
  BY <1>5 DEF BreakDeadlock, Deadlocked
<1>6. ASSUME NEW i \in Incidents, Delete(i) PROVE NeverRequeued'
  <2>1. CASE DeleteRow(i) BY <2>1 DEF DeleteRow
  <2>2. CASE DeleteCascade(i) BY <2>2 DEF DeleteCascade
  <2> QED BY <1>6, <2>1, <2>2 DEF Delete
<1>7. CASE CrashProcess
  BY <1>7 DEF CrashProcess
<1>8. ASSUME NEW r \in Requests, Respond(r) PROVE NeverRequeued'
  BY <1>8 DEF Respond
<1>9. ASSUME NEW r \in Requests, HandlerRaises(r) PROVE NeverRequeued'
  BY <1>9 DEF HandlerRaises, CallsOf
<1> QED BY <1>1, <1>2, <1>3, <1>4, <1>5, <1>6, <1>7, <1>8, <1>9 DEF Next

\* Only the recorded faults break the chain that carries a queued job.
LEMMA ChainStep == IInv /\ [Next]_vars => Chain'
<1> SUFFICES ASSUME IInv, [Next]_vars PROVE Chain'
  OBVIOUS
<1> USE JobsAssumption, NoRowAssumption DEF IInv, TypeOK, Handed, Drafted,
    Exclusive, Locked, Locking, Chain, Backed, Held, Status, Exists, HasWork, JobsOf
<1>1. CASE UNCHANGED vars
  BY <1>1
<1>2. ASSUME NEW j \in Jobs, Request(j) PROVE Chain'
  <2>1. CASE QueueAnalysis(j) BY <2>1 DEF QueueAnalysis
  <2>2. CASE Publish(j) BY <2>2 DEF Publish
  <2>3. CASE PublishFails(j) BY <2>3 DEF PublishFails
  <2>4. CASE RefuseJob(j) BY <2>4 DEF RefuseJob
  <2>5. CASE CrashApi(j) BY <2>5 DEF CrashApi
  <2> QED BY <1>2, <2>1, <2>2, <2>3, <2>4, <2>5 DEF Request
<1>3. ASSUME NEW w \in Workers, Execute(w) PROVE Chain'
  <2>1. CASE Receive(w) BY <2>1 DEF Receive
  <2>2. CASE StartJob(w) BY <2>2 DEF StartJob
  <2>3. CASE SkipJob(w) BY <2>3 DEF SkipJob
  <2>4. CASE ModelAnswers(w) BY <2>4 DEF ModelAnswers
  <2>5. CASE StoreAnalysis(w) BY <2>5 DEF StoreAnalysis
  <2>6. CASE CommitResult(w) BY <2>6 DEF CommitResult
  <2>7. CASE Raise(w) BY <2>7 DEF Raise
  <2>8. CASE ReadJob(w) BY <2>8 DEF ReadJob
  <2>9. CASE WriteFailed(w)
    <3>1. msg[w] \in Jobs /\ draft[w] \in JobRow
      BY <2>9 DEF WriteFailed
    <3>2. jobs[msg[w]] # NoRow => jobs'[msg[w]].status # "queued"
      BY <2>9, <3>1, RowFields DEF WriteFailed, NeverRequeued
    <3>3. \A k \in Jobs : k # msg[w] \/ jobs[k] = NoRow => jobs'[k] = jobs[k]
      BY <2>9 DEF WriteFailed
    <3>4. \A v \in Workers \ {w} : pc'[v] = pc[v]
      BY <2>9 DEF WriteFailed
    <3> QED BY <2>9, <3>1, <3>2, <3>3, <3>4 DEF WriteFailed
  <2>10. CASE Ack(w) BY <2>10 DEF Ack, Release
  <2>11. CASE WriteRaises(w) BY <2>11 DEF WriteRaises, Behind
  <2> QED BY <1>3, <2>1, <2>2, <2>3, <2>4, <2>5, <2>6, <2>7, <2>8, <2>9, <2>10,
         <2>11 DEF Execute
<1>4. ASSUME NEW w \in Workers, Disturb(w) PROVE Chain'
  <2>1. CASE Abandon(w) BY <2>1 DEF Abandon, Release, Behind
  <2>2. CASE CrashWorker(w) BY <2>2 DEF CrashWorker, Release, Requeue
  <2>3. CASE Redeliver(w) BY <2>3 DEF Redeliver, Requeue
  <2> QED BY <1>4, <2>1, <2>2, <2>3 DEF Disturb
<1>5. ASSUME NEW w \in Workers, BreakDeadlock(w) PROVE Chain'
  BY <1>5 DEF BreakDeadlock, Deadlocked
<1>6. ASSUME NEW i \in Incidents, Delete(i) PROVE Chain'
  <2>1. CASE DeleteRow(i) BY <2>1 DEF DeleteRow
  <2>2. CASE DeleteCascade(i) BY <2>2 DEF DeleteCascade
  <2> QED BY <1>6, <2>1, <2>2 DEF Delete
<1>7. CASE CrashProcess
  BY <1>7 DEF CrashProcess
<1>8. ASSUME NEW r \in Requests, Respond(r) PROVE Chain'
  BY <1>8 DEF Respond
<1>9. ASSUME NEW r \in Requests, HandlerRaises(r) PROVE Chain'
  BY <1>9 DEF HandlerRaises, CallsOf
<1> QED BY <1>1, <1>2, <1>3, <1>4, <1>5, <1>6, <1>7, <1>8, <1>9 DEF Next

\* A task that is over has left a job that is not queued, for good.
LEMMA WorkedStep == IInv /\ [Next]_vars => Worked'
<1> SUFFICES ASSUME IInv, [Next]_vars PROVE Worked'
  OBVIOUS
<1> USE JobsAssumption, NoRowAssumption DEF IInv, TypeOK, Handed, Drafted,
    Exclusive, Locked, Locking, Worked, Unborn, HasWork, Status, Exists, JobsOf
<1>1. CASE UNCHANGED vars
  BY <1>1
<1>2. ASSUME NEW j \in Jobs, Request(j) PROVE Worked'
  <2>1. CASE QueueAnalysis(j) BY <2>1 DEF QueueAnalysis
  <2>2. CASE Publish(j) BY <2>2 DEF Publish
  <2>3. CASE PublishFails(j) BY <2>3 DEF PublishFails
  <2>4. CASE RefuseJob(j) BY <2>4 DEF RefuseJob
  <2>5. CASE CrashApi(j) BY <2>5 DEF CrashApi
  <2> QED BY <1>2, <2>1, <2>2, <2>3, <2>4, <2>5 DEF Request
<1>3. ASSUME NEW w \in Workers, Execute(w) PROVE Worked'
  <2>1. CASE Receive(w) BY <2>1 DEF Receive
  <2>2. CASE StartJob(w) BY <2>2 DEF StartJob
  <2>3. CASE SkipJob(w) BY <2>3 DEF SkipJob
  <2>4. CASE ModelAnswers(w) BY <2>4 DEF ModelAnswers
  <2>5. CASE StoreAnalysis(w) BY <2>5 DEF StoreAnalysis
  <2>6. CASE CommitResult(w) BY <2>6 DEF CommitResult
  <2>7. CASE Raise(w) BY <2>7 DEF Raise
  <2>8. CASE ReadJob(w) BY <2>8 DEF ReadJob
  <2>9. CASE WriteFailed(w)
    <3>1. msg[w] \in Jobs /\ draft[w] \in JobRow
      BY <2>9 DEF WriteFailed
    <3>2. jobs[msg[w]] # NoRow => jobs'[msg[w]].status # "queued"
      BY <2>9, <3>1, RowFields DEF WriteFailed, NeverRequeued
    <3>3. \A k \in Jobs : k # msg[w] \/ jobs[k] = NoRow => jobs'[k] = jobs[k]
      BY <2>9 DEF WriteFailed
    <3>4. \A v \in Workers \ {w} : pc'[v] = pc[v]
      BY <2>9 DEF WriteFailed
    <3> QED BY <2>9, <3>1, <3>2, <3>3, <3>4 DEF WriteFailed
  <2>10. CASE Ack(w) BY <2>10 DEF Ack, Release
  <2>11. CASE WriteRaises(w) BY <2>11 DEF WriteRaises, Behind
  <2> QED BY <1>3, <2>1, <2>2, <2>3, <2>4, <2>5, <2>6, <2>7, <2>8, <2>9, <2>10,
         <2>11 DEF Execute
<1>4. ASSUME NEW w \in Workers, Disturb(w) PROVE Worked'
  <2>1. CASE Abandon(w) BY <2>1 DEF Abandon, Release, Behind
  <2>2. CASE CrashWorker(w) BY <2>2 DEF CrashWorker, Release, Requeue
  <2>3. CASE Redeliver(w) BY <2>3 DEF Redeliver, Requeue
  <2> QED BY <1>4, <2>1, <2>2, <2>3 DEF Disturb
<1>5. ASSUME NEW w \in Workers, BreakDeadlock(w) PROVE Worked'
  BY <1>5 DEF BreakDeadlock, Deadlocked
<1>6. ASSUME NEW i \in Incidents, Delete(i) PROVE Worked'
  <2>1. CASE DeleteRow(i) BY <2>1 DEF DeleteRow
  <2>2. CASE DeleteCascade(i) BY <2>2 DEF DeleteCascade
  <2> QED BY <1>6, <2>1, <2>2 DEF Delete
<1>7. CASE CrashProcess
  BY <1>7 DEF CrashProcess
<1>8. ASSUME NEW r \in Requests, Respond(r) PROVE Worked'
  BY <1>8 DEF Respond
<1>9. ASSUME NEW r \in Requests, HandlerRaises(r) PROVE Worked'
  BY <1>9 DEF HandlerRaises, CallsOf
<1> QED BY <1>1, <1>2, <1>3, <1>4, <1>5, <1>6, <1>7, <1>8, <1>9 DEF Next

\* The settings and the plan of the requests are given.
LEMMA GivenStep == [Next]_vars => given' = given /\ Durable' = Durable
<1>1. [Next]_vars => given' = given
  BY DEF Next, Request, Execute, Disturb, Delete, QueueAnalysis, Publish, PublishFails,
         RefuseJob, CrashApi, Respond, HandlerRaises, Receive, StartJob, SkipJob,
         ModelAnswers, StoreAnalysis, CommitResult, Raise, ReadJob, WriteFailed,
         WriteRaises, Ack, Abandon, CrashWorker, Redeliver, CrashProcess, DeleteRow,
         DeleteCascade, BreakDeadlock
<1> QED BY <1>1 DEF Durable

\* With a broker and without these faults every queued job is kept.
LEMMA KeptStep == IInv /\ [Next]_vars => Kept'
<1> SUFFICES ASSUME IInv, [Next]_vars, Durable PROVE abandoned' = {}
  BY GivenStep DEF Kept
<1>1. abandoned = {} /\ celery /\ pub \in [Jobs -> {"idle", "publishing", "refusing", "returned", "answered"}]
  BY DEF IInv, Kept, Durable, TypeOK
<1>2. ASSUME NEW j \in Jobs, CrashApi(j) PROVE FALSE
  BY <1>2 DEF CrashApi, Durable
<1>3. ASSUME NEW w \in Workers, Abandon(w) PROVE FALSE
  BY <1>3 DEF Abandon, Durable
<1>4. ASSUME NEW w \in Workers, WriteRaises(w) PROVE abandoned' = {}
  BY <1>1, <1>4 DEF WriteRaises, Behind
<1>5. ASSUME NEW r \in Requests, HandlerRaises(r) PROVE abandoned' = {}
  <2>1. Open(r)
    BY <1>5 DEF HandlerRaises, Durable
  <2>2. \A j \in CallsOf(r) : ~Held(j)
    BY <1>1, <2>1 DEF Open, Held, CallsOf
  <2> QED BY <1>1, <1>5, <2>2 DEF HandlerRaises
<1>6. ~CrashProcess
  BY <1>1 DEF CrashProcess
<1>7. CASE UNCHANGED abandoned
  BY <1>1, <1>7
<1> QED
  BY <1>2, <1>3, <1>4, <1>5, <1>6, <1>7
  DEF Next, Request, Execute, Disturb, Delete, QueueAnalysis, Publish, PublishFails,
      RefuseJob, Respond, Receive, StartJob, SkipJob, ModelAnswers, StoreAnalysis,
      CommitResult, Raise, ReadJob, WriteFailed, Ack, CrashWorker, Redeliver,
      DeleteRow, DeleteCascade, BreakDeadlock

-----------------------------------------------------------------------------
(* Theorems.                                                               *)

\* Nothing has been asked for yet.
LEMMA InitInv == Init => IInv
BY JobsAssumption, NoRowAssumption
DEF Init, IInv, TypeOK, PcStates, Handed, Drafted, Exclusive, Shielded,
    Unborn, NoStaleRunning, ResultBacked, NoOrphans, NeverRequeued, Worked, Chain,
    Kept, Locked, Locking, KeyShared, Status, Exists, EveryPlan

\* Every step preserves all of IInv.
LEMMA InvStep == IInv /\ [Next]_vars => IInv'
<1> SUFFICES ASSUME IInv, [Next]_vars PROVE IInv'
  OBVIOUS
<1>1. TypeOK' /\ Handed'
  BY TypeStep DEF IInv
<1>2. Drafted' /\ Exclusive' /\ Shielded' /\ Unborn'
  BY LockStep, ShieldStep, UnbornStep
<1>3. NoStaleRunning' /\ ResultBacked' /\ NoOrphans'
  BY StaleStep, BackedStep, OrphanStep
<1>4. NeverRequeued' /\ Worked' /\ Chain' /\ Kept'
  BY RequeueStep, WorkedStep, ChainStep, KeptStep
<1> QED BY <1>1, <1>2, <1>3, <1>4 DEF IInv

\* IInv holds in every reachable state.
THEOREM Invariance == Spec => []IInv
BY InitInv, InvStep, PTL DEF Spec

\* Every variable keeps its type.
THEOREM TypeCorrect == Spec => []TypeOK
<1>1. IInv => TypeOK BY DEF IInv
<1> QED BY <1>1, Invariance, PTL

\* No committed job row ever says running: a crash always leaves a status that
\* the next delivery can work with.
THEOREM NeverStaleRunning == Spec => []NoStaleRunning
<1>1. IInv => NoStaleRunning BY DEF IInv
<1> QED BY <1>1, Invariance, PTL

\* A job has a result exactly when its analysis row is stored.
THEOREM ResultsAreBacked == Spec => []ResultBacked
<1>1. IInv => ResultBacked BY DEF IInv
<1> QED BY <1>1, Invariance, PTL

\* No job outlives its incident, whatever workers and late writers do.
THEOREM NeverOrphaned == Spec => []NoOrphans
<1>1. IInv => NoOrphans BY DEF IInv
<1> QED BY <1>1, Invariance, PTL

\* An analysis about to be committed still belongs to an unfinished job of an
\* incident that nobody is deleting.
THEOREM CommitsAreSafe == Spec => []CommitIsSafe
<1>1. ASSUME IInv, NEW w \in Workers, pc[w] = "stored"
      PROVE  /\ Status(msg[w]) \in {"queued", "failed"}
             /\ draft[w].incident \in incidents \ deleting
  <2> USE DEF IInv, TypeOK, Handed, Drafted, Locked, Locking, HasWork
  <2>1. msg[w] \in Jobs /\ jobs[msg[w]] \in JobRow
    BY <1>1
  <2>2. Status(msg[w]) \in {"queued", "failed"}
    BY <1>1, <2>1 DEF NoStaleRunning, Status, Exists, JobRow
  <2>3. draft[w].incident = jobs[msg[w]].incident
    BY <1>1, <2>1 DEF JobRow
  <2>4. draft[w].incident \in incidents
    BY <1>1, <2>1, <2>3 DEF NoOrphans, Exists
  <2> QED BY <1>1, <2>2, <2>4 DEF Shielded, KeyShared
<1>2. IInv => CommitIsSafe
  BY <1>1 DEF CommitIsSafe
<1> QED BY <1>2, Invariance, PTL

\* What IInv says of the jobs that nobody carries.
LEMMA Stranded == IInv => NoStrandedJob
BY DEF IInv, Chain, Kept, NoStrandedJob, Backed, Carried

\* A queued job is always carried by its request, the broker or a worker, unless
\* it was dropped on record; with Celery, an API that lives, no time limit and a
\* database that is there and answers commits, none is ever dropped.
THEOREM NeverStranded == Spec => []NoStrandedJob
BY Stranded, Invariance, PTL

\* No analysis is ever stored for a job that has succeeded already.
THEOREM NeverRepeatedAnalysis == Spec => NoRepeatedAnalysis
<1> DEFINE A == \A j \in Jobs : analyses'[j] > analyses[j] => Status(j) # "succeeded"
<1>1. IInv /\ [Next]_vars => [A]_vars
  <2> SUFFICES ASSUME IInv, Next PROVE A
    OBVIOUS
  <2> USE DEF IInv, TypeOK
  <2>1. ASSUME NEW w \in Workers, CommitResult(w) PROVE A
    BY <2>1 DEF CommitResult, Drafted, Locked, Locking, HasWork, Status, Exists
  <2>2. ASSUME NEW i \in Incidents, DeleteCascade(i) PROVE A
    BY <2>2 DEF DeleteCascade
  <2>3. CASE UNCHANGED analyses
    BY <2>3
  <2> QED
    BY <2>1, <2>2, <2>3
    DEF Next, Request, Execute, Disturb, Delete, QueueAnalysis, Publish,
        PublishFails, RefuseJob, CrashApi, CrashProcess, Receive, StartJob,
        SkipJob, ModelAnswers, StoreAnalysis, Raise, ReadJob, WriteFailed,
        Ack, Abandon, CrashWorker, Redeliver, DeleteRow, BreakDeadlock,
        Respond, HandlerRaises, WriteRaises
<1> QED BY <1>1, Invariance, PTL DEF Spec, NoRepeatedAnalysis

\* Whatever fails, crashes or is delivered again: what a job has produced stays
\* linked to it while the job exists, though a late failure may change its status.
THEOREM ResultIsKept ==
  Spec => [][\A j \in Jobs : Exists(j) /\ jobs[j].result /\ Exists(j)' => jobs'[j].result]_vars
<1> DEFINE A == \A j \in Jobs : Exists(j) /\ jobs[j].result /\ Exists(j)' => jobs'[j].result
<1>1. ASSUME IInv, [Next]_vars PROVE \A j \in Jobs : Exists(j)' => analyses'[j] >= analyses[j]
  <2>0. analyses \in [Jobs -> Nat]
    BY <1>1 DEF IInv, TypeOK
  <2>1. CASE UNCHANGED analyses
    BY <2>0, <2>1
  <2>2. ASSUME NEW w \in Workers, CommitResult(w)
        PROVE  \A j \in Jobs : analyses'[j] >= analyses[j]
    BY <2>0, <2>2 DEF CommitResult
  <2>3. ASSUME NEW i \in Incidents, DeleteCascade(i)
        PROVE  \A j \in Jobs : Exists(j)' => analyses'[j] >= analyses[j]
    BY <2>0, <2>3 DEF DeleteCascade, Exists
  <2> QED
    BY <1>1, <2>1, <2>2, <2>3
    DEF vars, store, Next, Request, Execute, Disturb, Delete, QueueAnalysis, Publish,
        PublishFails, RefuseJob, CrashApi, CrashProcess, Receive, StartJob,
        SkipJob, ModelAnswers, StoreAnalysis, Raise, ReadJob, WriteFailed,
        Ack, Abandon, CrashWorker, Redeliver, DeleteRow, BreakDeadlock,
        Respond, HandlerRaises, WriteRaises
<1>2. IInv /\ [Next]_vars => IInv'
  BY InvStep
<1>3. IInv /\ [Next]_vars => [A]_vars
  <2> SUFFICES ASSUME IInv, [Next]_vars, NEW j \in Jobs,
                      Exists(j), jobs[j].result, Exists(j)'
      PROVE  jobs'[j].result
    OBVIOUS
  <2>1. analyses[j] > 0 /\ analyses[j] \in Nat /\ analyses'[j] \in Nat
    BY <1>2 DEF IInv, TypeOK, ResultBacked
  <2>2. analyses'[j] > 0
    BY <1>1, <2>1
  <2> QED BY <1>2, <2>2 DEF IInv, ResultBacked
<1> QED BY <1>3, Invariance, PTL DEF Spec

-----------------------------------------------------------------------------
(* The ledger: what holds when no job is executed twice at a time.         *)

\* No delivery is repeated while the first still runs, a publication or commit
\* that raises did not happen, and locking a row fails only where no worker
\* process dies: the delivery after a crash may be of a job that succeeded.
\* Workers lose jobs to time limits, API processes die, the database may be away.
Reliable == /\ MaxRedeliveries = 0
            /\ Faults \cap {"ambiguous_publish", "ambiguous_commit"} = {}
            /\ "lock_error" \in Faults => MaxCrashes = 0

\* A job is with its request, in the broker, or with one worker.
Sole ==
  /\ \A j \in Jobs : queue[j] <= 1 /\ (queue[j] > 0 => \A w \in Workers : msg[w] # j)
  /\ \A v, w \in Workers : msg[v] = msg[w] /\ msg[v] # NoJob => v = w

\* While its request has not published it, nothing has happened to it.
Unpublished ==
  \A j \in Jobs : Held(j) =>
    /\ queue[j] = 0 /\ \A w \in Workers : msg[w] # j
    /\ Status(j) \in {"queued", "none"}

\* The failure path is not taken by a job that has succeeded.
NotDone ==
  \A w \in Workers : pc[w] \in {"failing", "writing"} => Status(msg[w]) # "succeeded"

\* Where no worker process dies, nobody is handed a job that has succeeded.
Fresh ==
  MaxCrashes = 0 => \A j \in Jobs :
    queue[j] > 0 \/ (\E w \in Workers : msg[w] = j /\ pc[w] # "finished")
      => Status(j) # "succeeded"

Calm == Sole /\ Unpublished /\ NotDone /\ Fresh

\* Every step hands a job on to one place at most.
LEMMA SoleStep == Reliable /\ IInv /\ Calm /\ [Next]_vars => Sole'
<1> SUFFICES ASSUME Reliable, IInv, Calm, [Next]_vars PROVE Sole'
  OBVIOUS
<1> USE JobsAssumption, NoRowAssumption DEF Reliable, IInv, TypeOK, Handed, Calm, Sole, Unpublished, Held, Unborn
<1>1. CASE UNCHANGED vars
  BY <1>1
<1>2. ASSUME NEW j \in Jobs, Request(j) PROVE Sole'
  <2>1. CASE QueueAnalysis(j) BY <2>1 DEF QueueAnalysis
  <2>2. CASE Publish(j) BY <2>2 DEF Publish
  <2>3. CASE PublishFails(j) BY <2>3 DEF PublishFails
  <2>4. CASE RefuseJob(j) BY <2>4 DEF RefuseJob
  <2>5. CASE CrashApi(j) BY <2>5 DEF CrashApi
  <2> QED BY <1>2, <2>1, <2>2, <2>3, <2>4, <2>5 DEF Request
<1>3. ASSUME NEW w \in Workers, Execute(w) PROVE Sole'
  <2>1. CASE Receive(w) BY <2>1 DEF Receive
  <2>2. CASE StartJob(w) BY <2>2 DEF StartJob
  <2>3. CASE SkipJob(w) BY <2>3 DEF SkipJob
  <2>4. CASE ModelAnswers(w) BY <2>4 DEF ModelAnswers
  <2>5. CASE StoreAnalysis(w) BY <2>5 DEF StoreAnalysis
  <2>6. CASE CommitResult(w) BY <2>6 DEF CommitResult
  <2>7. CASE Raise(w) BY <2>7 DEF Raise
  <2>8. CASE ReadJob(w) BY <2>8 DEF ReadJob
  <2>9. CASE WriteFailed(w) BY <2>9 DEF WriteFailed
  <2>10. CASE Ack(w) BY <2>10 DEF Ack, Release
  <2>11. CASE WriteRaises(w) BY <2>11 DEF WriteRaises, Behind
  <2> QED BY <1>3, <2>1, <2>2, <2>3, <2>4, <2>5, <2>6, <2>7, <2>8, <2>9, <2>10,
         <2>11 DEF Execute
<1>4. ASSUME NEW w \in Workers, Disturb(w) PROVE Sole'
  <2>1. CASE Abandon(w) BY <2>1 DEF Abandon, Release, Behind
  <2>2. CASE CrashWorker(w) BY <2>2 DEF CrashWorker, Release, Requeue
  <2>3. CASE Redeliver(w) BY <2>3 DEF Redeliver
  <2> QED BY <1>4, <2>1, <2>2, <2>3 DEF Disturb
<1>5. ASSUME NEW w \in Workers, BreakDeadlock(w) PROVE Sole'
  BY <1>5 DEF BreakDeadlock, Deadlocked
<1>6. ASSUME NEW i \in Incidents, Delete(i) PROVE Sole'
  <2>1. CASE DeleteRow(i) BY <2>1 DEF DeleteRow
  <2>2. CASE DeleteCascade(i) BY <2>2 DEF DeleteCascade
  <2> QED BY <1>6, <2>1, <2>2 DEF Delete
<1>7. CASE CrashProcess
  BY <1>7 DEF CrashProcess
<1>8. ASSUME NEW r \in Requests, Respond(r) PROVE Sole'
  BY <1>8 DEF Respond
<1>9. ASSUME NEW r \in Requests, HandlerRaises(r) PROVE Sole'
  BY <1>9 DEF HandlerRaises, CallsOf
<1> QED BY <1>1, <1>2, <1>3, <1>4, <1>5, <1>6, <1>7, <1>8, <1>9 DEF Next

\* Until its request is through, nobody else touches a job.
LEMMA UnpublishedStep == Reliable /\ IInv /\ Calm /\ [Next]_vars => Unpublished'
<1> SUFFICES ASSUME Reliable, IInv, Calm, [Next]_vars PROVE Unpublished'
  OBVIOUS
<1> USE JobsAssumption, NoRowAssumption DEF Reliable, IInv, TypeOK, Handed, Calm, Sole, Unpublished, Held,
    Status, Exists, Unborn, NoStaleRunning, JobsOf
<1>1. CASE UNCHANGED vars
  BY <1>1
<1>2. ASSUME NEW j \in Jobs, Request(j) PROVE Unpublished'
  <2>1. CASE QueueAnalysis(j) BY <2>1 DEF QueueAnalysis
  <2>2. CASE Publish(j) BY <2>2 DEF Publish
  <2>3. CASE PublishFails(j) BY <2>3 DEF PublishFails
  <2>4. CASE RefuseJob(j) BY <2>4 DEF RefuseJob
  <2>5. CASE CrashApi(j) BY <2>5 DEF CrashApi
  <2> QED BY <1>2, <2>1, <2>2, <2>3, <2>4, <2>5 DEF Request
<1>3. ASSUME NEW w \in Workers, Execute(w) PROVE Unpublished'
  <2>1. CASE Receive(w) BY <2>1 DEF Receive
  <2>2. CASE StartJob(w) BY <2>2 DEF StartJob
  <2>3. CASE SkipJob(w) BY <2>3 DEF SkipJob
  <2>4. CASE ModelAnswers(w) BY <2>4 DEF ModelAnswers
  <2>5. CASE StoreAnalysis(w) BY <2>5 DEF StoreAnalysis
  <2>6. CASE CommitResult(w) BY <2>6 DEF CommitResult
  <2>7. CASE Raise(w) BY <2>7 DEF Raise
  <2>8. CASE ReadJob(w) BY <2>8 DEF ReadJob
  <2>9. CASE WriteFailed(w) BY <2>9 DEF WriteFailed
  <2>10. CASE Ack(w) BY <2>10 DEF Ack, Release
  <2>11. CASE WriteRaises(w) BY <2>11 DEF WriteRaises, Behind
  <2> QED BY <1>3, <2>1, <2>2, <2>3, <2>4, <2>5, <2>6, <2>7, <2>8, <2>9, <2>10,
         <2>11 DEF Execute
<1>4. ASSUME NEW w \in Workers, Disturb(w) PROVE Unpublished'
  <2>1. CASE Abandon(w) BY <2>1 DEF Abandon, Release, Behind
  <2>2. CASE CrashWorker(w) BY <2>2 DEF CrashWorker, Release, Requeue
  <2>3. CASE Redeliver(w) BY <2>3 DEF Redeliver
  <2> QED BY <1>4, <2>1, <2>2, <2>3 DEF Disturb
<1>5. ASSUME NEW w \in Workers, BreakDeadlock(w) PROVE Unpublished'
  BY <1>5 DEF BreakDeadlock, Deadlocked
<1>6. ASSUME NEW i \in Incidents, Delete(i) PROVE Unpublished'
  <2>1. CASE DeleteRow(i) BY <2>1 DEF DeleteRow
  <2>2. CASE DeleteCascade(i) BY <2>2 DEF DeleteCascade
  <2> QED BY <1>6, <2>1, <2>2 DEF Delete
<1>7. CASE CrashProcess
  BY <1>7 DEF CrashProcess
<1>8. ASSUME NEW r \in Requests, Respond(r) PROVE Unpublished'
  BY <1>8 DEF Respond
<1>9. ASSUME NEW r \in Requests, HandlerRaises(r) PROVE Unpublished'
  BY <1>9 DEF HandlerRaises, CallsOf
<1> QED BY <1>1, <1>2, <1>3, <1>4, <1>5, <1>6, <1>7, <1>8, <1>9 DEF Next

\* A job that has succeeded is skipped, so that nothing fails after it.
LEMMA NotDoneStep == Reliable /\ IInv /\ Calm /\ [Next]_vars => NotDone'
<1> SUFFICES ASSUME Reliable, IInv, Calm, [Next]_vars PROVE NotDone'
  OBVIOUS
<1> USE JobsAssumption, NoRowAssumption DEF Reliable, IInv, TypeOK, Handed, Calm, Sole, Unpublished, Held,
    NotDone, Status, Exists, Unborn, Locked, Locking, Drafted, HasWork, JobsOf, MarkFailed
<1>1. CASE UNCHANGED vars
  BY <1>1
<1>2. ASSUME NEW j \in Jobs, Request(j) PROVE NotDone'
  <2>1. CASE QueueAnalysis(j) BY <2>1 DEF QueueAnalysis
  <2>2. CASE Publish(j) BY <2>2 DEF Publish
  <2>3. CASE PublishFails(j) BY <2>3 DEF PublishFails
  <2>4. CASE RefuseJob(j) BY <2>4 DEF RefuseJob
  <2>5. CASE CrashApi(j) BY <2>5 DEF CrashApi
  <2> QED BY <1>2, <2>1, <2>2, <2>3, <2>4, <2>5 DEF Request
<1>3. ASSUME NEW w \in Workers, Execute(w) PROVE NotDone'
  <2>1. CASE Receive(w) BY <2>1 DEF Receive
  <2>2. CASE StartJob(w) BY <2>2 DEF StartJob
  <2>3. CASE SkipJob(w) BY <2>3 DEF SkipJob
  <2>4. CASE ModelAnswers(w) BY <2>4 DEF ModelAnswers
  <2>5. CASE StoreAnalysis(w) BY <2>5 DEF StoreAnalysis
  <2>6. CASE CommitResult(w) BY <2>6 DEF CommitResult
  <2>7. CASE Raise(w)
    <3>1. Status(msg[w]) # "succeeded" /\ msg[w] \in Jobs
      BY <2>7 DEF Raise, Fresh
    <3> QED BY <2>7, <3>1 DEF Raise
  <2>8. CASE ReadJob(w) BY <2>8 DEF ReadJob
  <2>9. CASE WriteFailed(w) BY <2>9 DEF WriteFailed
  <2>10. CASE Ack(w) BY <2>10 DEF Ack, Release
  <2>11. CASE WriteRaises(w) BY <2>11 DEF WriteRaises, Behind
  <2> QED BY <1>3, <2>1, <2>2, <2>3, <2>4, <2>5, <2>6, <2>7, <2>8, <2>9, <2>10,
         <2>11 DEF Execute
<1>4. ASSUME NEW w \in Workers, Disturb(w) PROVE NotDone'
  <2>1. CASE Abandon(w) BY <2>1 DEF Abandon, Release, Behind
  <2>2. CASE CrashWorker(w) BY <2>2 DEF CrashWorker, Release, Requeue
  <2>3. CASE Redeliver(w) BY <2>3 DEF Redeliver
  <2> QED BY <1>4, <2>1, <2>2, <2>3 DEF Disturb
<1>5. ASSUME NEW w \in Workers, BreakDeadlock(w) PROVE NotDone'
  BY <1>5 DEF BreakDeadlock, Deadlocked
<1>6. ASSUME NEW i \in Incidents, Delete(i) PROVE NotDone'
  <2>1. CASE DeleteRow(i) BY <2>1 DEF DeleteRow
  <2>2. CASE DeleteCascade(i) BY <2>2 DEF DeleteCascade
  <2> QED BY <1>6, <2>1, <2>2 DEF Delete
<1>7. CASE CrashProcess
  BY <1>7 DEF CrashProcess
<1>8. ASSUME NEW r \in Requests, Respond(r) PROVE NotDone'
  BY <1>8 DEF Respond
<1>9. ASSUME NEW r \in Requests, HandlerRaises(r) PROVE NotDone'
  BY <1>9 DEF HandlerRaises, CallsOf
<1> QED BY <1>1, <1>2, <1>3, <1>4, <1>5, <1>6, <1>7, <1>8, <1>9 DEF Next

\* A job that succeeds is in nobody's hands but those that end with it.
LEMMA FreshStep == Reliable /\ IInv /\ Calm /\ [Next]_vars => Fresh'
<1> SUFFICES ASSUME Reliable, IInv, Calm, [Next]_vars PROVE Fresh'
  OBVIOUS
<1> USE JobsAssumption, NoRowAssumption DEF Reliable, IInv, TypeOK, Handed, Calm, Sole, Unpublished, Held,
    NotDone, Fresh, Status, Exists, Unborn, Locked, Locking, Drafted, HasWork, JobsOf, MarkFailed
<1>1. CASE UNCHANGED vars
  BY <1>1
<1>2. ASSUME NEW j \in Jobs, Request(j) PROVE Fresh'
  <2>1. CASE QueueAnalysis(j) BY <2>1 DEF QueueAnalysis
  <2>2. CASE Publish(j) BY <2>2 DEF Publish
  <2>3. CASE PublishFails(j) BY <2>3 DEF PublishFails
  <2>4. CASE RefuseJob(j) BY <2>4 DEF RefuseJob
  <2>5. CASE CrashApi(j) BY <2>5 DEF CrashApi
  <2> QED BY <1>2, <2>1, <2>2, <2>3, <2>4, <2>5 DEF Request
<1>3. ASSUME NEW w \in Workers, Execute(w) PROVE Fresh'
  <2>1. CASE Receive(w) BY <2>1 DEF Receive
  <2>2. CASE StartJob(w) BY <2>2 DEF StartJob
  <2>3. CASE SkipJob(w) BY <2>3 DEF SkipJob
  <2>4. CASE ModelAnswers(w) BY <2>4 DEF ModelAnswers
  <2>5. CASE StoreAnalysis(w) BY <2>5 DEF StoreAnalysis
  <2>6. CASE CommitResult(w) BY <2>6 DEF CommitResult
  <2>7. CASE Raise(w) BY <2>7 DEF Raise
  <2>8. CASE ReadJob(w) BY <2>8 DEF ReadJob
  <2>9. CASE WriteFailed(w) BY <2>9 DEF WriteFailed
  <2>10. CASE Ack(w) BY <2>10 DEF Ack, Release
  <2>11. CASE WriteRaises(w) BY <2>11 DEF WriteRaises, Behind
  <2> QED BY <1>3, <2>1, <2>2, <2>3, <2>4, <2>5, <2>6, <2>7, <2>8, <2>9, <2>10,
         <2>11 DEF Execute
<1>4. ASSUME NEW w \in Workers, Disturb(w) PROVE Fresh'
  <2>1. CASE Abandon(w) BY <2>1 DEF Abandon, Release, Behind
  <2>2. CASE CrashWorker(w) BY <2>2 DEF CrashWorker, Release, Requeue
  <2>3. CASE Redeliver(w) BY <2>3 DEF Redeliver
  <2> QED BY <1>4, <2>1, <2>2, <2>3 DEF Disturb
<1>5. ASSUME NEW w \in Workers, BreakDeadlock(w) PROVE Fresh'
  BY <1>5 DEF BreakDeadlock, Deadlocked
<1>6. ASSUME NEW i \in Incidents, Delete(i) PROVE Fresh'
  <2>1. CASE DeleteRow(i) BY <2>1 DEF DeleteRow
  <2>2. CASE DeleteCascade(i) BY <2>2 DEF DeleteCascade
  <2> QED BY <1>6, <2>1, <2>2 DEF Delete
<1>7. CASE CrashProcess
  BY <1>7 DEF CrashProcess
<1>8. ASSUME NEW r \in Requests, Respond(r) PROVE Fresh'
  BY <1>8 DEF Respond
<1>9. ASSUME NEW r \in Requests, HandlerRaises(r) PROVE Fresh'
  BY <1>9 DEF HandlerRaises, CallsOf
<1> QED BY <1>1, <1>2, <1>3, <1>4, <1>5, <1>6, <1>7, <1>8, <1>9 DEF Next

\* All four hold as long as nothing but what Reliable allows goes wrong.
LEMMA CalmStep == Reliable /\ IInv /\ Calm /\ [Next]_vars => Calm'
BY SoleStep, UnpublishedStep, NotDoneStep, FreshStep DEF Calm

View == [j \in Jobs |-> Seen(j)]

\* A step that writes one job's row shows in the ledger at that job.
LEMMA OneSeen ==
  ASSUME NEW j \in Jobs, \A k \in Jobs \ {j} : Seen(k)' = Seen(k)
  PROVE  View' = [View EXCEPT ![j] = Seen(j)']
BY DEF View

\* Nobody takes up a queued job again that nobody carries.
LEMMA NoReturn ==
  ASSUME IInv, Next, jobs' = jobs, NEW j \in Jobs, Status(j) = "queued", Carried(j)'
  PROVE  Carried(j)
<1> USE JobsAssumption DEF IInv, TypeOK, Handed, Carried, Held
<1>1. pub[j] # "idle" /\ jobs[j] # NoRow
  BY DEF Status, Exists, Unborn
<1>2. ASSUME NEW k \in Jobs, Request(k) PROVE Carried(j)
  <2>1. CASE QueueAnalysis(k) BY <1>1, <2>1 DEF QueueAnalysis
  <2>2. CASE Publish(k) BY <2>2 DEF Publish
  <2>3. CASE PublishFails(k) BY <2>3 DEF PublishFails
  <2>4. CASE RefuseJob(k) BY <2>4 DEF RefuseJob
  <2>5. CASE CrashApi(k) BY <2>5 DEF CrashApi
  <2> QED BY <1>2, <2>1, <2>2, <2>3, <2>4, <2>5 DEF Request
<1>3. ASSUME NEW w \in Workers, Execute(w) PROVE Carried(j)
  <2>1. CASE Receive(w) BY <2>1 DEF Receive
  <2>2. CASE StartJob(w) BY <2>2 DEF StartJob
  <2>3. CASE SkipJob(w) BY <2>3 DEF SkipJob
  <2>4. CASE ModelAnswers(w) BY <2>4 DEF ModelAnswers
  <2>5. CASE StoreAnalysis(w) BY <2>5 DEF StoreAnalysis
  <2>6. CASE CommitResult(w) BY <2>6 DEF CommitResult
  <2>7. CASE Raise(w) BY <2>7 DEF Raise, Locked, Locking
  <2>8. CASE ReadJob(w) BY <2>8 DEF ReadJob
  <2>9. CASE WriteFailed(w) BY <2>9 DEF WriteFailed
  <2>10. CASE Ack(w) BY <2>10 DEF Ack, Release
  <2>11. CASE WriteRaises(w) BY <2>11 DEF WriteRaises, Behind
  <2> QED BY <1>3, <2>1, <2>2, <2>3, <2>4, <2>5, <2>6, <2>7, <2>8, <2>9, <2>10,
         <2>11 DEF Execute
<1>4. ASSUME NEW w \in Workers, Disturb(w) PROVE Carried(j)
  <2>1. CASE Abandon(w) BY <2>1 DEF Abandon, Release, Behind
  <2>2. CASE CrashWorker(w) BY <2>2 DEF CrashWorker, Release, Requeue, Worked
  <2>3. CASE Redeliver(w) BY <2>3 DEF Redeliver, Requeue, Worked
  <2> QED BY <1>4, <2>1, <2>2, <2>3 DEF Disturb
<1>5. ASSUME NEW w \in Workers, BreakDeadlock(w) PROVE Carried(j)
  BY <1>5 DEF BreakDeadlock, Deadlocked
<1>6. ASSUME NEW i \in Incidents, Delete(i) PROVE Carried(j)
  BY <1>6 DEF Delete, DeleteRow, DeleteCascade
<1>7. CASE CrashProcess
  BY <1>7 DEF CrashProcess
<1>8. ASSUME NEW r \in Requests, Respond(r) PROVE Carried(j)
  BY <1>8 DEF Respond
<1>9. ASSUME NEW r \in Requests, HandlerRaises(r) PROVE Carried(j)
  BY <1>9 DEF HandlerRaises
<1> QED BY <1>2, <1>3, <1>4, <1>5, <1>6, <1>7, <1>8, <1>9 DEF Next

\* A step that writes no row, and starts no request, shows only where it drops
\* the last carrier of a job, and it does not do this while Durable.
LEMMA DropSeen ==
  ASSUME IInv, Next, jobs' = jobs, \A j \in Jobs : pub'[j] = "idle" <=> pub[j] = "idle"
  PROVE  View' = View \/ \E S \in SUBSET Jobs : Ledger!Strand(S)
<1> DEFINE S == {j \in Jobs : Seen(j) = "queued" /\ Seen(j)' = "stranded"}
<1>1. \A j \in Jobs : Seen(j)' = IF j \in S THEN "stranded" ELSE Seen(j)
  <2> SUFFICES ASSUME NEW j \in Jobs, Seen(j)' # Seen(j)
               PROVE  Seen(j) = "queued" /\ Seen(j)' = "stranded"
    BY DEF S
  <2>1. pub[j] # "idle" /\ pub'[j] # "idle" /\ Exists(j) /\ Exists(j)'
    BY DEF Seen, Exists
  <2>2. Status(j) = "queued" /\ jobs[j].status = "queued"
    BY <2>1 DEF Seen, Status, Exists
  <2>3. Carried(j)' => Carried(j)
    BY <2>2, NoReturn
  <2> QED BY <2>1, <2>2, <2>3 DEF Seen, Exists
<1>2. View' = [j \in Jobs |-> IF j \in S THEN "stranded" ELSE View[j]]
  BY <1>1 DEF View
<1>3. CASE S = {}
  BY <1>2, <1>3 DEF View
<1>4. CASE S # {}
  <2>1. PICK j \in Jobs : Seen(j) = "queued" /\ Seen(j)' = "stranded"
    BY <1>4
  <2>2. Status(j)' = "queued" /\ ~Carried(j)'
    <3>1. pub'[j] # "idle" /\ Exists(j)'
      BY <2>1 DEF Seen
    <3>2. jobs'[j].status = "queued" /\ ~Carried(j)'
      <4>1. jobs[j].status # "stranded"
        <5>1. jobs[j] \in JobRow
          BY <3>1 DEF IInv, TypeOK, Exists
        <5> QED BY <5>1 DEF JobRow
      <4> QED BY <2>1, <3>1, <4>1 DEF Seen
    <3> QED BY <3>1, <3>2 DEF Status
  <2>3. ~Durable
    <3>1. IInv'
      BY InvStep
    <3>2. NoStrandedJob'
      BY <3>1 DEF IInv, Chain, Kept, NoStrandedJob, Backed, Carried
    <3> QED BY <2>2, <3>2, GivenStep DEF NoStrandedJob
  <2>4. \A k \in S : View[k] = "queued"
    BY DEF View
  <2> HIDE DEF S
  <2>5. Ledger!Strand(S)
    BY <1>2, <2>3, <2>4 DEF Ledger!Strand, View
  <2> QED BY <2>5 DEF S
<1> QED BY <1>3, <1>4

\* What readers see of a job goes from absent to queued, and so on.
LEMMA LedgerStep ==
  Reliable /\ IInv /\ Calm /\ [Next]_vars => [Ledger!Next]_<<View, Durable>>
<1>0. ASSUME [Next]_vars PROVE Durable' = Durable
  BY <1>0, GivenStep
<1> SUFFICES ASSUME Reliable, IInv, Calm, Next, View' # View, Durable' = Durable
    PROVE  Ledger!Next
  BY <1>0 DEF View, Seen, Exists, Carried, Held
<1> USE NoRowAssumption DEF IInv, TypeOK
<1>1. ASSUME NEW j \in Jobs, QueueAnalysis(j) PROVE Ledger!Next
  <2>1. /\ Seen(j) = "absent" /\ Seen(j)' = "queued"
        /\ \A k \in Jobs \ {j} : Seen(k)' = Seen(k)
    <3>1. PICK i \in incidents \ deleting :
            jobs' = [jobs EXCEPT ![j] = [incident |-> i, status |-> "queued",
                                         result |-> FALSE, error |-> "none"]]
      BY <1>1 DEF QueueAnalysis
    <3>2. /\ jobs'[j] \in JobRow /\ jobs'[j].status = "queued"
          /\ \A k \in Jobs \ {j} : jobs'[k] = jobs[k]
      BY <3>1 DEF JobRow
    <3>3. /\ pub[j] = "idle" /\ pub'[j] = "publishing"
          /\ \A k \in Jobs \ {j} : pub'[k] = pub[k]
      BY <1>1 DEF QueueAnalysis
    <3>4. Carried(j)' /\ \A k \in Jobs \ {j} : Carried(k)' = Carried(k)
      BY <1>1, <3>3 DEF QueueAnalysis, Carried, Held
    <3> QED BY <3>2, <3>3, <3>4 DEF Seen, Exists
  <2>2. View' = [View EXCEPT ![j] = "queued"] /\ View[j] = "absent"
    BY <2>1, OneSeen DEF View
  <2> QED BY <2>2 DEF View, Ledger!Next, Ledger!Submit
<1>2. ASSUME NEW j \in Jobs, RefuseJob(j) PROVE Ledger!Next
  <2>1. pub[j] = "refusing" /\ jobs[j] # NoRow /\ jobs[j] \in JobRow
    <3>1. CASE jobs[j] = NoRow
      <4>1. jobs' = jobs /\ \A k \in Jobs : pub'[k] = "idle" <=> pub[k] = "idle"
        BY <1>2, <3>1 DEF RefuseJob
      <4>2. \A k \in Jobs : Seen(k)' = Seen(k)
        <5>1. \A k \in Jobs \ {j} : Carried(k)' = Carried(k)
          BY <1>2 DEF RefuseJob, Carried, Held
        <5> QED BY <3>1, <4>1, <5>1 DEF Seen, Exists
      <4> QED BY <4>2 DEF View
    <3> QED BY <1>2, <3>1 DEF RefuseJob
  <2>2. Seen(j) = "queued"
    BY <2>1 DEF Calm, Unpublished, Status, Seen, Exists, JobRow, Carried, Held
  <2>3. Seen(j)' = "failed" /\ \A k \in Jobs \ {j} : Seen(k)' = Seen(k)
    <3>1. \A k \in Jobs \ {j} : Carried(k)' = Carried(k) /\ jobs'[k] = jobs[k]
                                /\ (pub'[k] = "idle" <=> pub[k] = "idle")
      BY <1>2, <2>1 DEF RefuseJob, Carried, Held
    <3>2. jobs'[j].status = "failed" /\ jobs'[j] \in JobRow /\ pub'[j] = "answered"
      BY <1>2, <2>1 DEF RefuseJob, JobRow
    <3> QED BY <3>1, <3>2 DEF Seen, Exists
  <2>4. View' = [View EXCEPT ![j] = "failed"] /\ View[j] = "queued"
    BY <2>2, <2>3, OneSeen DEF View
  <2> QED BY <2>4 DEF View, Ledger!Next, Ledger!Settle
<1>3. ASSUME NEW w \in Workers, CommitResult(w) PROVE Ledger!Next
  <2>0. PICK j \in Jobs : j = msg[w]
    BY <1>3 DEF CommitResult, Handed
  <2>1. /\ jobs[j] \in JobRow /\ draft[w] \in JobRow
        /\ jobs[j].status \in {"queued", "failed"}
        /\ pub[j] # "idle" /\ pc[w] = "stored"
    BY <1>3, <2>0 DEF CommitResult, Handed, Drafted, Locked, Locking, HasWork, JobRow,
                NoStaleRunning, Status, Exists, Unborn
  <2>2. jobs'[j] = [draft[w] EXCEPT !.status = "succeeded", !.result = TRUE]
        /\ \A k \in Jobs \ {j} : jobs'[k] = jobs[k]
    BY <1>3, <2>0 DEF CommitResult
  <2>3. jobs'[j] \in JobRow /\ jobs'[j].status = "succeeded"
    BY <2>1, <2>2 DEF JobRow
  <2>4. Seen(j) \in {"queued", "failed"} /\ Seen(j)' = "succeeded"
        /\ \A k \in Jobs \ {j} : Seen(k)' = Seen(k)
    <3>1. \A k \in Jobs \ {j} : Carried(k)' = Carried(k)
      BY <1>3, <2>0 DEF CommitResult, Carried, Held
    <3>2. Carried(j)
      BY <2>0, <2>1 DEF Carried
    <3> QED BY <1>3, <2>1, <2>2, <2>3, <3>1, <3>2 DEF CommitResult, Seen, Exists
  <2>5. View' = [View EXCEPT ![j] = "succeeded"] /\ View[j] \in {"queued", "failed"}
    BY <2>1, <2>4, OneSeen DEF View
  <2> QED BY <2>5 DEF View, Ledger!Next, Ledger!Settle, Ledger!Recover
<1>4. ASSUME NEW w \in Workers, WriteFailed(w) PROVE Ledger!Next
  <2>0. PICK j \in Jobs : j = msg[w]
    BY <1>4 DEF WriteFailed, Handed
  <2>1. pub[j] # "idle" /\ draft[w] \in JobRow /\ pc[w] = "writing"
    BY <1>4, <2>0 DEF WriteFailed, Handed, Unborn
  <2>2. jobs[j] # NoRow /\ jobs[j] \in JobRow
    BY <1>4, <2>0 DEF WriteFailed
  <2>3. jobs[j].status \in {"queued", "failed"}
    BY <2>0, <2>1, <2>2 DEF Calm, NotDone, NoStaleRunning, Status, Exists, JobRow
  <2>4. draft[w].status = "failed" => jobs[j].status # "queued"
    BY <2>0, <2>1, <2>2 DEF NeverRequeued, Status, Exists
  <2>5. /\ jobs'[j] = MarkFailed(jobs[j], draft[w])
        /\ \A k \in Jobs \ {j} : jobs'[k] = jobs[k]
    BY <1>4, <2>0, <2>2 DEF WriteFailed
  <2>6. jobs'[j] \in JobRow /\ jobs'[j].status = "failed"
    BY <2>1, <2>2, <2>3, <2>4, <2>5 DEF JobRow, MarkFailed
  <2>7. Seen(j) = jobs[j].status /\ Seen(j)' = "failed"
        /\ \A k \in Jobs \ {j} : Seen(k)' = Seen(k)
    <3>1. \A k \in Jobs \ {j} : Carried(k)' = Carried(k)
      BY <1>4, <2>0 DEF WriteFailed, Carried, Held
    <3>2. Carried(j)
      BY <2>0, <2>1 DEF Carried
    <3> QED BY <1>4, <2>1, <2>2, <2>5, <2>6, <3>1, <3>2 DEF WriteFailed, Seen, Exists
  <2>8. View' = [View EXCEPT ![j] = "failed"] /\ View[j] = jobs[j].status
    BY <2>1, <2>7, OneSeen DEF View
  <2>9. jobs[j].status = "queued"
    BY <2>3, <2>8 DEF View
  <2> QED BY <2>8, <2>9 DEF View, Ledger!Next, Ledger!Settle
<1>5. ASSUME NEW i \in Incidents, DeleteCascade(i) PROVE Ledger!Next
  <2>1. \A j \in JobsOf(i) : Seen(j) \in {"queued", "stranded", "succeeded", "failed"}
    BY DEF JobsOf, Seen, Exists, Unborn, NoStaleRunning, Status, JobRow
  <2>2. \A j \in Jobs : Seen(j)' = IF j \in JobsOf(i) THEN "gone" ELSE Seen(j)
    <3>1. \A j \in Jobs : Carried(j)' = Carried(j)
      BY <1>5 DEF DeleteCascade, Carried, Held
    <3> QED BY <1>5, <3>1 DEF DeleteCascade, JobsOf, Seen, Exists, Unborn
  <2>3. JobsOf(i) \subseteq Jobs
    BY DEF JobsOf
  <2>4. View' = [j \in Jobs |-> IF j \in JobsOf(i) THEN "gone" ELSE View[j]]
    BY <2>2 DEF View
  <2>5. \A j \in JobsOf(i) : View[j] \in {"queued", "stranded", "succeeded", "failed"}
    BY <2>1, <2>3 DEF View
  <2> QED BY <2>3, <2>4, <2>5 DEF View, Ledger!Next, Ledger!Remove
<1>6. CASE jobs' = jobs /\ \A j \in Jobs : pub'[j] = "idle" <=> pub[j] = "idle"
  BY <1>6, DropSeen DEF Ledger!Next
<1> QED
  BY <1>1, <1>2, <1>3, <1>4, <1>5, <1>6
  DEF Next, Request, Execute, Disturb, Delete, Publish, PublishFails, CrashApi,
      Respond, HandlerRaises, CrashProcess, Receive, StartJob, SkipJob, ModelAnswers,
      StoreAnalysis, Raise, ReadJob, WriteRaises, Ack, Abandon, CrashWorker, Redeliver,
      DeleteRow, BreakDeadlock

\* On a reliable broker a reader of the jobs table sees what JobLedger
\* promises, whatever workers, requests and deletions do in between: a job is
\* stranded only if not Durable, and what is stranded never comes back.
THEOREM Implementation == ASSUME Reliable PROVE Spec => Ledger!Spec
<1> DEFINE Inv == IInv /\ Calm
<1>1. Init => Ledger!Init
  BY DEF Init, Ledger!Init, Seen, Durable
<1>2. Init => Inv
  BY JobsAssumption, InitInv DEF Init, Calm, Sole, Unpublished, Held, NotDone, Fresh, Status, Exists
<1>3. Inv /\ [Next]_vars => Inv'
  BY InvStep, CalmStep
<1>4. Inv /\ [Next]_vars => [Ledger!Next]_(Ledger!vars)
  BY LedgerStep DEF View, Ledger!vars
<1> HIDE DEF Inv
<1> QED BY <1>1, <1>2, <1>3, <1>4, PTL DEF Spec, Ledger!Spec

\* On a reliable broker a success is final, as the comment in jobs.py says of
\* redelivery: a job is never taken back from succeeded.
THEOREM SuccessIsFinal == ASSUME Reliable PROVE Spec => SucceededIsFinal
<1> DEFINE Inv == IInv /\ Calm
           A == \A j \in Jobs : Status(j) = "succeeded" => Status(j)' \in {"succeeded", "none"}
<1>1. Init => Inv
  BY JobsAssumption, InitInv DEF Init, Calm, Sole, Unpublished, Held, NotDone, Fresh, Status, Exists
<1>2. Inv /\ [Next]_vars => Inv'
  BY InvStep, CalmStep
<1>3. Inv /\ [Next]_vars => [A]_vars
  <2> SUFFICES ASSUME Inv, [Next]_vars, NEW j \in Jobs, Status(j) = "succeeded"
      PROVE  Status(j)' \in {"succeeded", "none"}
    OBVIOUS
  <2>1. [Ledger!Next]_<<View, Durable>>
    BY LedgerStep
  <2>2. Exists(j) /\ Seen(j) = "succeeded"
    BY DEF IInv, Unborn, Status, Exists, Seen
  <2>3. Seen(j)' \in {"succeeded", "gone"}
    <3>1. View[j] = "succeeded" /\ View'[j] = Seen(j)'
      BY <2>2 DEF View
    <3>2. CASE View' = View
      BY <3>1, <3>2
    <3>3. CASE Ledger!Next
      BY <3>1, <3>3 DEF View, Ledger!Next, Ledger!Submit, Ledger!Settle, Ledger!Recover,
                        Ledger!Strand, Ledger!Remove
    <3> QED BY <2>1, <3>2, <3>3
  <2>4. IInv'
    BY <1>2
  <2> QED BY <2>3, <2>4 DEF Seen, Status, Exists, IInv, TypeOK, JobRow
<1> HIDE DEF Inv
<1> QED BY <1>1, <1>2, <1>3, PTL DEF Spec, SucceededIsFinal

=============================================================================
