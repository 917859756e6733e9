----------------------------- MODULE JobLedger -----------------------------
(***************************************************************************)
(* What GET /jobs/{id} promises its callers, with no worker, broker or     *)
(* lock in sight: a job is queued once, settles as succeeded or failed, a  *)
(* failed job may still succeed when it is delivered again, a succeeded    *)
(* job stays succeeded, and a job disappears only with its incident.       *)
(* Where jobs are not kept durably, a queued job may be forgotten, and     *)
(* then shows as queued for ever; the ledger calls it stranded.            *)
(***************************************************************************)
CONSTANT Jobs

VARIABLES
  view,        \* what a reader of the jobs table sees of each job
  durable      \* every queued job is kept until it has settled

vars == <<view, durable>>

States == {"absent", "queued", "stranded", "succeeded", "failed", "gone"}

TypeOK == view \in [Jobs -> States] /\ durable \in BOOLEAN

Init == view = [j \in Jobs |-> "absent"] /\ durable \in BOOLEAN

Submit(j) == /\ view[j] = "absent"
             /\ view' = [view EXCEPT ![j] = "queued"]

Settle(j) == /\ view[j] = "queued"
             /\ \E s \in {"succeeded", "failed"} : view' = [view EXCEPT ![j] = s]

Recover(j) == /\ view[j] = "failed"
              /\ view' = [view EXCEPT ![j] = "succeeded"]

\* One failure may strand several jobs.
Strand(S) == /\ ~durable
             /\ \A j \in S : view[j] = "queued"
             /\ view' = [j \in Jobs |-> IF j \in S THEN "stranded" ELSE view[j]]

\* Deleting an incident removes all its jobs at once.
Remove(S) == /\ \A j \in S : view[j] \in {"queued", "stranded", "succeeded", "failed"}
             /\ view' = [j \in Jobs |-> IF j \in S THEN "gone" ELSE view[j]]

Next == /\ UNCHANGED durable
        /\ \/ \E j \in Jobs : Submit(j) \/ Settle(j) \/ Recover(j)
           \/ \E S \in SUBSET Jobs : Strand(S) \/ Remove(S)

Spec == Init /\ [][Next]_vars

\* A queued job does not stay queued: unless it is removed first, it settles or,
\* where jobs are not kept durably, is stranded.
FairSpec ==
  Spec /\ \A j \in Jobs :
    WF_vars(Next /\ (Settle(j) \/ \E S \in SUBSET Jobs : j \in S /\ Strand(S)))
=============================================================================
