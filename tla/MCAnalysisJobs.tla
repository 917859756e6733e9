--------------------------- MODULE MCAnalysisJobs ---------------------------
(***************************************************************************)
(* AnalysisJobs on small sets of jobs, workers and incidents.  Symmetry is *)
(* used by the runs that check no liveness property.                       *)
(***************************************************************************)
EXTENDS AnalysisJobs, TLC

Symmetry == Permutations(Jobs) \cup Permutations(Requests)
              \cup Permutations(Workers) \cup Permutations(Incidents)

\* The calls of one webhook, and calls for one incident.
SameRequest(p)  == \A j, k \in Jobs : p.request[j] = p.request[k]
SameIncident(p) == \A j, k \in Jobs : p.target[j] = p.target[k]

RelatedCalls == {p \in EveryPlan : SameRequest(p) \/ SameIncident(p)}
OneOfEach    == {CHOOSE p \in EveryPlan : SameRequest(p), CHOOSE p \in EveryPlan : SameIncident(p)}

=============================================================================
