----------------------------- MODULE LogArchive -----------------------------
(***************************************************************************)
(* POST /incidents/{id}/archive: the logs of one incident are read,        *)
(* uploaded under a key that is a digest of their text, and then an event  *)
(* is committed to the timeline.  Meanwhile logs and notes are added, the  *)
(* incident is deleted, or a process dies.                                 *)
(*                                                                         *)
(* An object is named by the content it was made for.  S3 stores it whole  *)
(* or not at all; the demo's write_bytes truncates the file before it      *)
(* writes, so for a moment the file is there and torn.                     *)
(***************************************************************************)
EXTENDS Naturals, Sequences, FiniteSets, Functions

CONSTANTS
  Archives,     \* requests to archive
  Additions,    \* requests to add a log entry
  Notes,        \* requests to add a timeline event
  Times,        \* timestamps of log entries, which may repeat
  Stores,       \* which of StoreKinds the settings may select
  MaxEntries,   \* the limit of 20 MB, in entries
  MaxAttempts   \* of one upload: 2

StoreKinds == {"s3", "demo", "none"}

ASSUME ArchiveAssumption ==
  /\ Times \subseteq Nat
  /\ Stores \subseteq StoreKinds
  /\ MaxEntries \in Nat
  /\ MaxAttempts \in Nat \ {0}
  /\ Archives \cap Additions = {} /\ Archives \cap Notes = {} /\ Additions \cap Notes = {}

Requests == Archives \cup Additions \cup Notes

VARIABLES
  store,      \* settings.s3_bucket and demo_mode
  exists,     \* the incident
  logs,       \* its committed log entries
  timeline,   \* the requests whose event is committed
  objects,    \* what the store holds: content -> "whole" or "torn"
  pc,         \* of each request
  content,    \* of each archive: the entries it has read, in its order
  attempts    \* of each archive's upload

vars == <<store, exists, logs, timeline, objects, pc, content, attempts>>

Entry == [by : Additions, time : Times]

TypeOK ==
  /\ store \in Stores
  /\ exists \in BOOLEAN
  /\ logs \subseteq Entry
  /\ timeline \subseteq Requests
  /\ \A s \in DOMAIN objects : s \in Seq(Entry) /\ objects[s] \in {"whole", "torn"}
  /\ \A s \in DOMAIN objects : Len(s) <= MaxEntries
  /\ pc \in [Requests -> {"waiting", "read", "writing", "stored", "committed", "done",
                          "not_found", "refused", "failed", "crashed", "interrupted"}]
  /\ content \in [Archives -> Seq(Entry)]
  /\ attempts \in [Archives -> 0 .. MaxAttempts]

Init ==
  /\ store \in Stores
  /\ exists = TRUE
  /\ logs = {} /\ timeline = {}
  /\ objects = [s \in {} |-> "whole"]
  /\ pc = [r \in Requests |-> "waiting"]
  /\ content = [r \in Archives |-> <<>>]
  /\ attempts = [r \in Archives |-> 0]

Go(r, l) == pc' = [pc EXCEPT ![r] = l]

-----------------------------------------------------------------------------
(* Logs, notes, deletion.                                                  *)

\* require_incident, add_logs and the commit, with the event.
AddLogs(l) ==
  /\ pc[l] = "waiting"
  /\ exists
  /\ \E time \in Times : logs' = logs \cup {[by |-> l, time |-> time]}
  /\ timeline' = timeline \cup {l}
  /\ Go(l, "done")
  /\ UNCHANGED <<store, exists, objects, content, attempts>>

AddNote(n) ==
  /\ pc[n] = "waiting"
  /\ exists
  /\ timeline' = timeline \cup {n}
  /\ Go(n, "done")
  /\ UNCHANGED <<store, exists, logs, objects, content, attempts>>

NotFound(r) ==
  /\ pc[r] = "waiting"
  /\ ~exists
  /\ Go(r, "not_found")
  /\ UNCHANGED <<store, exists, logs, timeline, objects, content, attempts>>

\* Logs and timeline go with the incident, archives stay.
DeleteIncident ==
  /\ exists
  /\ exists' = FALSE
  /\ logs' = {} /\ timeline' = {}
  /\ UNCHANGED <<store, objects, pc, content, attempts>>

-----------------------------------------------------------------------------
(* archive.                                                                *)

\* Mutant: the SELECT has no ORDER BY.
Orders_Any == {s \in [1 .. Cardinality(logs) -> logs] : IsInjective(s)}

\* ORDER BY timestamp: entries of one time come in any order.
Orders == {s \in [1 .. Cardinality(logs) -> logs] :
             IsInjective(s) /\ \A m, n \in DOMAIN s : m < n => s[m].time <= s[n].time}

ReadLogs(r) ==
  /\ pc[r] = "waiting"
  /\ exists
  /\ \E s \in Orders : content' = [content EXCEPT ![r] = s]
  /\ Go(r, "read")
  /\ UNCHANGED <<store, exists, logs, timeline, objects, attempts>>

\* Mutant: there is no limit.
MayUpload_Unlimited(r) == store # "none"

MayUpload(r) == Len(content[r]) <= MaxEntries /\ store # "none"

\* Too large, or neither a bucket nor demo mode.
Refuse(r) ==
  /\ pc[r] = "read"
  /\ ~MayUpload(r)
  /\ Go(r, "refused")
  /\ UNCHANGED <<store, exists, logs, timeline, objects, content, attempts>>

\* The file is opened, and thereby emptied.
Truncate(r) ==
  /\ pc[r] = "read"
  /\ MayUpload(r)
  /\ store = "demo"
  /\ objects' = [s \in DOMAIN objects \cup {content[r]} |->
                   IF s = content[r] THEN "torn" ELSE objects[s]]
  /\ Go(r, "writing")
  /\ UNCHANGED <<store, exists, logs, timeline, content, attempts>>

Stored(r) == [s \in DOMAIN objects \cup {content[r]} |->
                IF s = content[r] THEN "whole" ELSE objects[s]]

Write(r) ==
  /\ pc[r] = "writing"
  /\ objects' = Stored(r)
  /\ Go(r, "stored")
  /\ UNCHANGED <<store, exists, logs, timeline, content, attempts>>

\* A full disk; the error is no IntegrationError: 500.
WriteFails(r) ==
  /\ pc[r] = "writing"
  /\ Go(r, "interrupted")
  /\ UNCHANGED <<store, exists, logs, timeline, objects, content, attempts>>

Attempt(r) ==
  /\ pc[r] = "read"
  /\ MayUpload(r)
  /\ store = "s3"
  /\ attempts[r] < MaxAttempts
  /\ attempts' = [attempts EXCEPT ![r] = @ + 1]

Put(r) ==
  /\ Attempt(r)
  /\ objects' = Stored(r)
  /\ Go(r, "stored")
  /\ UNCHANGED <<store, exists, logs, timeline, content>>

\* The client repeats what it has no answer to, stored or not; then 502.
PutFails(r) ==
  /\ Attempt(r)
  /\ objects' \in {objects, Stored(r)}
  /\ Go(r, IF attempts'[r] < MaxAttempts THEN "read" ELSE "failed")
  /\ UNCHANGED <<store, exists, logs, timeline, content>>

\* Mutant: the event is committed before the upload.
Record_First(r) ==
  /\ pc[r] \in {"read", "stored"}
  /\ exists
  /\ timeline' = timeline \cup {r}
  /\ Go(r, IF pc[r] = "stored" THEN "committed" ELSE "read")
  /\ UNCHANGED <<store, exists, logs, objects, content, attempts>>

\* add_event and the commit.
Record(r) ==
  /\ pc[r] = "stored"
  /\ exists
  /\ timeline' = timeline \cup {r}
  /\ Go(r, "committed")
  /\ UNCHANGED <<store, exists, logs, objects, content, attempts>>

\* The event has no incident any more, or the database is away: 500.
RecordFails(r) ==
  /\ pc[r] = "stored"
  /\ Go(r, "failed")
  /\ UNCHANGED <<store, exists, logs, timeline, objects, content, attempts>>

Answer(r) ==
  /\ pc[r] = "committed"
  /\ Go(r, "done")
  /\ UNCHANGED <<store, exists, logs, timeline, objects, content, attempts>>

\* The process dies, perhaps while it writes a file.
Crash(r) ==
  /\ pc[r] \in {"read", "writing", "stored", "committed"}
  /\ Go(r, IF pc[r] = "writing" THEN "interrupted" ELSE "crashed")
  /\ UNCHANGED <<store, exists, logs, timeline, objects, content, attempts>>

Archive(r) == \/ ReadLogs(r) \/ Refuse(r) \/ Truncate(r) \/ Write(r) \/ WriteFails(r)
              \/ Put(r) \/ PutFails(r) \/ Record(r) \/ RecordFails(r)
              \/ Answer(r) \/ Crash(r)

Next == \/ \E r \in Archives : Archive(r)
        \/ \E l \in Additions : AddLogs(l)
        \/ \E n \in Notes : AddNote(n)
        \/ \E r \in Requests : NotFound(r)
        \/ DeleteIncident

Spec == Init /\ [][Next]_vars

-----------------------------------------------------------------------------
(* Properties.                                                             *)

\* A request whose write of a file is under way or was cut short.
MayTear(r) == pc[r] \in {"writing", "interrupted"}

\* An archive that is on the timeline, or whose receipt was answered, is in the
\* store and whole, although it was uploaded again, its event came later and
\* the incident may be gone; only in the demo another archive of the same logs
\* may have torn it.
ReceiptBacked ==
  \A r \in Archives : r \in timeline \/ pc[r] \in {"committed", "done"} =>
    /\ content[r] \in DOMAIN objects
    /\ objects[content[r]] = "torn" =>
         \E q \in Archives \ {r} : content[q] = content[r] /\ MayTear(q)

Distinct(s) == \A m, n \in DOMAIN s : s[m].time = s[n].time => m = n

\* Every object in the store is accounted for: by an event on the timeline, a
\* request that is still running, failed visibly or died, or the deletion of
\* the incident.  Archiving unchanged logs again makes no second object, unless
\* entries share a timestamp.
ArchivesAccountedFor ==
  /\ \A s \in DOMAIN objects : \E r \in Archives :
       /\ content[r] = s
       /\ \/ r \in timeline
          \/ ~exists
          \/ pc[r] \in {"read", "writing", "stored"}
          \/ pc[r] \in {"failed", "crashed", "interrupted"}
  /\ \A s, t \in DOMAIN objects : Range(s) = Range(t) /\ Distinct(s) => s = t

=============================================================================
