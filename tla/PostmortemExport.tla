-------------------------- MODULE PostmortemExport --------------------------
(***************************************************************************)
(* The postmortem of one incident: drafts are generated and edited, and    *)
(* exported to Jira or Confluence by requests to several API processes.    *)
(*                                                                         *)
(* An export waits for the lock its process keeps for the incident, then   *)
(* for the incident's row lock, posts to the destination while it holds    *)
(* both, and stores the receipt.  The POST is never repeated; what the     *)
(* destination created without a receipt being stored is remembered in     *)
(* the history variable orphans.  SQLite has no row lock and one process.  *)
(***************************************************************************)
EXTENDS Naturals, FiniteSets

CONSTANTS
  Exports,         \* requests to export_postmortem
  Drafts,          \* requests to generate or edit the postmortem
  Processes,       \* API processes
  Destinations,    \* jira, confluence
  None,            \* no row
  DatabaseModes,   \* {TRUE}: SQLite, {FALSE}: PostgreSQL
  MaxRestarts      \* bound: processes restarted

ASSUME ExportAssumption ==
  /\ DatabaseModes \subseteq BOOLEAN
  /\ MaxRestarts \in Nat
  /\ Exports \cap Drafts = {}

Requests == Exports \cup Drafts

\* What get_exporter gives a process for a destination.
Exporters == {"real", "demo", "unconfigured"}

VARIABLES
  sqlite,
  home,        \* the process that serves each request
  target,      \* the destination of each export
  exporter,    \* of each process and destination, from its settings
  exists,      \* the incident row
  draft,       \* the postmortem row
  receipts,    \* the export record of each destination
  remote,      \* artifacts created at the destinations
  orphans,     \* history: those whose request ended without a receipt
  writes,      \* history: committed generations and edits
  pc,          \* of each request
  copy,        \* the postmortem as each request's session has read it
  answer,      \* the receipt an export has in hand or has returned
  restarts

settings == <<sqlite, home, target, exporter>>
store    == <<exists, draft, receipts>>
vars     == <<settings, store, remote, orphans, writes, pc, copy, answer, restarts>>

\* Artifacts are numbered as they are created; 0 stands for a demo receipt.
Receipt  == [id : Nat, demo : BOOLEAN]
Artifact == [id : Nat, destination : Destinations, text : Nat]

\* text names the content by the write that made it; url is what jira_issue_key
\* or confluence_url were last set to.
Draft == [text : Nat, version : Nat, url : [Destinations -> Receipt \cup {None}]]

ASSUME NoneAssumption == None \notin Receipt \cup Draft

Final == {"done", "failed"}

TypeOK ==
  /\ sqlite \in BOOLEAN
  /\ home \in [Requests -> Processes]
  /\ target \in [Exports -> Destinations]
  /\ exporter \in [Processes -> [Destinations -> Exporters]]
  /\ exists \in BOOLEAN
  /\ draft \in Draft \cup {None}
  /\ receipts \in [Destinations -> Receipt \cup {None}]
  /\ remote \subseteq Artifact /\ orphans \subseteq remote
  /\ writes \in Nat /\ restarts \in Nat
  /\ pc \in [Requests -> {"sent", "guarded", "posting", "storing", "read"} \cup Final]
  /\ copy \in [Requests -> Draft \cup {None}]
  /\ answer \in [Exports -> Receipt \cup {None}]

NoUrls == [d \in Destinations |-> None]

\* The postmortem may have been generated before the requests come.
Init ==
  /\ sqlite \in DatabaseModes
  /\ home \in [Requests -> Processes]
  /\ sqlite => \E p \in Processes : \A r \in Requests : home[r] = p
  /\ target \in [Exports -> Destinations]
  /\ exporter \in [Processes -> [Destinations -> Exporters]]
  /\ exists = TRUE
  /\ writes \in {0, 1}
  /\ draft = IF writes = 0 THEN None ELSE [text |-> 1, version |-> 1, url |-> NoUrls]
  /\ receipts = [d \in Destinations |-> None]
  /\ remote = {} /\ orphans = {}
  /\ restarts = 0
  /\ pc = [r \in Requests |-> "sent"]
  /\ copy = [r \in Requests |-> None]
  /\ answer = [x \in Exports |-> None]

-----------------------------------------------------------------------------
(* Locks.                                                                  *)

\* Mutant: the lock is released by hand after the commit, not by a failure.
Guarded_UntilDone(x) == pc[x] \in {"guarded", "posting", "storing", "failed"}

Guarded(x) == pc[x] \in {"guarded", "posting", "storing"}

\* Mutant: every request has a lock of its own.
ProcessLockFree_Own(x) == TRUE

\* export_locks[incident] of x's process.
ProcessLockFree(x) == \A y \in Exports : Guarded(y) => home[y] # home[x]

\* Mutant: the incident is read without FOR UPDATE.
RowLockFree_Ignored == TRUE

\* FOR UPDATE on the incident, held until the end of the transaction.
RowLockFree == sqlite \/ \A r \in Requests : pc[r] \notin {"posting", "storing", "read"}

Go(r, l) == pc' = [pc EXCEPT ![r] = l]

\* The request ends, with its session and its locks.
End(r, l) == Go(r, l) /\ copy' = [copy EXCEPT ![r] = None]

\* The artifact a failing export leaves at the destination, if it has one.
Orphaned(x) == {a \in remote : pc[x] = "storing" /\ a.id = answer[x].id}

-----------------------------------------------------------------------------
(* export_postmortem.                                                      *)

Guard(x) ==
  /\ pc[x] = "sent"
  /\ ProcessLockFree(x)
  /\ Go(x, "guarded")
  /\ UNCHANGED <<settings, store, remote, orphans, writes, copy, answer, restarts>>

Kind(x) == exporter[home[x]][target[x]]

\* Mutant: a receipt is reused when the exporter would give one of its kind.
Reusable_SameKind(x) == /\ receipts[target[x]] # None
                        /\ receipts[target[x]].demo = (Kind(x) = "demo")

\* A real receipt is final; a demo receipt is, while the exporter is a demo.
Reusable(x) == /\ receipts[target[x]] # None
               /\ receipts[target[x]].demo => Kind(x) = "demo"

ReuseReceipt(x) ==
  /\ pc[x] = "guarded"
  /\ RowLockFree
  /\ exists
  /\ Reusable(x)
  /\ answer' = [answer EXCEPT ![x] = receipts[target[x]]]
  /\ End(x, "done")
  /\ UNCHANGED <<settings, store, remote, orphans, writes, restarts>>

\* 404 without incident or postmortem, 503 without configuration.
Refuse(x) ==
  /\ pc[x] = "guarded"
  /\ RowLockFree
  /\ \/ ~exists
     \/ ~Reusable(x) /\ (Kind(x) = "unconfigured" \/ draft = None)
  /\ End(x, "failed")
  /\ UNCHANGED <<settings, store, remote, orphans, writes, answer, restarts>>

StartExport(x) ==
  /\ pc[x] = "guarded"
  /\ RowLockFree
  /\ exists /\ draft # None
  /\ ~Reusable(x) /\ Kind(x) # "unconfigured"
  /\ copy' = [copy EXCEPT ![x] = draft]
  /\ Go(x, "posting")
  /\ UNCHANGED <<settings, store, remote, orphans, writes, answer, restarts>>

\* DemoExporter makes up a receipt without any call.
ExportDemo(x) ==
  /\ pc[x] = "posting"
  /\ Kind(x) = "demo"
  /\ answer' = [answer EXCEPT ![x] = [id |-> 0, demo |-> TRUE]]
  /\ Go(x, "storing")
  /\ UNCHANGED <<settings, store, remote, orphans, writes, copy, restarts>>

NewArtifact(x) == [id |-> Cardinality(remote) + 1, destination |-> target[x],
                   text |-> copy[x].text]

\* The POST succeeds and the answer has a usable identifier.
PostCreated(x) ==
  /\ pc[x] = "posting"
  /\ Kind(x) = "real"
  /\ remote' = remote \cup {NewArtifact(x)}
  /\ answer' = [answer EXCEPT ![x] = [id |-> NewArtifact(x).id, demo |-> FALSE]]
  /\ Go(x, "storing")
  /\ UNCHANGED <<settings, store, orphans, writes, copy, restarts>>

\* The POST fails: rejected, or created although the answer was lost or bad.
PostFails(x) ==
  /\ pc[x] = "posting"
  /\ Kind(x) = "real"
  /\ \/ UNCHANGED <<remote, orphans>>
     \/ /\ remote' = remote \cup {NewArtifact(x)}
        /\ orphans' = orphans \cup {NewArtifact(x)}
  /\ End(x, "failed")
  /\ UNCHANGED <<settings, store, writes, answer, restarts>>

\* Mutant: the link is only set with a new record.
StoreReceipt_KeepsLink(x) ==
  /\ pc[x] = "storing"
  /\ exists
  /\ receipts' = [receipts EXCEPT ![target[x]] = answer[x]]
  /\ draft' = IF receipts[target[x]] = None
              THEN [draft EXCEPT !.url[target[x]] = answer[x]]
              ELSE draft
  /\ End(x, "done")
  /\ UNCHANGED <<settings, exists, remote, orphans, writes, answer, restarts>>

\* The record is inserted or overwritten, the postmortem's link set.
StoreReceipt(x) ==
  /\ pc[x] = "storing"
  /\ exists
  /\ receipts' = [receipts EXCEPT ![target[x]] = answer[x]]
  /\ draft' = [draft EXCEPT !.url[target[x]] = answer[x]]
  /\ End(x, "done")
  /\ UNCHANGED <<settings, exists, remote, orphans, writes, answer, restarts>>

\* The commit fails; on SQLite also because the incident is gone.
StoreFails(x) ==
  /\ pc[x] = "storing"
  /\ orphans' = orphans \cup Orphaned(x)
  /\ answer' = [answer EXCEPT ![x] = None]
  /\ End(x, "failed")
  /\ UNCHANGED <<settings, store, remote, writes, restarts>>

-----------------------------------------------------------------------------
(* generate_postmortem and edit_postmortem.                                *)

ReadDraft(r) ==
  /\ pc[r] = "sent"
  /\ RowLockFree
  /\ exists
  /\ copy' = [copy EXCEPT ![r] = draft]
  /\ Go(r, "read")
  /\ UNCHANGED <<settings, store, remote, orphans, writes, answer, restarts>>

\* Mutant: the version column has no default.
Generate_NoVersion(r) ==
  /\ pc[r] = "read"
  /\ copy[r] = None
  /\ exists /\ draft = None
  /\ draft' = [text |-> writes + 1, version |-> None, url |-> NoUrls]
  /\ writes' = writes + 1
  /\ End(r, "done")
  /\ UNCHANGED <<settings, exists, receipts, remote, orphans, answer, restarts>>

\* INSERT with version 1; the unique incident_id refuses a second row.
Generate(r) ==
  /\ pc[r] = "read"
  /\ copy[r] = None
  /\ exists /\ draft = None
  /\ draft' = [text |-> writes + 1, version |-> 1, url |-> NoUrls]
  /\ writes' = writes + 1
  /\ End(r, "done")
  /\ UNCHANGED <<settings, exists, receipts, remote, orphans, answer, restarts>>

\* An edit, or a generation over an existing draft: new text, version + 1 as
\* seen by this session; the links stay.
Rewrite(r) ==
  /\ pc[r] = "read"
  /\ copy[r] # None
  /\ exists
  /\ draft' = [draft EXCEPT !.text = writes + 1, !.version = copy[r].version + 1]
  /\ writes' = writes + 1
  /\ End(r, "done")
  /\ UNCHANGED <<settings, exists, receipts, remote, orphans, answer, restarts>>

\* 404, or the commit fails.
DraftFails(r) ==
  /\ \/ pc[r] = "sent" /\ RowLockFree /\ ~exists
     \/ pc[r] = "read"
  /\ End(r, "failed")
  /\ UNCHANGED <<settings, store, remote, orphans, writes, answer, restarts>>

-----------------------------------------------------------------------------
(* Around the handlers.                                                    *)

\* A process restarts, perhaps with other credentials: its requests die where
\* they are.  A POST under way may or may not have reached the destination.
Restart(p) ==
  /\ restarts < MaxRestarts
  /\ restarts' = restarts + 1
  /\ \E k \in [Destinations -> Exporters] : exporter' = [exporter EXCEPT ![p] = k]
  /\ LET dying   == {r \in Requests : home[r] = p /\ pc[r] \notin Final}
         posting == {x \in dying \cap Exports : pc[x] = "posting" /\ Kind(x) = "real"}
     IN  /\ pc' = [r \in Requests |-> IF r \in dying THEN "failed" ELSE pc[r]]
         /\ copy' = [r \in Requests |-> IF r \in dying THEN None ELSE copy[r]]
         /\ answer' = [x \in Exports |-> IF x \in dying THEN None ELSE answer[x]]
         /\ \E sent \in SUBSET posting :
              LET made == {NewArtifact(x) : x \in sent}
              IN  /\ remote' = remote \cup made
                  /\ orphans' = orphans \cup made
                                        \cup UNION {Orphaned(x) : x \in dying \cap Exports}
  /\ UNCHANGED <<sqlite, home, target, store, writes>>

\* delete_incident, with postmortem and receipts.
DeleteIncident ==
  /\ exists
  /\ RowLockFree
  /\ exists' = FALSE
  /\ draft' = None
  /\ receipts' = [d \in Destinations |-> None]
  /\ writes' = 0
  /\ UNCHANGED <<settings, remote, orphans, pc, copy, answer, restarts>>

Export(x) == \/ Guard(x) \/ ReuseReceipt(x) \/ Refuse(x) \/ StartExport(x)
             \/ ExportDemo(x) \/ PostCreated(x) \/ PostFails(x)
             \/ StoreReceipt(x) \/ StoreFails(x)

Write(r) == ReadDraft(r) \/ Generate(r) \/ Rewrite(r) \/ DraftFails(r)

Next == \/ \E x \in Exports : Export(x)
        \/ \E r \in Drafts : Write(r)
        \/ \E p \in Processes : Restart(p)
        \/ DeleteIncident

Spec == Init /\ [][Next]_vars

\* asyncio.Lock and the row lock are granted in turn, and the HTTP call has a
\* timeout, so every request that holds a lock goes on.
FairSpec == /\ Spec
            /\ \A x \in Exports : SF_vars(Export(x))
            /\ \A r \in Drafts : SF_vars(Write(r))

-----------------------------------------------------------------------------
(* Properties.                                                             *)

\* Repeated and concurrent exports create one artifact per destination: any
\* other one is an orphan of a request that failed after the POST was sent.
NoSilentDuplicate ==
  \A a, b \in remote \ orphans : a.destination = b.destination =>
    a = b \/ ~exists

\* What the postmortem links to is what the receipts say, for every write of a
\* draft and every demo receipt that a real one replaces.
LinksAgree ==
  /\ draft # None => draft.url = receipts
  /\ draft = None => \A d \in Destinations : receipts[d] = None

\* With row locks no write of a draft is lost: the version counts them.
VersionCountsWrites == ~sqlite /\ draft # None => draft.version = writes

\* A real receipt never changes while its incident exists, whichever process
\* and credentials serve the next export.  And with row locks the artifact of
\* a new one holds the text that is stored when the receipt is: nobody edits
\* the postmortem while it is on its way.
ReceiptsAreEarned ==
  [][\A d \in Destinations :
       /\ exists' /\ receipts[d] # None /\ ~receipts[d].demo => receipts'[d] = receipts[d]
       /\ ~sqlite /\ receipts'[d] \notin {receipts[d], None} /\ ~receipts'[d].demo =>
            \E a \in remote : a.id = receipts'[d].id /\ a.text = draft.text]_vars

\* Every export ends, whichever lock it waits for and however the holder fails.
ExportsEnd == \A x \in Exports : <>(pc[x] \in Final)

=============================================================================
