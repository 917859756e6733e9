----------------------------- MODULE AlertBook -----------------------------
(***************************************************************************)
(* What POST /webhooks/{source} promises: a book of incidents, each under  *)
(* the key of the alert that opened it.  A batch is entered as a whole, a  *)
(* key that is in the book already gets no second incident, and only what  *)
(* was entered is announced.  No transaction, savepoint, attempt or lock   *)
(* is in sight.                                                            *)
(***************************************************************************)
CONSTANT KeySets     \* the keys of each batch that may be sent

VARIABLES
  incidents,    \* in the book
  alerts,       \* [key, incident], one for each
  gone,         \* what has been deleted, likewise
  announced     \* incidents

book == <<incidents, alerts, gone, announced>>

Keys(S) == {r.key : r \in S}
Ids(S)  == {r.incident : r \in S}

Init == incidents = {} /\ alerts = {} /\ gone = {} /\ announced = {}

\* A batch with these keys has added new: incidents nobody has seen, under keys
\* the book did not have.  Every other key was there, or is gone.
Enter(keys, new) ==
  /\ Keys(new) \subseteq keys \ Keys(alerts)
  /\ keys \subseteq Keys(new) \cup Keys(alerts) \cup Keys(gone)
  /\ Ids(new) \cap (incidents \cup Ids(gone)) = {}
  /\ \A r, s \in new : r.key = s.key <=> r.incident = s.incident
  /\ alerts' = alerts \cup new
  /\ incidents' = incidents \cup Ids(new)
  /\ UNCHANGED <<gone, announced>>

Delete(r) ==
  /\ r \in alerts
  /\ alerts' = alerts \ {r}
  /\ incidents' = incidents \ {r.incident}
  /\ gone' = gone \cup {r}
  /\ UNCHANGED announced

\* Incidents are announced one by one, none of them again.
Announce(i) ==
  /\ i \in (incidents \cup Ids(gone)) \ announced
  /\ announced' = announced \cup {i}
  /\ UNCHANGED <<incidents, alerts, gone>>

\* What a batch adds, and what is announced, is told by the step itself.
Next == \/ LET new == alerts' \ alerts IN
              new # {} /\ \E keys \in KeySets : Enter(keys, new)
        \/ \E r \in alerts : Delete(r)
        \/ \E i \in announced' \ announced : Announce(i)

Spec == Init /\ [][Next]_book
=============================================================================
