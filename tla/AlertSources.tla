---------------------------- MODULE AlertSources ----------------------------
(***************************************************************************)
(* The adapters of POST /webhooks/{source}: what they refuse, what they    *)
(* drop, and the external_id they give an alert, by which a redelivery is  *)
(* recognised.                                                             *)
(*                                                                         *)
(* A payload is [source, alerts].  An alert, as its provider sends it, is  *)
(*   id     the provider's identifier: external_id, fingerprint, event_id, *)
(*          alarm id, ARN or name                                          *)
(*   since  startsAt, StateChangeTime or the state's timestamp             *)
(*   state  "firing" or "resolved"                                         *)
(*   note   everything else in it                                          *)
(*   form   "good", "malformed" (the adapter or NormalizedAlert raises) or *)
(*          "bad_logs" (only LogInput, inside the transaction, raises)     *)
(* where id, since and state may be Absent.                                *)
(***************************************************************************)
EXTENDS Naturals, Sequences, FiniteSets

CONSTANTS
  Absent,      \* a field that is missing, null or empty
  MaxAlerts    \* Grafana's limit for one payload

ASSUME SourcesAssumption ==
  /\ MaxAlerts \in Nat \ {0}
  /\ Absent \notin {"firing", "resolved"}

Sources == {"generic", "grafana", "sentry", "cloudwatch", "zabbix"}

\* The adapters whose alerts carry the time at which they started.
Timed == {"grafana", "cloudwatch"}

-----------------------------------------------------------------------------
(* Identity.                                                               *)

\* A part that is missing leaves no trace.
Part(x) == IF x = Absent THEN <<>> ELSE <<x>>

\* Mutant: startsAt is left out, the fingerprint alone identifies an alert.
Parts_Undated(source, raw) ==
  CASE source = "cloudwatch" -> Part(raw.id) \o Part(raw.since) \o Part(raw.state)
    [] OTHER                 -> Part(raw.id)

\* What each adapter hands to _id.
Parts(source, raw) ==
  CASE source = "grafana"    -> Part(raw.id) \o Part(raw.since)
    [] source = "cloudwatch" -> Part(raw.id) \o Part(raw.since) \o Part(raw.state)
    [] OTHER                 -> Part(raw.id)

\* The parts that are given, joined: which of them is missing is lost.  When
\* none is given it is a hash of the whole alert; one of a text that is too
\* long says the same as the text.
ExternalId(source, raw) ==
  LET chosen == Parts(source, raw)
  IN  [parts |-> chosen, hash |-> IF chosen = <<>> THEN <<raw>> ELSE <<>>]

-----------------------------------------------------------------------------
(* What is refused and what is dropped.                                    *)

Resolved(raw) == raw.state = "resolved"

Normalized(source, raw) ==
  [key   |-> [source |-> source, external_id |-> ExternalId(source, raw)],
   valid |-> raw.form = "good",
   raw   |-> raw]

\* None of the alerts that are kept may raise.
Normalize(source, kept) ==
  IF \E n \in DOMAIN kept : kept[n].form = "malformed"
  THEN <<>>
  ELSE [n \in DOMAIN kept |-> Normalized(source, kept[n])]

\* The positions of the alerts that fire, and the k-th of some positions.
Firing(alerts) == {n \in DOMAIN alerts : ~Resolved(alerts[n])}
Nth(P, k)      == CHOOSE n \in P : Cardinality({m \in P : m <= n}) = k

\* Alerts that have ended are dropped; without a firing one it raises.
Grafana(alerts) ==
  LET P == Firing(alerts) IN
  IF Len(alerts) > MaxAlerts
  THEN <<>>
  ELSE Normalize("grafana", [k \in 1 .. Cardinality(P) |-> alerts[Nth(P, k)]])

Generic(alerts) == Normalize("generic", alerts)

\* Events that are closed are refused; the identifier may be missing.
Sentry(alerts) ==
  IF Resolved(Head(alerts)) THEN <<>> ELSE Normalize("sentry", alerts)

\* The alarm's name stands in for a missing id: there always is one.
CloudWatch(alerts) ==
  IF Resolved(Head(alerts)) \/ Head(alerts).id = Absent
  THEN <<>> ELSE Normalize("cloudwatch", alerts)

Zabbix(alerts) ==
  IF Resolved(Head(alerts)) \/ Head(alerts).id = Absent
  THEN <<>> ELSE Normalize("zabbix", alerts)

\* get_source(source).normalize(payload); <<>> stands for a ValueError.
Batch(payload) ==
  LET alerts == payload.alerts IN
  IF alerts = <<>> THEN <<>>
  ELSE CASE payload.source = "generic"      -> Generic(alerts)
         [] payload.source = "grafana"      -> Grafana(alerts)
         [] payload.source = "sentry"       -> Sentry(alerts)
         [] payload.source = "cloudwatch"   -> CloudWatch(alerts)
         [] payload.source = "zabbix"       -> Zabbix(alerts)
         [] OTHER                           -> <<>>

-----------------------------------------------------------------------------
(* What a provider means by its alerts, independently of the adapters.     *)

\* One occurrence of a problem: what was identified, and since when.  An
\* alert nobody identified is no more than its own text.
Occurrence(alert) ==
  LET source == alert.key.source  raw == alert.raw IN
  IF raw.id = Absent
  THEN [source |-> source, id |-> Absent, since |-> Absent, text |-> <<raw>>]
  ELSE [source |-> source, id |-> raw.id, text |-> <<>>,
        since |-> IF source \in Timed THEN raw.since ELSE Absent]

\* A start time without an identifier is all that _id would go by.
Nameless(alert) == alert.raw.id = Absent /\ alert.key.external_id.hash = <<>>

=============================================================================
