-------------------------- MODULE MCAlertIngestion --------------------------
(***************************************************************************)
(* AlertIngestion with two deliveries that overlap in every way: the same  *)
(* alerts in both orders, one of them later again or resolved, one twice,  *)
(* one invalid; single events with and without an identifier; and the      *)
(* payloads each adapter refuses, beside one that it takes.                *)
(***************************************************************************)
EXTENDS AlertIngestion, TLC

CONSTANTS a, b, d1, d2   \* two identifiers, two deliveries

Raw(id, since, state, note, form) ==
  [id |-> id, since |-> since, state |-> state, note |-> note, form |-> form]

Fires(id, since)   == Raw(id, since, "firing", 1, "good")
Ended(id, since)   == Raw(id, since, "resolved", 1, "good")
Event(id, note)    == Raw(id, Absent, Absent, note, "good")
Broken(raw, form)  == [raw EXCEPT !.form = form]
Sends(source, raws) == [source |-> source, alerts |-> raws]

Both     == Sends("grafana", <<Fires(a, 1), Fires(b, 1)>>)
Reversed == Sends("grafana", <<Fires(b, 1), Fires(a, 1)>>)
Later    == Sends("grafana", <<Ended(a, 1), Fires(a, 2)>>)
Twice    == Sends("grafana", <<Fires(a, 2), [Fires(a, 2) EXCEPT !.note = 2]>>)
BadLogs  == Sends("grafana", <<Fires(a, 1), Broken(Fires(b, 1), "bad_logs")>>)
Unnamed  == Sends("grafana", <<Fires(Absent, 1), [Fires(Absent, 1) EXCEPT !.note = 2]>>)
NoTimes  == Sends("grafana", <<Event(a, 1), Event(Absent, 1)>>)

Pairs ==
  {<<Both, Reversed>>, <<Both, Later>>, <<Both, BadLogs>>,
   <<Later, Twice>>, <<BadLogs, Reversed>>, <<Unnamed, NoTimes>>,
   <<Sends("cloudwatch", <<Fires(a, 1)>>), Sends("cloudwatch", <<Fires(a, 2)>>)>>,
   <<Sends("cloudwatch", <<Fires(a, 1)>>), Sends("sentry", <<Event(a, 1)>>)>>,
   <<Sends("zabbix", <<Event(a, 1)>>), Sends("zabbix", <<Event(a, 2)>>)>>,
   <<Sends("generic", <<Event(Absent, 1)>>), Sends("generic", <<Event(Absent, 2)>>)>>,
   <<Sends("sentry", <<Event(Absent, 1)>>), Sends("sentry", <<Event(Absent, 1)>>)>>}

Refused ==
  {Sends("unknown", <<Event(a, 1)>>), Sends("grafana", <<>>),
   Sends("grafana", <<Ended(a, 1)>>),
   Sends("grafana", <<Fires(a, 1), Broken(Fires(b, 1), "malformed")>>),
   Sends("grafana", <<Fires(a, 1), Fires(a, 2), Fires(b, 1)>>),
   Sends("generic", <<Broken(Event(a, 1), "malformed")>>),
   Sends("sentry", <<Ended(a, Absent)>>), Sends("zabbix", <<Event(Absent, 1)>>),
   Sends("cloudwatch", <<Ended(a, 1)>>)}

Scenario(x, y) == (d1 :> x) @@ (d2 :> y)

MCScenarios == {Scenario(pair[1], pair[2]) : pair \in Pairs}
          \cup {Scenario(x, Sends("generic", <<Event(a, 1)>>)) : x \in Refused}

MCAlone == {d1 :> Both}
=============================================================================
