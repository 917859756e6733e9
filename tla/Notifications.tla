---------------------------- MODULE Notifications ----------------------------
(***************************************************************************)
(* Announcing new incidents: POST /incidents, its background task          *)
(* notify_created, the Slack and Teams webhooks, and APNs with its cached  *)
(* provider token and its semaphore; one process, which may restart.       *)
(*                                                                         *)
(* The wall clock, by which a token is dated and reused, may be off by     *)
(* offset and may be set again at any time.  The age of a token is its age *)
(* for Apple, whose clock is right: true time minus the token's iat.  Ages *)
(* of Horizon and more are one age.                                        *)
(*                                                                         *)
(* No push takes longer than LongestPush.  The code does not see to that:  *)
(* httpx limits connecting, writing and each wait for bytes by             *)
(* integration_timeout_seconds, not the whole.  LongestPush is what pushes *)
(* do take, a parameter of the environment.                                *)
(***************************************************************************)
EXTENDS Integers, FiniteSets

CONSTANTS
  Incidents,        \* POST /incidents requests
  Tokens,           \* of devices
  Channels,         \* webhooks that are configured, of Slack and Teams
  ApnsConfigured,   \* all four APNs settings are given
  Slots,            \* of the semaphore: 10
  LongestPush,      \* the longest a push takes
  Refresh,          \* age at which a token is replaced: 2400 s
  Horizon,          \* bound of the model: no older age is told apart
  MaxBehind,        \* bounds of the wall clock's error
  MaxAhead,
  NoToken           \* nothing is cached

ASSUME NotificationsAssumption ==
  /\ IsFiniteSet(Tokens)
  /\ ApnsConfigured \in BOOLEAN
  /\ Slots \in Nat \ {0} /\ LongestPush \in Nat \ {0}
  /\ Refresh \in Nat \ {0} /\ Horizon \in Nat
  /\ MaxBehind \in Nat /\ MaxAhead \in Nat

\* How often the semaphore's slots are filled to serve all devices.
Rounds == (Cardinality(Tokens) + Slots - 1) \div Slots

\* Age that no token in use reaches: it is renewed at Refresh by a clock that
\* may be behind, and then queues with pushes that all take as long as can be.
OldestToken == Refresh + MaxBehind + Rounds * LongestPush

\* A bound of the model: ages that matter can be told apart.
ASSUME HorizonAssumption == OldestToken <= Horizon

Ages == (0 - MaxAhead) .. Horizon

ASSUME NoTokenAssumption == NoToken \notin Int

VARIABLES
  devices,     \* rows of the table
  offset,      \* wall clock minus true time
  cache,       \* _JWT_CACHE: the age of the token in it
  pc,          \* of each incident and its task
  post,        \* of each task and channel
  apns,        \* of each task: its APNsNotifier
  push,        \* of each task and device
  since,       \* of a push that is sent: for how long
  bearer,      \* of each task: the age of the token it uses
  ahead,       \* history: the clock was ahead when the task got it
  owed         \* history: devices there since the commit and all along

world == <<devices, offset>>
task  == <<pc, post, apns, push, since, bearer, ahead>>
vars  == <<world, cache, task, owed>>

TypeOK ==
  /\ devices \subseteq Tokens
  /\ offset \in (0 - MaxBehind) .. MaxAhead
  /\ cache \in Ages \cup {NoToken}
  /\ pc \in [Incidents -> {"new", "created", "notifying", "ended", "unread", "lost"}]
  /\ post \in [Incidents -> [Channels -> {"none", "waiting", "tried"}]]
  /\ apns \in [Incidents -> {"none", "waiting", "pushing", "failed"}]
  /\ push \in [Incidents -> [Tokens -> {"none", "queued", "sent", "tried"}]]
  /\ since \in [Incidents -> [Tokens -> 0 .. LongestPush]]
  /\ bearer \in [Incidents -> Ages \cup {NoToken}]
  /\ ahead \in [Incidents -> BOOLEAN]
  /\ owed \in [Incidents -> SUBSET Tokens]
  /\ \A i \in Incidents : Cardinality({t \in Tokens : push[i][t] = "sent"}) <= Slots

Init ==
  /\ devices \in SUBSET Tokens
  /\ offset = 0
  /\ cache = NoToken
  /\ pc = [i \in Incidents |-> "new"]
  /\ post = [i \in Incidents |-> [c \in Channels |-> "none"]]
  /\ apns = [i \in Incidents |-> "none"]
  /\ push = [i \in Incidents |-> [t \in Tokens |-> "none"]]
  /\ since = [i \in Incidents |-> [t \in Tokens |-> 0]]
  /\ bearer = [i \in Incidents |-> NoToken]
  /\ ahead = [i \in Incidents |-> FALSE]
  /\ owed = [i \in Incidents |-> {}]

-----------------------------------------------------------------------------
(* The request and its background task.                                    *)

\* create_incident commits and adds the task to its response.
CreateIncident(i) ==
  /\ pc[i] = "new"
  /\ pc' = [pc EXCEPT ![i] = "created"]
  /\ owed' = [owed EXCEPT ![i] = devices]
  /\ UNCHANGED <<world, cache, post, apns, push, since, bearer, ahead>>

\* The devices are read in a session of their own; then all notifiers start.
StartNotifiers(i) ==
  /\ pc[i] = "created"
  /\ pc' = [pc EXCEPT ![i] = "notifying"]
  /\ post' = [post EXCEPT ![i] = [c \in Channels |-> "waiting"]]
  /\ IF ApnsConfigured /\ devices # {}
     THEN /\ apns' = [apns EXCEPT ![i] = "waiting"]
          /\ push' = [push EXCEPT ![i] =
                        [t \in Tokens |-> IF t \in devices THEN "queued" ELSE "none"]]
     ELSE UNCHANGED <<apns, push>>
  /\ UNCHANGED <<world, cache, since, bearer, ahead, owed>>

\* The read fails: nobody is told, on no channel.
ReadFails(i) ==
  /\ pc[i] = "created"
  /\ pc' = [pc EXCEPT ![i] = "unread"]
  /\ UNCHANGED <<world, cache, post, apns, push, since, bearer, ahead, owed>>

\* WebhookNotifier: one POST; whether it succeeds is of no consequence.
Post(i, c) ==
  /\ post[i][c] = "waiting"
  /\ post' = [post EXCEPT ![i][c] = "tried"]
  /\ UNCHANGED <<world, cache, pc, apns, push, since, bearer, ahead, owed>>

-----------------------------------------------------------------------------
(* APNsNotifier.                                                           *)

\* Mutant: any token younger than Refresh will do, one from the future too.
Reusable_AnyYoung == cache # NoToken /\ cache + offset < Refresh

\* 0 <= now - cached[0] < 2_400, by the wall clock.
Reusable == cache # NoToken /\ cache + offset >= 0 /\ cache + offset < Refresh

\* A new token is dated by the wall clock.
Token == IF Reusable THEN cache ELSE 0 - offset

GetToken(i) ==
  /\ apns[i] = "waiting"
  /\ cache' = Token
  /\ bearer' = [bearer EXCEPT ![i] = Token]
  /\ ahead' = [ahead EXCEPT ![i] = offset > 0]
  /\ apns' = [apns EXCEPT ![i] = "pushing"]
  /\ UNCHANGED <<world, pc, post, push, since, owed>>

\* jwt.encode does not take the key: the cache stays as it is.
KeyFails(i) ==
  /\ apns[i] = "waiting"
  /\ ~Reusable
  /\ apns' = [apns EXCEPT ![i] = "failed"]
  /\ push' = [push EXCEPT ![i] = [t \in Tokens |-> "none"]]
  /\ UNCHANGED <<world, cache, pc, post, since, bearer, ahead, owed>>

\* Mutant: no semaphore.
MayPush_Unbounded(i, t) == apns[i] = "pushing" /\ push[i][t] = "queued"

\* The semaphore has a slot for a push that waits.
MayPush(i, t) ==
  /\ apns[i] = "pushing"
  /\ push[i][t] = "queued"
  /\ Cardinality({u \in Tokens : push[i][u] = "sent"}) < Slots

StartPush(i, t) ==
  /\ MayPush(i, t)
  /\ push' = [push EXCEPT ![i][t] = "sent"]
  /\ UNCHANGED <<world, cache, pc, post, apns, since, bearer, ahead, owed>>

\* Mutant: gather(...) without return_exceptions, so that the first failure
\* leaves the block of the HTTP client and ends the other pushes with it.
EndPush_Raises(i, t) ==
  /\ push[i][t] = "sent"
  /\ \E fails \in BOOLEAN :
       push' = [push EXCEPT ![i] = [u \in Tokens |->
                  IF u = t THEN "tried"
                  ELSE IF fails /\ @[u] # "tried" THEN "none" ELSE @[u]]]
  /\ since' = [since EXCEPT ![i][t] = 0]
  /\ UNCHANGED <<world, cache, pc, post, apns, bearer, ahead, owed>>

\* Apple answers or refuses, or the client gives up: all the same to the rest.
EndPush(i, t) ==
  /\ push[i][t] = "sent"
  /\ push' = [push EXCEPT ![i][t] = "tried"]
  /\ since' = [since EXCEPT ![i][t] = 0]
  /\ UNCHANGED <<world, cache, pc, post, apns, bearer, ahead, owed>>

\* Both gather(...) have every result.  What the task used is forgotten.
Gather(i) ==
  /\ pc[i] = "notifying"
  /\ \A c \in Channels : post[i][c] # "waiting"
  /\ apns[i] # "waiting"
  /\ \A t \in Tokens : push[i][t] \notin {"queued", "sent"}
  /\ pc' = [pc EXCEPT ![i] = "ended"]
  /\ bearer' = [bearer EXCEPT ![i] = NoToken]
  /\ ahead' = [ahead EXCEPT ![i] = FALSE]
  /\ UNCHANGED <<world, cache, post, apns, push, since, owed>>

-----------------------------------------------------------------------------
(* Devices, clocks and the process.                                        *)

RegisterDevice(t) ==
  /\ devices' = devices \cup {t}
  /\ UNCHANGED <<offset, cache, task, owed>>

UnregisterDevice(t) ==
  /\ devices' = devices \ {t}
  /\ owed' = [i \in Incidents |-> IF pc[i] = "created" THEN owed[i] \ {t} ELSE owed[i]]
  /\ UNCHANGED <<offset, cache, task>>

Older(age) == IF age = NoToken \/ age = Horizon THEN age ELSE age + 1

\* Time passes; but a free slot is taken at once, and no push takes longer than
\* LongestPush (the environment's part, see above).
Tick ==
  /\ \A i \in Incidents, t \in Tokens : ~MayPush(i, t) /\ since[i][t] < LongestPush
  /\ cache' = Older(cache)
  /\ bearer' = [i \in Incidents |-> Older(bearer[i])]
  /\ since' = [i \in Incidents |-> [t \in Tokens |->
                 IF push[i][t] = "sent" THEN since[i][t] + 1 ELSE 0]]
  /\ UNCHANGED <<world, pc, post, apns, push, ahead, owed>>

SetClock ==
  /\ offset' \in (0 - MaxBehind) .. MaxAhead
  /\ UNCHANGED <<devices, cache, task, owed>>

\* The process starts anew: tasks and cache are gone, the incidents are not.
Restart ==
  LET running == {i \in Incidents : pc[i] \in {"created", "notifying"}} IN
  /\ cache' = NoToken
  /\ pc' = [i \in Incidents |-> IF i \in running THEN "lost" ELSE pc[i]]
  /\ post' = [i \in Incidents |-> [c \in Channels |->
                IF i \in running THEN "none" ELSE post[i][c]]]
  /\ apns' = [i \in Incidents |-> IF i \in running THEN "none" ELSE apns[i]]
  /\ push' = [i \in Incidents |-> [t \in Tokens |->
                IF i \in running THEN "none" ELSE push[i][t]]]
  /\ since' = [i \in Incidents |-> [t \in Tokens |-> 0]]
  /\ bearer' = [i \in Incidents |-> NoToken]
  /\ ahead' = [i \in Incidents |-> FALSE]
  /\ UNCHANGED <<world, owed>>

Notify(i) == \/ StartNotifiers(i) \/ ReadFails(i) \/ GetToken(i) \/ KeyFails(i)
             \/ \E c \in Channels : Post(i, c)
             \/ \E t \in Tokens : StartPush(i, t) \/ EndPush(i, t)
             \/ Gather(i)

Next == \/ \E i \in Incidents : CreateIncident(i) \/ Notify(i)
        \/ \E t \in Tokens : RegisterDevice(t) \/ UnregisterDevice(t)
        \/ Tick \/ SetClock \/ Restart

Spec == Init /\ [][Next]_vars

-----------------------------------------------------------------------------
(* Properties.                                                             *)

\* While a push is under way its token is not from the future and younger than
\* OldestToken, however long it was cached, the pushes queued and the clock was
\* set about, unless it was ahead when the task got the token.  (Apple takes
\* tokens for an hour.  Nothing in the code keeps OldestToken below that: it
\* grows with the number of devices.)
TokenAgeBounded ==
  \A i \in Incidents, t \in Tokens :
    push[i][t] = "sent" /\ ~ahead[i] => bearer[i] \in 0 .. (OldestToken - 1)

\* When the task ends, every channel has been tried, and unless the key is
\* unusable every device that was registered all along, though other channels
\* and devices failed.
EveryoneIsTold ==
  \A i \in Incidents : pc[i] = "ended" =>
    /\ \A c \in Channels : post[i][c] = "tried"
    /\ ApnsConfigured /\ apns[i] # "failed" =>
         \A t \in owed[i] : push[i][t] = "tried"

=============================================================================
