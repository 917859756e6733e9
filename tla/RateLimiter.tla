----------------------------- MODULE RateLimiter -----------------------------
(***************************************************************************)
(* The rate limit that RequestMiddleware puts before every /api/ request,  *)
(* by host: a sliding window in the memory of one process, or, with        *)
(* REDIS_URL, one fixed window for all processes in Redis.                 *)
(*                                                                         *)
(* The limiter in memory forgets idle hosts while it answers another one.  *)
(* The Redis script is atomic; when its answer is lost the request counts. *)
(* Time is a clock of whole ticks; Window ticks stand for 60 seconds.      *)
(***************************************************************************)
EXTENDS Naturals, Sequences, FiniteSets, SequencesExt, FiniteSetsExt

CONSTANTS
  Hosts,       \* client addresses
  Limit,       \* rate_limit_per_minute
  Window,      \* sixty seconds, in ticks
  Backends,    \* a subset of {"memory", "redis"}
  MaxTime,     \* bound: the last tick
  MaxFailures  \* bound: a host's requests that fail with Redis in one Window

ASSUME LimiterAssumption ==
  /\ Limit \in Nat \ {0} /\ Window \in Nat \ {0} /\ MaxTime \in Nat /\ MaxFailures \in Nat
  /\ Backends \subseteq {"memory", "redis"}

VARIABLES
  backend,        \* which limiter the settings select
  now,            \* time.monotonic()
  windows,        \* the times of each host's accepted requests, oldest first
  last_cleanup,   \* when idle hosts were last forgotten
  counter,        \* in Redis: each host's count and when it expires
  accepted,       \* history: the times of those accepted in the last Window
  failed,         \* history: the times of those answered 503
  refused         \* the hosts answered 429 at this tick

limiter == <<backend, now, windows, last_cleanup, counter>>
vars    == <<limiter, accepted, failed, refused>>

Ticks == 0 .. MaxTime

InOrder(s) == \A i, k \in DOMAIN s : i <= k => s[i] <= s[k]

TypeOK ==
  /\ backend \in {"memory", "redis"}
  /\ now \in Ticks /\ last_cleanup \in Ticks
  /\ DOMAIN windows = Hosts
  /\ \A h \in Hosts : /\ windows[h] \in Seq(Ticks) /\ Len(windows[h]) <= Limit
                      /\ InOrder(windows[h])
  /\ counter \in [Hosts -> [count : Nat, expires : Nat]]
  /\ accepted \in [Hosts -> Seq(Ticks)] /\ failed \in [Hosts -> Seq(Ticks)]
  /\ refused \subseteq Hosts

Init ==
  /\ backend \in Backends
  /\ now = 0 /\ last_cleanup = 0
  /\ windows = [h \in Hosts |-> << >>]
  /\ counter = [h \in Hosts |-> [count |-> 0, expires |-> 0]]
  /\ accepted = [h \in Hosts |-> << >>] /\ failed = [h \in Hosts |-> << >>]
  /\ refused = {}

Accept(h) == /\ accepted' = [accepted EXCEPT ![h] = Append(@, now)]
             /\ UNCHANGED <<failed, refused>>

Refuse(h) == /\ refused' = refused \cup {h}
             /\ UNCHANGED <<accepted, failed>>

Answer(h, limited) == IF limited THEN Refuse(h) ELSE Accept(h)

-----------------------------------------------------------------------------
(* MemoryRateLimiter.exceeded                                              *)

CleanupDue == now > last_cleanup + Window

\* Mutant: a host is kept while its oldest request is recent.
Cleaned_ByOldest ==
  [h \in Hosts |-> IF windows[h] # << >> /\ Head(windows[h]) + Window > now
                   THEN windows[h] ELSE << >>]

\* The windows of the hosts whose last request is recent; a host without one
\* has the empty window that defaultdict makes.
Cleaned ==
  [h \in Hosts |-> IF windows[h] # << >> /\ Last(windows[h]) + Window > now
                   THEN windows[h] ELSE << >>]

\* Mutant: only the host that asks is cleaned up.
Swept_OnlyAsker(h) ==
  IF CleanupDue THEN [windows EXCEPT ![h] = Cleaned[h]] ELSE windows

Swept(h) == IF CleanupDue THEN Cleaned ELSE windows

\* popleft as long as the first time is a Window ago.
Popped(w) ==
  LET n == CHOOSE k \in 0 .. Len(w) : /\ \A i \in 1 .. k : w[i] + Window <= now
                                      /\ k < Len(w) => w[k + 1] + Window > now
  IN  SubSeq(w, n + 1, Len(w))

\* Mutant: off by one.
Full_OffByOne(w) == Len(w) > Limit

Full(w) == Len(w) >= Limit

MemoryRequest(h) ==
  /\ backend = "memory"
  /\ last_cleanup' = IF CleanupDue THEN now ELSE last_cleanup
  /\ LET kept    == Swept(h)
         window  == Popped(kept[h])
     IN  /\ windows' = [kept EXCEPT ![h] = IF Full(window) THEN window ELSE Append(window, now)]
         /\ Answer(h, Full(window))
  /\ UNCHANGED <<backend, now, counter>>

-----------------------------------------------------------------------------
(* RATE_SCRIPT                                                             *)

Expired(h) == counter[h].count = 0 \/ now >= counter[h].expires

\* Mutant: every request renews the expiry.
Counted_Renewed(h) ==
  IF Expired(h) THEN [count |-> 1, expires |-> now + Window]
                ELSE [count |-> counter[h].count + 1, expires |-> now + Window]

\* INCR, and EXPIRE when the key is new.
Counted(h) ==
  IF Expired(h) THEN [count |-> 1, expires |-> now + Window]
                ELSE [counter[h] EXCEPT !.count = @ + 1]

\* Counting beyond the first refusal changes no answer: the model stops there.
CountBound == Limit + 1

Store(h, key) == [counter EXCEPT ![h] = [key EXCEPT !.count = Min({@, CountBound})]]

RedisRequest(h) ==
  /\ backend = "redis"
  /\ LET key == Counted(h)
     IN  /\ counter' = Store(h, key)
         /\ Answer(h, key.count > Limit)
  /\ UNCHANGED <<backend, now, windows, last_cleanup>>

\* RedisError: answered 503, whether or not the script ran.
RedisFails(h) ==
  /\ backend = "redis"
  /\ Len(failed[h]) < MaxFailures
  /\ failed' = [failed EXCEPT ![h] = Append(@, now)]
  /\ counter' \in {counter, Store(h, Counted(h))}
  /\ UNCHANGED <<backend, now, windows, last_cleanup, accepted, refused>>

\* The times of s in the Window that ends with t.
Latest(s, t) == SubSeq(s, Cardinality({i \in DOMAIN s : s[i] + Window <= t}) + 1, Len(s))

Tick ==
  /\ now < MaxTime
  /\ now' = now + 1
  /\ accepted' = [h \in Hosts |-> Latest(accepted[h], now + 1)]
  /\ failed' = [h \in Hosts |-> Latest(failed[h], now + 1)]
  /\ refused' = {}
  /\ UNCHANGED <<backend, windows, last_cleanup, counter>>

Next == \/ \E h \in Hosts : MemoryRequest(h) \/ RedisRequest(h) \/ RedisFails(h)
        \/ Tick

Spec == Init /\ [][Next]_vars

-----------------------------------------------------------------------------
(* Properties.                                                             *)

\* No minute holds more accepted requests of a host than the limit, or twice
\* the limit where a minute overlaps two of the fixed windows in Redis,
\* whatever the cleanup forgets and whichever answers are lost.
NeverTooMany ==
  \A h \in Hosts :
    Len(accepted[h]) <= IF backend = "memory" THEN Limit ELSE 2 * Limit

\* A 429 means what it says: Limit requests of this host in the last minute
\* were let through or failed with Redis.  So a client that waits the
\* Retry-After of 60 seconds is not refused.
RefusedOnlyWhenFull ==
  \A h \in refused : Len(accepted[h]) + Len(failed[h]) >= Limit

\* The limiter in memory keeps a host at most two minutes after its last
\* accepted request, as long as it answers anybody.
IdleHostsForgotten ==
  \A h, g \in Hosts :
    windows[h] # << >> /\ windows[g] # << >> =>
      Last(windows[h]) + 2 * Window >= Last(windows[g])

=============================================================================
