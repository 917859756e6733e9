---------------------------- MODULE ProviderCalls ----------------------------
(***************************************************************************)
(* The HTTP calls behind one analysis or one export.  request_json sends a *)
(* request and replays it after transient errors, as often as its caller   *)
(* allows; an exporter allows none.  ResilientLLMClient puts a deadline    *)
(* around the model's call and answers its failures with a fallback;       *)
(* analyze_incident then asks for an embedding it can do without.          *)
(*                                                                         *)
(* Time is counted in ticks of 250 ms from the start of each call.  The    *)
(* service may answer late or never; only the deadline ends such a call.   *)
(***************************************************************************)
EXTENDS Integers, Sequences, SequencesExt, FiniteSetsExt

CONSTANTS
  Kinds,       \* which of {"analysis", "export"} to start
  Retries,     \* values of settings.llm_max_retries
  Headers,     \* values of a Retry-After header, in ticks
  NoHeader,    \* no such header, or no number in it
  Deadline     \* settings.llm_timeout_seconds, in ticks

ASSUME CallsAssumption ==
  /\ Kinds \subseteq {"analysis", "export"}
  /\ Retries \subseteq 0 .. 5
  /\ Headers \subseteq Int /\ NoHeader \notin Headers
  /\ Deadline \in Nat \ {0}

Stages == {"analyze", "embed", "export"}

\* transient: status 408, 429, 500, 502, 503, 504; broken: httpx.RequestError;
\* rejected: any other status, an oversized body, no JSON object; invalid: an
\* object the client refuses to parse; odd: one on which .get is no method.
Responses == {"transient", "broken", "rejected", "invalid", "odd", "valid"}

VARIABLES
  kind, llm_max_retries,
  configured,   \* the stages whose credentials are set
  stage,        \* which call this is
  pc,           \* of request_json: ready, waiting, sleeping; done: after all
  attempt,
  elapsed,      \* ticks since this stage began
  delay,        \* ticks of the current sleep that are left
  sent,         \* history: requests sent in each stage
  log,          \* history: what came back in each stage
  report,       \* none, then model or fallback, created, or failed
  vector        \* the incident gets an embedding

settings == <<kind, llm_max_retries, configured>>
vars == <<settings, stage, pc, attempt, elapsed, delay, sent, log, report, vector>>

TypeOK ==
  /\ kind \in {"analysis", "export"} /\ llm_max_retries \in 0 .. 5
  /\ configured \subseteq Stages
  /\ stage \in Stages
  /\ pc \in {"ready", "waiting", "sleeping", "done"}
  /\ attempt \in 0 .. 3
  /\ elapsed \in 0 .. Deadline
  /\ delay \in 0 .. 12
  /\ sent \in [Stages -> Nat]
  /\ log \in [Stages -> Seq(Responses)]
  /\ report \in {"none", "model", "fallback", "created", "failed"}
  /\ vector \in BOOLEAN

Init ==
  /\ kind \in Kinds /\ llm_max_retries \in Retries
  /\ configured \in SUBSET Stages
  /\ kind = "export" => "export" \in configured
  /\ stage = IF kind = "export" THEN "export" ELSE "analyze"
  /\ pc = "ready" /\ attempt = 0 /\ elapsed = 0 /\ delay = 0
  /\ sent = [s \in Stages |-> 0] /\ log = [s \in Stages |-> << >>]
  /\ report = "none" /\ vector = FALSE

-----------------------------------------------------------------------------
(* What becomes of a call.                                                 *)

\* The next call of the same analysis.
Continue(s) == /\ stage' = s /\ pc' = "ready"
               /\ attempt' = 0 /\ elapsed' = 0 /\ delay' = 0

Finish == pc' = "done" /\ UNCHANGED <<stage, attempt, elapsed, delay>>

\* The body parses.
Succeed ==
  \/ stage = "analyze" /\ report' = "model" /\ Continue("embed") /\ UNCHANGED vector
  \/ stage = "embed" /\ vector' = TRUE /\ Finish /\ UNCHANGED report
  \/ stage = "export" /\ report' = "created" /\ Finish /\ UNCHANGED vector

\* An exception of the kinds the wrapper catches.
Fail ==
  \/ stage = "analyze" /\ report' = "fallback" /\ Continue("embed") /\ UNCHANGED vector
  \/ stage = "embed" /\ Finish /\ UNCHANGED <<report, vector>>
  \/ stage = "export" /\ report' = "failed" /\ Finish /\ UNCHANGED vector

\* AttributeError, which it does not catch; analyze_incident catches it around
\* the embedding only.
Escape ==
  /\ Finish
  /\ report' = IF stage = "embed" THEN report ELSE "failed"
  /\ UNCHANGED vector

-----------------------------------------------------------------------------
(* request_json                                                            *)

Clamp(n, low, high) == Min({Max({n, low}), high})

\* The retries argument of this caller, within 0 .. 3.
Allowed == Clamp(IF stage = "export" THEN 0 ELSE llm_max_retries, 0, 3)

\* Mutant: one attempt too many.
MayReplay_OneMore == attempt <= Allowed

MayReplay == attempt < Allowed

\* 0.25 * 2 ** attempt seconds, at most 2, for an attempt of 0 to 3.
Backoff == <<1, 2, 4, 8>>[attempt + 1]

\* Mutant: Retry-After is trusted.
Delay_Unclamped(header) == IF header = NoHeader THEN Backoff ELSE header

\* Retry-After between 0 and 3 seconds.
Delay(header) == IF header = NoHeader THEN Backoff ELSE Clamp(header, 0, 12)

\* The provider's client refuses to call without credentials.
Unconfigured ==
  /\ pc = "ready" /\ stage \notin configured
  /\ Fail
  /\ UNCHANGED <<settings, sent, log>>

Send ==
  /\ pc = "ready" /\ stage \in configured
  /\ pc' = "waiting"
  /\ sent' = [sent EXCEPT ![stage] = @ + 1]
  /\ UNCHANGED <<settings, stage, attempt, elapsed, delay, log, report, vector>>

Received(r) == log' = [log EXCEPT ![stage] = Append(@, r)]

\* A transient status, whose header counts, or a broken connection.
Replay ==
  /\ pc = "waiting" /\ MayReplay
  /\ \/ \E h \in Headers \cup {NoHeader} : Received("transient") /\ delay' = Delay(h)
     \/ Received("broken") /\ delay' = Backoff
  /\ pc' = "sleeping"
  /\ UNCHANGED <<settings, stage, attempt, elapsed, sent, report, vector>>

\* The same on the last attempt, or an answer that no replay could mend.
GiveUp ==
  /\ pc = "waiting"
  /\ \E r \in Responses \ {"odd", "valid"} :
       /\ r \in {"transient", "broken"} => ~MayReplay
       /\ Received(r)
  /\ Fail
  /\ UNCHANGED <<settings, sent>>

Accept ==
  /\ pc = "waiting"
  /\ Received("valid") /\ Succeed
  /\ UNCHANGED <<settings, sent>>

Stumble ==
  /\ pc = "waiting" /\ stage # "export"
  /\ Received("odd") /\ Escape
  /\ UNCHANGED <<settings, sent>>

Wake ==
  /\ pc = "sleeping" /\ delay = 0
  /\ pc' = "ready"
  /\ attempt' = attempt + 1
  /\ UNCHANGED <<settings, stage, elapsed, delay, sent, log, report, vector>>

-----------------------------------------------------------------------------
(* asyncio.timeout                                                         *)

\* Mutant: embed is called without a deadline.
Timed_AnalyzeOnly == {"analyze"}

Timed == {"analyze", "embed"}

\* Mutant: TimeoutError is not caught.
Expire_Escapes ==
  /\ pc \in {"waiting", "sleeping"} /\ stage \in Timed
  /\ elapsed = Deadline
  /\ Escape
  /\ UNCHANGED <<settings, sent, log>>

\* The call is cancelled, a request under way and a sleep included.
Expire ==
  /\ pc \in {"waiting", "sleeping"} /\ stage \in Timed
  /\ elapsed = Deadline
  /\ Fail
  /\ UNCHANGED <<settings, sent, log>>

\* Timers fire in time: no tick goes past the deadline or the end of a sleep.
Tick ==
  /\ stage \in Timed /\ elapsed < Deadline
  /\ \/ pc = "waiting" /\ UNCHANGED delay
     \/ pc = "sleeping" /\ delay > 0 /\ delay' = delay - 1
  /\ elapsed' = elapsed + 1
  /\ UNCHANGED <<settings, stage, pc, attempt, sent, log, report, vector>>

Answer == Replay \/ GiveUp \/ Accept \/ Stumble
Run    == Unconfigured \/ Send \/ Wake \/ Expire \/ Tick

Next == Answer \/ Run

Spec == Init /\ [][Next]_vars

\* The event loop runs and its timers fire.  A model's service may hang for
\* ever; an exporter's request ends by the client's own timeouts.
FairSpec == Spec /\ WF_vars(Run) /\ WF_vars(stage = "export" /\ Answer)

-----------------------------------------------------------------------------
(* Properties.                                                             *)

\* A request is sent again only after an error that may pass, at most three
\* times, and one that creates something at the other side never is.
ReplaysAreJustified ==
  \A s \in Stages :
    /\ sent[s] <= (IF s = "export" THEN 1 ELSE Min({llm_max_retries, 3}) + 1)
    /\ \A k \in 1 .. sent[s] - 1 : log[s][k] \in {"transient", "broken"}

\* Whatever times out, is refused or breaks, the analysis is reported, and it
\* claims to be the model's just when the last answer was the model's; the one
\* exception is the answer that makes the client's .get fail.
ReportIsHonest ==
  kind = "analysis" /\ report # "none" =>
    LET answers == log["analyze"]
        last    == IF answers = << >> THEN "none" ELSE Last(answers)
    IN  /\ report = "model" <=> last = "valid"
        /\ report = "failed" <=> last = "odd"
        /\ vector => log["embed"] # << >> /\ Last(log["embed"]) = "valid"

\* Analyses and exports end, even when the model's service never answers.
CallsEnd == <>(pc = "done")

\* The README: malformed responses trigger a clearly marked fallback.
MalformedGetsFallback ==
  kind = "analysis" /\ pc = "done" => report \in {"model", "fallback"}

=============================================================================
