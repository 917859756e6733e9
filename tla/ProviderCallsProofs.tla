------------------------ MODULE ProviderCallsProofs ------------------------
(***************************************************************************)
(* The safety of ProviderCalls for any numbers of retries, any headers and *)
(* any deadline: what the counters of the call under way say of the log,   *)
(* and what the log says of the report.                                    *)
(***************************************************************************)
EXTENDS ProviderCalls, TLAPS

USE DEF vars, settings

-----------------------------------------------------------------------------
(* The inductive invariant.                                                *)

\* What may pass, and so be replayed.
Passing == {"transient", "broken"}

\* How often a request of this stage may be replayed.
Cap(s) == Clamp(IF s = "export" THEN 0 ELSE llm_max_retries, 0, 3)

\* All answers but the last one could be replayed.
Justified(s) ==
  /\ sent[s] <= Cap(s) + 1
  /\ Len(log[s]) <= sent[s]
  /\ sent[s] - 1 <= Len(log[s])
  /\ \A k \in 1 .. sent[s] - 1 : log[s][k] \in Passing

\* The call under way has sent a request per attempt, and none has succeeded.
UnderWay ==
  /\ attempt <= Allowed
  /\ pc = "ready" => sent[stage] = attempt /\ Len(log[stage]) = attempt
  /\ pc = "waiting" => sent[stage] = attempt + 1 /\ Len(log[stage]) = attempt
  /\ pc = "sleeping" => /\ sent[stage] = attempt + 1 /\ Len(log[stage]) = attempt + 1
                        /\ attempt < Allowed
  /\ pc # "done" => \A k \in 1 .. Len(log[stage]) : log[stage][k] \in Passing

LastIs(s, r) == log[s] # << >> /\ Last(log[s]) = r

\* What is reported, and which stages are still to come.
Reported ==
  /\ kind = "export" <=> stage = "export"
  /\ stage # "embed" => sent["embed"] = 0 /\ log["embed"] = << >> /\ ~vector
  /\ stage = "analyze" => IF pc = "done" THEN report = "failed" /\ LastIs("analyze", "odd")
                                         ELSE report = "none"
  /\ stage = "embed" => /\ report = IF LastIs("analyze", "valid") THEN "model" ELSE "fallback"
                        /\ ~LastIs("analyze", "odd")
                        /\ vector => pc = "done" /\ LastIs("embed", "valid")

IInv ==
  /\ TypeOK
  /\ \A s \in Stages : Justified(s)
  /\ UnderWay
  /\ Reported

-----------------------------------------------------------------------------
(* Clamps and logs.                                                        *)

\* Min and Max of two integers.
LEMMA MinMax ==
  ASSUME NEW a \in Int, NEW b \in Int
  PROVE  /\ Min({a, b}) = IF a <= b THEN a ELSE b
         /\ Max({a, b}) = IF a >= b THEN a ELSE b
<1>1. Min({a, b}) = IF a <= b THEN a ELSE b
  <2> DEFINE m == IF a <= b THEN a ELSE b
  <2>1. m \in {a, b} /\ \A y \in {a, b} : m <= y
    OBVIOUS
  <2>2. \A x \in {a, b} : (\A y \in {a, b} : x <= y) => x = m
    OBVIOUS
  <2> HIDE DEF m
  <2>3. Min({a, b}) = m
    BY <2>1, <2>2 DEF Min
  <2> QED BY <2>3 DEF m
<1>2. Max({a, b}) = IF a >= b THEN a ELSE b
  <2> DEFINE m == IF a >= b THEN a ELSE b
  <2>1. m \in {a, b} /\ \A y \in {a, b} : m >= y
    OBVIOUS
  <2>2. \A x \in {a, b} : (\A y \in {a, b} : x >= y) => x = m
    OBVIOUS
  <2> HIDE DEF m
  <2>3. Max({a, b}) = m
    BY <2>1, <2>2 DEF Max
  <2> QED BY <2>3 DEF m
<1> QED BY <1>1, <1>2

\* A clamped number is within the bounds.
LEMMA Clamped ==
  ASSUME NEW n \in Int, NEW low \in Int, NEW high \in Int, low <= high
  PROVE  Clamp(n, low, high) = IF n <= low THEN low ELSE IF n >= high THEN high ELSE n
<1>1. Max({n, low}) = IF n >= low THEN n ELSE low
  BY MinMax
<1>2. Max({n, low}) \in Int
  BY <1>1
<1>3. PICK m \in Int : m = Max({n, low})
  BY <1>2
<1>4. Min({m, high}) = IF m <= high THEN m ELSE high
  BY MinMax
<1> QED BY <1>1, <1>3, <1>4 DEF Clamp

\* How many replays there may be.
LEMMA Caps ==
  ASSUME TypeOK
  PROVE  /\ \A s \in Stages : Cap(s) \in 0 .. 3
         /\ Cap("export") = 0
         /\ Allowed = Cap(stage)
         /\ \A s \in Stages : s # "export" => Cap(s) = Min({llm_max_retries, 3})
<1>1. llm_max_retries \in 0 .. 5
  BY DEF TypeOK
<1>2. Clamp(0, 0, 3) = 0
  BY Clamped
<1>3. Clamp(llm_max_retries, 0, 3) = IF llm_max_retries >= 3 THEN 3 ELSE llm_max_retries
  BY <1>1, Clamped
<1>4. Min({llm_max_retries, 3}) = IF llm_max_retries <= 3 THEN llm_max_retries ELSE 3
  BY <1>1, MinMax
<1>5. Cap("export") = 0
  BY <1>2 DEF Cap
<1>6. \A s \in Stages : s # "export" => Cap(s) = Clamp(llm_max_retries, 0, 3)
  BY DEF Cap
<1>7. \A s \in Stages : Cap(s) \in 0 .. 3
  BY <1>1, <1>3, <1>5, <1>6
<1>8. Allowed = Cap(stage)
  BY DEF Allowed, Cap
<1> QED BY <1>1, <1>3, <1>4, <1>5, <1>6, <1>7, <1>8

\* A sleep takes three seconds at most, whatever the header says.
LEMMA Delays ==
  ASSUME TypeOK, MayReplay
  PROVE  Backoff \in 0 .. 12 /\ \A h \in Headers \cup {NoHeader} : Delay(h) \in 0 .. 12
<1>1. attempt \in {0, 1, 2}
  BY Caps DEF TypeOK, MayReplay
<1>2. Backoff \in 0 .. 12
  BY <1>1 DEF Backoff
<1>3. ASSUME NEW h \in Headers PROVE Clamp(h, 0, 12) \in 0 .. 12
  <2>1. h \in Int
    BY CallsAssumption
  <2>2. Clamp(h, 0, 12) = IF h <= 0 THEN 0 ELSE IF h >= 12 THEN 12 ELSE h
    BY <2>1, Clamped
  <2> QED BY <2>1, <2>2
<1> QED BY <1>2, <1>3 DEF Delay

\* What an answer adds to the log.
LEMMA Logged ==
  ASSUME TypeOK, NEW r \in Responses, Received(r)
  PROVE  /\ log' \in [Stages -> Seq(Responses)]
         /\ \A s \in Stages : s # stage => log'[s] = log[s]
         /\ Len(log'[stage]) = Len(log[stage]) + 1
         /\ \A k \in 1 .. Len(log[stage]) : log'[stage][k] = log[stage][k]
         /\ log'[stage][Len(log[stage]) + 1] = r
         /\ log'[stage] # << >>
         /\ Last(log'[stage]) = r
<1>1. stage \in Stages /\ log \in [Stages -> Seq(Responses)]
  BY DEF TypeOK
<1>2. /\ log'[stage] = Append(log[stage], r)
      /\ \A s \in Stages : s # stage => log'[s] = log[s]
      /\ log' = [log EXCEPT ![stage] = Append(log[stage], r)]
  BY <1>1 DEF Received
<1>3. log[stage] \in Seq(Responses)
  BY <1>1
<1>4. /\ Append(log[stage], r) \in Seq(Responses)
      /\ Len(Append(log[stage], r)) = Len(log[stage]) + 1
      /\ \A k \in 1 .. Len(log[stage]) : Append(log[stage], r)[k] = log[stage][k]
      /\ Append(log[stage], r)[Len(log[stage]) + 1] = r
      /\ Append(log[stage], r) # << >>
  BY <1>3
<1>5. log' \in [Stages -> Seq(Responses)]
  BY <1>1, <1>2, <1>4
<1> QED BY <1>2, <1>4, <1>5 DEF Last

-----------------------------------------------------------------------------
(* The invariant holds at first.                                           *)

\* Nothing is sent yet.
LEMMA InitInv ==
  ASSUME Init
  PROVE  IInv
<1>1. kind \in {"analysis", "export"} /\ llm_max_retries \in 0 .. 5
  BY CallsAssumption DEF Init
<1>2. TypeOK
  <2>1. log \in [Stages -> Seq(Responses)] /\ sent \in [Stages -> Nat]
    <3>1. << >> \in Seq(Responses)
      OBVIOUS
    <3> QED BY <3>1 DEF Init
  <2>2. 0 \in 0 .. Deadline
    BY CallsAssumption
  <2>3. configured \subseteq Stages /\ stage \in Stages
    BY DEF Init, Stages
  <2>4. pc = "ready" /\ attempt = 0 /\ elapsed = 0 /\ delay = 0 /\ report = "none"
    BY DEF Init
  <2>5. vector \in BOOLEAN
    BY Zenon DEF Init
  <2> QED BY <1>1, <2>1, <2>2, <2>3, <2>4, <2>5 DEF TypeOK
<1>3. \A s \in Stages : Cap(s) \in 0 .. 3 /\ Allowed = Cap(stage)
  BY <1>2, Caps
<1>4. \A s \in Stages : sent[s] = 0 /\ log[s] = << >>
  BY DEF Init
<1>5. \A s \in Stages : Justified(s)
  BY <1>3, <1>4 DEF Justified
<1>6. stage \in Stages /\ attempt = 0 /\ pc = "ready"
  BY DEF Init, Stages
<1>7. UnderWay
  BY <1>3, <1>4, <1>6 DEF UnderWay
<1>8. Reported
  BY <1>1, <1>4 DEF Init, Reported, Stages, LastIs
<1> QED BY <1>2, <1>5, <1>7, <1>8 DEF IInv

-----------------------------------------------------------------------------
(* Each step keeps the invariant.                                          *)

\* The settings do not change.
LEMMA SameCap ==
  ASSUME UNCHANGED settings
  PROVE  \A s \in Stages : Cap(s)' = Cap(s)
BY DEF Cap

\* What was sent and answered in a stage stays justified.
LEMMA SameJustified ==
  ASSUME UNCHANGED settings, NEW s \in Stages, Justified(s),
         sent'[s] = sent[s], log'[s] = log[s]
  PROVE  Justified(s)'
<1>1. Cap(s)' = Cap(s)
  BY SameCap
<1> QED BY <1>1 DEF Justified

\* An answer to the request under way is justified.
LEMMA AnswerJustified ==
  ASSUME IInv, pc = "waiting", UNCHANGED settings, UNCHANGED sent,
         NEW r \in Responses, Received(r)
  PROVE  \A s \in Stages : Justified(s)'
<1>0. TypeOK /\ UnderWay /\ \A s \in Stages : Justified(s)
  BY DEF IInv
<1>1. ASSUME NEW s \in Stages, s # stage PROVE Justified(s)'
  BY <1>0, <1>1, Logged, SameJustified
<1>2. ASSUME NEW s \in Stages, s = stage PROVE Justified(s)'
  <2>1. Cap(s)' = Cap(s)
    BY SameCap
  <2>2. /\ sent[s] = attempt + 1 /\ Len(log[s]) = attempt /\ attempt \in 0 .. 3
        /\ \A k \in 1 .. Len(log[s]) : log[s][k] \in Passing
    BY <1>0, <1>2 DEF UnderWay, TypeOK
  <2>3. /\ Len(log'[s]) = Len(log[s]) + 1
        /\ \A k \in 1 .. Len(log[s]) : log'[s][k] = log[s][k]
    BY <1>0, <1>2, Logged
  <2>4. sent[s] <= Cap(s) + 1
    BY <1>0 DEF Justified
  <2> QED BY <2>1, <2>2, <2>3, <2>4 DEF Justified
<1> QED BY <1>1, <1>2

\* A call that ends is reported by its last answer, or else the next begins.
LEMMA Ending ==
  ASSUME TypeOK, UnderWay, Reported, pc # "done", UNCHANGED <<settings, sent>>,
         NEW st \in Stages, stage = st,
         \A s \in Stages : s # st => log'[s] = log[s],
         \/ Succeed /\ LastIs(st, "valid")'
         \/ Fail /\ ~LastIs(st, "valid")' /\ ~LastIs(st, "odd")'
         \/ Escape /\ st # "export" /\ LastIs(st, "odd")'
  PROVE  /\ UnderWay' /\ Reported'
         /\ stage' \in Stages /\ pc' \in {"ready", "done"} /\ attempt' \in 0 .. 3
         /\ elapsed' \in 0 .. Deadline /\ delay' \in 0 .. 12
         /\ report' \in {"none", "model", "fallback", "created", "failed"}
         /\ vector' \in BOOLEAN
<1> USE DEF Stages
<1>0. /\ stage \in Stages /\ attempt \in 0 .. 3 /\ elapsed \in 0 .. Deadline
      /\ delay \in 0 .. 12 /\ vector \in BOOLEAN
      /\ report \in {"none", "model", "fallback", "created", "failed"}
      /\ 0 \in 0 .. Deadline
  BY CallsAssumption DEF TypeOK
<1>1. Allowed = Cap(stage) /\ \A s \in Stages : Cap(s)' = Cap(s) /\ Cap(s) \in 0 .. 3
  BY Caps, SameCap
<1>2. \A s \in Stages : s # st => LastIs(s, "valid")' = LastIs(s, "valid")
                                  /\ LastIs(s, "odd")' = LastIs(s, "odd")
  BY DEF LastIs
<1>3. CASE Finish
  <2>1. /\ pc' = "done" /\ UNCHANGED <<stage, attempt, elapsed, delay>>
    BY <1>3 DEF Finish
  <2>2. UnderWay'
    <3>1. Allowed' = Allowed
      BY <2>1 DEF Allowed
    <3> QED BY <2>1, <3>1 DEF UnderWay
  <2>3. /\ report' \in {"none", "model", "fallback", "created", "failed"}
        /\ vector' \in BOOLEAN
    BY <1>0 DEF Succeed, Fail, Escape
  <2>4. Reported'
    <3>1. CASE st = "analyze"
      <4>1. Escape /\ LastIs(st, "odd")'
        BY <1>3, <3>1 DEF Succeed, Fail, Continue, Finish
      <4>2. report' = "failed" /\ vector' = vector
        BY <3>1, <4>1 DEF Escape
      <4> QED BY <2>1, <3>1, <4>1, <4>2 DEF Reported
    <3>2. CASE st = "embed"
      <4>1. report' = report /\ (vector' => vector \/ LastIs(st, "valid")')
        BY <3>2 DEF Succeed, Fail, Escape
      <4>2. ~vector
        BY <3>2 DEF Reported
      <4> QED BY <1>2, <2>1, <3>2, <4>1, <4>2 DEF Reported
    <3>3. CASE st = "export"
      <4>1. vector' = vector
        BY <3>3 DEF Succeed, Fail, Escape
      <4> QED BY <2>1, <3>3, <4>1 DEF Reported
    <3> QED BY <3>1, <3>2, <3>3
  <2> QED BY <1>0, <2>1, <2>2, <2>3, <2>4
<1>4. CASE ~Finish
  <2>1. /\ st = "analyze" /\ Continue("embed") /\ UNCHANGED vector
        /\ \/ report' = "model" /\ LastIs(st, "valid")'
           \/ report' = "fallback" /\ ~LastIs(st, "valid")'
        /\ ~LastIs(st, "odd")'
    <3>1. \/ /\ report' = "model" /\ LastIs(st, "valid")'
             /\ st = "analyze" /\ Continue("embed") /\ UNCHANGED vector
          \/ /\ report' = "fallback" /\ ~LastIs(st, "valid")' /\ ~LastIs(st, "odd")'
             /\ st = "analyze" /\ Continue("embed") /\ UNCHANGED vector
      BY <1>4 DEF Succeed, Fail, Escape
    <3>2. LastIs(st, "valid")' => ~LastIs(st, "odd")'
      BY DEF LastIs
    <3> QED BY <3>1, <3>2
  <2>2. /\ stage' = "embed" /\ pc' = "ready" /\ attempt' = 0 /\ elapsed' = 0 /\ delay' = 0
        /\ sent'["embed"] = 0 /\ log'["embed"] = << >> /\ ~vector'
    BY <2>1 DEF Continue, Reported
  <2>3. UnderWay'
    <3>1. Allowed' = Cap("embed")'
      BY <2>2 DEF Allowed, Cap
    <3>2. 0 <= Allowed'
      BY <1>1, <3>1
    <3> QED BY <2>2, <3>2 DEF UnderWay
  <2>4. Reported'
    BY <2>1, <2>2 DEF Reported
  <2> QED BY <1>0, <2>1, <2>2, <2>3, <2>4
<1> QED BY <1>3, <1>4

\* One case for each action.
LEMMA StepInv ==
  ASSUME IInv, [Next]_vars
  PROVE  IInv'
<1>0. TypeOK /\ UnderWay /\ Reported /\ \A s \in Stages : Justified(s)
  BY DEF IInv
<1>0a. /\ kind \in {"analysis", "export"} /\ llm_max_retries \in 0 .. 5
       /\ configured \subseteq Stages
       /\ stage \in Stages /\ sent \in [Stages -> Nat] /\ log \in [Stages -> Seq(Responses)]
       /\ attempt \in 0 .. 3
  BY <1>0 DEF TypeOK
<1>1. CASE UNCHANGED vars
  BY <1>0, <1>1 DEF IInv, TypeOK, UnderWay, Allowed, Reported, LastIs, Justified, Cap
<1>2. ASSUME pc \notin {"done", "ready"}, UNCHANGED <<settings, sent>>,
             NEW r \in Responses, Received(r),
             \/ r = "valid" /\ Succeed
             \/ r \notin {"odd", "valid"} /\ Fail
             \/ r = "odd" /\ Escape /\ stage # "export",
             pc = "waiting"
      PROVE  IInv'
  <2>1. PICK st \in Stages : st = stage
    BY <1>0a
  <2>2. \A s \in Stages : s # st => log'[s] = log[s]
    BY <1>0, <1>2, <2>1, Logged
  <2>3. \A x : LastIs(st, x)' <=> r = x
    <3>1. log'[st] # << >> /\ Last(log'[st]) = r
      BY <1>0, <1>2, <2>1, Logged
    <3> QED BY <3>1 DEF LastIs
  <2>4. \A s \in Stages : Justified(s)'
    BY <1>2, AnswerJustified
  <2>5. \/ Succeed /\ LastIs(st, "valid")'
        \/ Fail /\ ~LastIs(st, "valid")' /\ ~LastIs(st, "odd")'
        \/ Escape /\ st # "export" /\ LastIs(st, "odd")'
    BY <1>2, <2>1, <2>3
  <2>6. /\ UnderWay' /\ Reported'
        /\ stage' \in Stages /\ pc' \in {"ready", "done"} /\ attempt' \in 0 .. 3
        /\ elapsed' \in 0 .. Deadline /\ delay' \in 0 .. 12
        /\ report' \in {"none", "model", "fallback", "created", "failed"}
        /\ vector' \in BOOLEAN
    BY <1>0, <1>2, <2>1, <2>2, <2>5, Ending
  <2>7. log' \in [Stages -> Seq(Responses)]
    BY <1>0, <1>2, Logged
  <2> QED BY <1>0a, <1>2, <2>4, <2>6, <2>7 DEF IInv, TypeOK
<1>3. ASSUME pc # "done", UNCHANGED <<settings, sent, log>>, Fail PROVE IInv'
  <2>1. PICK st \in Stages : st = stage
    BY <1>0a
  <2>2. \A s \in Stages : Justified(s)'
    BY <1>0, <1>3, SameJustified
  <2>3. ~LastIs(st, "valid")' /\ ~LastIs(st, "odd")'
    <3>1. log[st] # << >> => Last(log[st]) \in Passing
      <4> SUFFICES ASSUME log[st] # << >> PROVE Last(log[st]) \in Passing
        OBVIOUS
      <4>1. Len(log[st]) \in 1 .. Len(log[st])
        BY <1>0a
      <4> QED BY <1>0, <1>3, <2>1, <4>1 DEF UnderWay, Last
    <3> QED BY <1>3, <3>1 DEF LastIs, Passing
  <2>4. /\ UnderWay' /\ Reported'
        /\ stage' \in Stages /\ pc' \in {"ready", "done"} /\ attempt' \in 0 .. 3
        /\ elapsed' \in 0 .. Deadline /\ delay' \in 0 .. 12
        /\ report' \in {"none", "model", "fallback", "created", "failed"}
        /\ vector' \in BOOLEAN
    <3>1. \A s \in Stages : s # st => log'[s] = log[s]
      BY <1>3
    <3> QED BY <1>0, <1>3, <2>1, <2>3, <3>1, Ending
  <2> QED BY <1>0a, <1>3, <2>2, <2>4 DEF IInv, TypeOK
<1>4. CASE Unconfigured \/ Expire
  BY <1>3, <1>4 DEF Unconfigured, Expire
<1>5. CASE GiveUp
  <2>1. PICK r \in Responses \ {"odd", "valid"} : Received(r)
    BY <1>5 DEF GiveUp
  <2> QED BY <1>2, <1>5, <2>1 DEF GiveUp
<1>6. CASE Accept
  <2>1. "valid" \in Responses
    BY DEF Responses
  <2> QED BY <1>2, <1>6, <2>1 DEF Accept
<1>7. CASE Stumble
  <2>1. "odd" \in Responses
    BY DEF Responses
  <2> QED BY <1>2, <1>7, <2>1 DEF Stumble
<1>8. CASE Send
  <2>1. /\ pc = "ready" /\ pc' = "waiting" /\ sent' = [sent EXCEPT ![stage] = sent[stage] + 1]
        /\ UNCHANGED <<settings, stage, attempt, elapsed, delay, log, report, vector>>
    BY <1>8 DEF Send
  <2>2. /\ sent' \in [Stages -> Nat] /\ sent'[stage] = sent[stage] + 1
        /\ \A s \in Stages : s # stage => sent'[s] = sent[s]
    BY <1>0a, <2>1
  <2>3. /\ sent[stage] = attempt /\ Len(log[stage]) = attempt /\ attempt <= Allowed
        /\ \A k \in 1 .. Len(log[stage]) : log[stage][k] \in Passing
    BY <1>0, <2>1 DEF UnderWay
  <2>4. Allowed' = Allowed
    BY <2>1 DEF Allowed
  <2>5. \A s \in Stages : Justified(s)'
    <3>1. ASSUME NEW s \in Stages, s # stage PROVE Justified(s)'
      BY <1>0, <2>1, <2>2, <3>1, SameJustified
    <3>2. ASSUME NEW s \in Stages, s = stage PROVE Justified(s)'
      <4>1. Cap(s)' = Allowed /\ Allowed \in 0 .. 3
        BY <1>0, <2>1, <3>2, SameCap, Caps
      <4> QED BY <1>0a, <2>1, <2>2, <2>3, <3>2, <4>1 DEF Justified
    <3> QED BY <3>1, <3>2
  <2>6. UnderWay'
    BY <2>1, <2>2, <2>3, <2>4 DEF UnderWay
  <2>7. Reported'
    <3>1. stage # "embed" => sent'["embed"] = 0
      BY <1>0, <2>2 DEF Reported, Stages
    <3> QED BY <1>0, <2>1, <3>1 DEF Reported, LastIs
  <2> QED BY <1>0, <2>1, <2>2, <2>5, <2>6, <2>7 DEF IInv, TypeOK
<1>9. CASE Replay
  <2>1. /\ pc = "waiting" /\ pc' = "sleeping" /\ attempt < Allowed /\ MayReplay
        /\ UNCHANGED <<settings, stage, attempt, elapsed, sent, report, vector>>
    BY <1>9 DEF Replay, MayReplay
  <2>2. PICK r \in Passing : Received(r) /\ delay' \in 0 .. 12
    BY <1>0, <1>9, <2>1, Delays DEF Replay, Passing
  <2>3. r \in Responses
    BY DEF Passing, Responses
  <2>4. /\ log' \in [Stages -> Seq(Responses)]
        /\ \A s \in Stages : s # stage => log'[s] = log[s]
        /\ Len(log'[stage]) = Len(log[stage]) + 1
        /\ \A k \in 1 .. Len(log[stage]) : log'[stage][k] = log[stage][k]
        /\ log'[stage][Len(log[stage]) + 1] = r
    BY <1>0, <2>2, <2>3, Logged
  <2>5. /\ sent[stage] = attempt + 1 /\ Len(log[stage]) = attempt
        /\ \A k \in 1 .. Len(log[stage]) : log[stage][k] \in Passing
    BY <1>0, <2>1 DEF UnderWay
  <2>6. \A s \in Stages : Justified(s)'
    BY <2>1, <2>2, <2>3, AnswerJustified
  <2>7. UnderWay'
    <3>1. Allowed' = Allowed
      BY <2>1 DEF Allowed
    <3>2. \A k \in 1 .. Len(log'[stage]) : log'[stage][k] \in Passing
      BY <1>0a, <2>4, <2>5
    <3>3. Allowed \in 0 .. 3 /\ attempt \in 0 .. 3
      BY <1>0, <1>0a, Caps
    <3>4. Len(log'[stage]) = attempt + 1 /\ sent'[stage'] = attempt' + 1
      BY <2>1, <2>4, <2>5
    <3>5. attempt' < Allowed' /\ attempt' <= Allowed'
      BY <2>1, <3>1, <3>3
    <3> QED BY <2>1, <3>2, <3>4, <3>5 DEF UnderWay
  <2>8. Reported'
    BY <1>0, <2>1, <2>4 DEF Reported, LastIs, Stages
  <2> QED BY <1>0, <2>1, <2>2, <2>4, <2>6, <2>7, <2>8 DEF IInv, TypeOK
<1>10. CASE Wake
  <2>1. /\ pc = "sleeping" /\ pc' = "ready" /\ attempt' = attempt + 1
        /\ UNCHANGED <<settings, stage, elapsed, delay, sent, log, report, vector>>
    BY <1>10 DEF Wake
  <2>2. \A s \in Stages : Justified(s)'
    BY <1>0, <2>1, SameJustified
  <2>3. attempt < Allowed /\ Allowed \in 0 .. 3 /\ Allowed' = Allowed
    <3>1. attempt < Allowed
      BY <1>0, <2>1 DEF UnderWay
    <3>2. Allowed \in 0 .. 3
      BY <1>0, <1>0a, Caps
    <3>3. Allowed' = Allowed
      BY <2>1 DEF Allowed
    <3> QED BY <3>1, <3>2, <3>3
  <2>4. UnderWay'
    BY <1>0, <1>0a, <2>1, <2>3 DEF UnderWay
  <2>5. Reported'
    BY <1>0, <2>1 DEF Reported, LastIs
  <2>6. attempt' \in 0 .. 3
    BY <1>0a, <2>1, <2>3
  <2> QED BY <1>0, <2>1, <2>2, <2>4, <2>5, <2>6 DEF IInv, TypeOK
<1>11. CASE Tick
  <2>1. /\ elapsed < Deadline /\ elapsed' = elapsed + 1
        /\ \/ UNCHANGED delay
           \/ delay > 0 /\ delay' = delay - 1
        /\ UNCHANGED <<settings, stage, pc, attempt, sent, log, report, vector>>
    BY <1>11 DEF Tick
  <2>2. elapsed' \in 0 .. Deadline /\ delay' \in 0 .. 12
    BY <1>0, <2>1, CallsAssumption DEF TypeOK
  <2>3. \A s \in Stages : Justified(s)'
    BY <1>0, <2>1, SameJustified
  <2>4. UnderWay' /\ Reported'
    BY <1>0, <2>1 DEF UnderWay, Allowed, Reported, LastIs
  <2> QED BY <1>0, <2>1, <2>2, <2>3, <2>4 DEF IInv, TypeOK
<1> QED BY <1>1, <1>4, <1>5, <1>6, <1>7, <1>8, <1>9, <1>10, <1>11 DEF Next, Answer, Run

-----------------------------------------------------------------------------
(* The theorems.                                                           *)

\* All steps keep the invariant.
THEOREM Invariance == Spec => []IInv
<1>1. Init => IInv
  BY InitInv
<1>2. IInv /\ [Next]_vars => IInv'
  BY StepInv
<1> QED BY <1>1, <1>2, PTL DEF Spec

\* The variables keep their types: no call goes past its deadline, no sleep
\* takes more than three seconds and no request has more than four attempts.
THEOREM TypeCorrect == Spec => []TypeOK
<1>1. IInv => TypeOK
  BY DEF IInv
<1> QED BY <1>1, Invariance, PTL

\* Only errors that may pass are replayed, at most llm_max_retries and three
\* times, and an export never is.
THEOREM ReplaysAreEarned == Spec => []ReplaysAreJustified
<1>1. IInv => ReplaysAreJustified
  <2> SUFFICES ASSUME IInv, NEW s \in Stages
      PROVE  /\ sent[s] <= (IF s = "export" THEN 1 ELSE Min({llm_max_retries, 3}) + 1)
             /\ \A k \in 1 .. sent[s] - 1 : log[s][k] \in {"transient", "broken"}
    BY DEF ReplaysAreJustified
  <2>1. TypeOK /\ Justified(s)
    BY DEF IInv
  <2>2. Cap(s) = IF s = "export" THEN 0 ELSE Min({llm_max_retries, 3})
    BY <2>1, Caps
  <2>3. Cap(s) + 1 = IF s = "export" THEN 1 ELSE Min({llm_max_retries, 3}) + 1
    BY <2>2
  <2> QED BY <2>1, <2>3 DEF Justified, Passing
<1> QED BY <1>1, Invariance, PTL

\* An analysis is reported as the model's just when the model answered it, and
\* only a vector that was answered is stored.
THEOREM ReportsAreTrue == Spec => []ReportIsHonest
<1>1. IInv => ReportIsHonest
  <2> SUFFICES ASSUME IInv, kind = "analysis", report # "none"
      PROVE  LET answers == log["analyze"]
                 last    == IF answers = << >> THEN "none" ELSE Last(answers)
             IN  /\ report = "model" <=> last = "valid"
                 /\ report = "failed" <=> last = "odd"
                 /\ vector => log["embed"] # << >> /\ Last(log["embed"]) = "valid"
    BY DEF ReportIsHonest
  <2>1. Reported /\ stage \in {"analyze", "embed"}
    BY DEF IInv, Reported, TypeOK, Stages
  <2>2. LastIs("analyze", "valid") => ~LastIs("analyze", "odd")
    BY DEF LastIs
  <2>3. /\ report = "model" <=> LastIs("analyze", "valid")
        /\ report = "failed" <=> LastIs("analyze", "odd")
        /\ vector => LastIs("embed", "valid")
    BY <2>1, <2>2 DEF Reported
  <2> QED BY <2>3 DEF LastIs
<1> QED BY <1>1, Invariance, PTL

=============================================================================
