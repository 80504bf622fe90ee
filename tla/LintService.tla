----------------------------- MODULE LintService ------------------------------
(***************************************************************************)
(* app/main.py: POST /api/lint from admission to answer, with the two      *)
(* thread pools, the LLM semaphore, the quota and the per-request budget.  *)
(*                                                                         *)
(* The handlers share one event loop: between two awaits a handler runs    *)
(* alone, so each such segment is one action.  Worker threads interleave   *)
(* with the loop and with each other at every lock, event and call.  A     *)
(* timeout of _run_bounded takes a queued job out of service (its entry    *)
(* stays in the executor's queue until a worker pops it) but only abandons *)
(* a running one, which goes on as a zombie.                               *)
(*                                                                         *)
(* The quota is the ledger of QuotaLedger.tla, which Quota.tla implements. *)
(***************************************************************************)
EXTENDS QuotaRules, Sequences

CONSTANTS Requests,
          Kinds,           \* the requests to explore: who asks, with AI or not, file or text
          MaxInflight,     \* PLW_MAX_INFLIGHT_LINT
          LlmConcurrency,  \* PLW_LLM_CONCURRENCY
          ConvWorkers,     \* PLW_CONVERT_CONCURRENCY
          LintWorkers,     \* max(2 * LlmConcurrency, 4) in the code, scaled down
          MaxCalls,        \* PLW_MAX_LLM_CALLS
          MaxAsks          \* bound: LLM calls the checkers of one document ask for

ASSUME RequestsAssumption == IsFiniteSet(Requests)
ASSUME KindsAssumption == Kinds \subseteq [who : Keys, llm : BOOLEAN, file : BOOLEAN]
ASSUME BoundsAssumption ==
  {MaxInflight, LlmConcurrency, ConvWorkers, LintWorkers, MaxCalls, MaxAsks} \subseteq Nat

VARIABLES
  today,     \* the date, bounded by LastDay
  count,     \* today's row of the quota
  inflight,  \* permits left in _inflight
  llmFree,   \* permits left in _llm_sem
  convQ,     \* queue of _convert_executor: requests
  lintQ,     \* queue of _lint_executor: <<request, "work" or "fall">>
  pc,        \* the handler: new, converting, linting, fallback, done; lost in a crash
  req,       \* the kind of each request
  bill,      \* its charge: none, held, refunded, kept (answered) or lost, and the day of it
  pool,      \* its BudgetPool; client is FALSE while llm_client is None
  reason,    \* its skipped_reason
  job,       \* the phase of its conversion, its work() and its fallback run_lint
  resp       \* what was answered

ledger == <<today, count>>
vars == <<today, count, inflight, llmFree, convQ, lintQ, pc, req, bill, pool, reason, job, resp>>

Jobs == {"convert", "work", "fall"}
\* Phases in which a thread holds a permit of _llm_sem, and those of a busy worker.
Holding  == {"asking", "cleared", "calling", "unwinding"}
Busy     == Holding \cup {"running", "waiting", "degraded", "rules"}
Finished == {"ok", "bad", "ran", "failed", "ruled", "raised"}
Phases   == Busy \cup Finished \cup {"none", "queued", "dropped"}
Active   == {"converting", "linting", "fallback"}

NoPool == [client |-> FALSE, calls |-> 0, asked |-> 0, cancelled |-> FALSE, limited |-> FALSE]
NoBill == [state |-> "none", day |-> 0]
NoAnswer == [status |-> 0, ran |-> FALSE, reason |-> "none", partial |-> FALSE]
Error(status) == [NoAnswer EXCEPT !.status = status]

BusyWith(js) == { p \in Requests \X js : job[p[1]][p[2]] \in Busy }
-------------------------------------------------------------------------------
Init ==
  /\ today = 0 /\ count = EmptyLedger
  /\ inflight = MaxInflight /\ llmFree = LlmConcurrency
  /\ convQ = <<>> /\ lintQ = <<>>
  /\ pc = [r \in Requests |-> "new"]
  /\ req \in [Requests -> Kinds]
  /\ bill = [r \in Requests |-> NoBill]
  /\ pool = [r \in Requests |-> NoPool]
  /\ reason = [r \in Requests |-> "none"]
  /\ job = [r \in Requests |-> [j \in Jobs |-> "none"]]
  /\ resp = [r \in Requests |-> NoAnswer]

\* ---- pieces of the handler -------------------------------------------------

\* return of the handler: the answer, the finally that releases the permit; a
\* charge still held stands.
Answer(r, a) ==
  /\ pc' = [pc EXCEPT ![r] = "done"]
  /\ resp' = [resp EXCEPT ![r] = a]
  /\ inflight' = inflight + 1

Settled(b) == IF b.state = "held" THEN [b EXCEPT !.state = "kept"] ELSE b

\* do_refund: one check back on today's row, whatever the day of the charge.
GiveBack(who) == count' = [count EXCEPT ![who] = Decremented(@)]
BugRefunded(b) == b   \* mutant: the charge may be given back again
Refunded(b) == [b EXCEPT !.state = "refunded"]

NeverUnpaid(r) == FALSE   \* mutant: nothing is ever refunded
\* calls_started == 0.
Unpaid(r) == pool[r].calls = 0

\* Give a charge back if no call was paid for it; else it becomes kept.  The
\* flag consumed is never cleared: nothing here remembers an earlier refund.
Consumed(r) == bill[r].state # "none"
RefundIf(due, r, kept) ==
  IF due /\ Consumed(r) /\ Unpaid(r)
    THEN GiveBack(req[r].who) /\ bill' = [bill EXCEPT ![r] = Refunded(@)]
    ELSE UNCHANGED count /\ bill' = [bill EXCEPT ![r] = kept]

BugAbandoned(phase) == phase   \* mutant: the future is shielded from the cancel
\* asyncio.wait_for cancels the future: a job still queued is stopped, the
\* outcome of a finished one is thrown away, a running one goes on.
Abandoned(phase) ==
  CASE phase = "queued" -> "dropped" [] phase \in Finished -> "none" [] OTHER -> phase

Enter(r, j, phase) == job' = [job EXCEPT ![r][j] = phase]

\* The handler awaits this job's future; the outcome of any other job is lost.
Awaited(r, j) ==
  \/ pc[r] = "converting" /\ j = "convert"
  \/ pc[r] = "linting" /\ j = "work"
  \/ pc[r] = "fallback" /\ j = "fall"
End(r, j, outcome) == Enter(r, j, IF Awaited(r, j) THEN outcome ELSE "none")

\* run_in_executor(_lint_executor, ..).
Submit(r, j) == lintQ' = Append(lintQ, <<r, j>>)

\* _lint_inner from the quota to the await of the lint job (lines 179-230).
\* The branches: no AI wanted; quota refused; charged; charged and given back
\* at once because make_client raised LLMUnavailable.  ClientRaised is the fifth.
BeginLint(r) ==
  LET who == req[r].who
      v   == Verdict(count, who)
  IN
  /\ pc' = [pc EXCEPT ![r] = "linting"]
  /\ Submit(r, "work")
  /\ UNCHANGED <<today, llmFree, req, resp>>
  /\ \/ /\ ~req[r].llm
        /\ UNCHANGED <<count, bill, pool, reason>>
     \/ /\ req[r].llm /\ v # "granted"
        /\ reason' = [reason EXCEPT ![r] = v]
        /\ UNCHANGED <<count, bill, pool>>
     \/ /\ req[r].llm /\ v = "granted"
        /\ count' = [count EXCEPT ![who] = @ + 1]
        /\ bill' = [bill EXCEPT ![r] = [state |-> "held", day |-> today]]
        /\ pool' = [pool EXCEPT ![r].client = TRUE]
        /\ UNCHANGED reason
     \/ /\ req[r].llm /\ v = "granted"
        /\ bill' = [bill EXCEPT ![r] = [state |-> "refunded", day |-> today]]
        /\ reason' = [reason EXCEPT ![r] = "llm_error"]
        /\ UNCHANGED <<count, pool>>

\* make_client or apply_request_timeout raises anything else: the exception
\* leaves the handler after the charge, and no job is submitted.
ClientRaised(r) ==
  LET who == req[r].who IN
  /\ req[r].llm /\ Verdict(count, who) = "granted"
  /\ count' = [count EXCEPT ![who] = @ + 1]
  /\ bill' = [bill EXCEPT ![r] = [state |-> "kept", day |-> today]]
  /\ pc' = [pc EXCEPT ![r] = "done"]
  /\ resp' = [resp EXCEPT ![r] = Error(500)]
  /\ UNCHANGED <<today, llmFree, convQ, lintQ, req, pool, reason>>

\* ---- the handler on the event loop ------------------------------------------

\* _inflight.acquire(blocking=False) fails.
Overloaded(r) ==
  /\ pc[r] = "new" /\ inflight = 0
  /\ pc' = [pc EXCEPT ![r] = "done"]
  /\ resp' = [resp EXCEPT ![r] = Error(503)]
  /\ UNCHANGED <<ledger, inflight, llmFree, convQ, lintQ, req, bill, pool, reason, job>>

\* No length or too large (the middleware, before the permit), empty or missing
\* (under the permit): answered without an await.
RejectInput(r) ==
  /\ pc[r] = "new"
  /\ \E status \in {411, 413} \cup (IF inflight > 0 THEN {422} ELSE {}) :
       /\ pc' = [pc EXCEPT ![r] = "done"]
       /\ resp' = [resp EXCEPT ![r] = Error(status)]
  /\ UNCHANGED <<ledger, inflight, llmFree, convQ, lintQ, req, bill, pool, reason, job>>

\* Pasted text: no await before the lint job.
AdmitText(r) ==
  /\ pc[r] = "new" /\ inflight > 0 /\ ~req[r].file
  /\ inflight' = inflight - 1
  /\ BeginLint(r)
  /\ job' = [job EXCEPT ![r]["work"] = "queued"]
  /\ UNCHANGED convQ

\* The permit is taken and released within the one segment.
TextClientRaised(r) ==
  /\ pc[r] = "new" /\ inflight > 0 /\ ~req[r].file
  /\ ClientRaised(r)
  /\ UNCHANGED <<inflight, job>>

AdmitFile(r) ==
  /\ pc[r] = "new" /\ inflight > 0 /\ req[r].file
  /\ inflight' = inflight - 1
  /\ pc' = [pc EXCEPT ![r] = "converting"]
  /\ convQ' = Append(convQ, r)
  /\ job' = [job EXCEPT ![r]["convert"] = "queued"]
  /\ UNCHANGED <<ledger, llmFree, lintQ, req, bill, pool, reason, resp>>

\* The conversion is back: go on to the lint job ..
ConvertResume(r) ==
  /\ pc[r] = "converting" /\ job[r]["convert"] = "ok"
  /\ BeginLint(r)
  /\ job' = [job EXCEPT ![r] = [job[r] EXCEPT !["convert"] = "none", !["work"] = "queued"]]
  /\ UNCHANGED <<inflight, convQ>>

FileClientRaised(r) ==
  /\ pc[r] = "converting" /\ job[r]["convert"] = "ok"
  /\ ClientRaised(r)
  /\ inflight' = inflight + 1
  /\ Enter(r, "convert", "none")

\* .. or answer: text too long or empty, ConversionError, any other exception
\* (which passes through the finally of lint()).
ConvertRejected(r) ==
  /\ pc[r] = "converting" /\ job[r]["convert"] \in {"ok", "bad"}
  /\ \E status \in IF job[r]["convert"] = "ok" THEN {413, 422} ELSE {422, 500} :
       Answer(r, Error(status))
  /\ Enter(r, "convert", "none")
  /\ UNCHANGED <<ledger, llmFree, convQ, lintQ, req, bill, pool, reason>>

NoConvertTimeout(r) ==   \* mutant: the conversion is awaited without a timeout
  pc[r] = "converting" /\ FALSE /\ UNCHANGED vars
\* CONVERT_TIMEOUT.  It may also win against a conversion that just finished.
ConvertTimeout(r) ==
  /\ pc[r] = "converting"
  /\ Answer(r, Error(422))
  /\ job' = [job EXCEPT ![r]["convert"] = Abandoned(@)]
  /\ UNCHANGED <<ledger, llmFree, convQ, lintQ, req, bill, pool, reason>>

\* The 200 answer to a job that ended in this phase.
Partial(r) == pool[r].client /\ pool[r].limited
BugReport(r, phase, why) ==   \* mutant: llm_ran is taken from the calls that were made
  [status |-> 200, ran |-> pool[r].calls > 0, reason |-> why, partial |-> Partial(r)]
Report(r, phase, why) ==
  [status |-> 200, ran |-> phase = "ran", reason |-> why, partial |-> Partial(r)]

\* The lint job is back (lines 249-277).
LintResume(r) ==
  LET phase == job[r]["work"]
      why   == IF phase = "failed" THEN "llm_error" ELSE reason[r]
  IN
  /\ pc[r] = "linting" /\ phase \in {"ran", "failed", "ruled"}
  /\ reason' = [reason EXCEPT ![r] = why]
  /\ RefundIf(phase = "failed", r, Settled(bill[r]))
  /\ Answer(r, Report(r, phase, why))
  /\ Enter(r, "work", "none")
  /\ UNCHANGED <<today, llmFree, convQ, lintQ, req, pool>>

\* The rules engine raised, in the job or in the fallback: the exception leaves
\* the handler through the finally of lint(), the charge stays.
LintRaised(r) ==
  /\ \E j \in {"work", "fall"} :
       Awaited(r, j) /\ job[r][j] = "raised" /\ Enter(r, j, "none")
  /\ bill' = [bill EXCEPT ![r] = Settled(@)]
  /\ Answer(r, Error(500))
  /\ UNCHANGED <<ledger, llmFree, convQ, lintQ, req, pool, reason>>

\* RULES_TIMEOUT of a request without a client.
RulesTimeout(r) ==
  /\ pc[r] = "linting" /\ ~pool[r].client
  /\ job' = [job EXCEPT ![r]["work"] = Abandoned(@)]
  /\ Answer(r, Error(500))
  /\ UNCHANGED <<ledger, llmFree, convQ, lintQ, req, bill, pool, reason>>

\* llm_timeout_seconds: cancel, refund unless a call was started, run the rules
\* once more as a fallback.  The cancel and the read of calls_started are one
\* step: a call started between them is seen, as if it had started before.
LlmTimeout(r) ==
  /\ pc[r] = "linting" /\ pool[r].client
  /\ pool' = [pool EXCEPT ![r].cancelled = TRUE]
  /\ reason' = [reason EXCEPT ![r] = "llm_error"]
  /\ RefundIf(TRUE, r, bill[r])
  /\ job' = [job EXCEPT ![r] =
               [job[r] EXCEPT !["work"] = Abandoned(job[r]["work"]), !["fall"] = "queued"]]
  /\ Submit(r, "fall")
  /\ pc' = [pc EXCEPT ![r] = "fallback"]
  /\ UNCHANGED <<today, inflight, llmFree, convQ, req, resp>>

FallbackResume(r) ==
  /\ pc[r] = "fallback" /\ job[r]["fall"] = "ruled"
  /\ bill' = [bill EXCEPT ![r] = Settled(@)]
  /\ Answer(r, Report(r, "ruled", reason[r]))
  /\ Enter(r, "fall", "none")
  /\ UNCHANGED <<ledger, llmFree, convQ, lintQ, req, pool, reason>>

FallbackTimeout(r) ==
  /\ pc[r] = "fallback"
  /\ bill' = [bill EXCEPT ![r] = Settled(@)]
  /\ job' = [job EXCEPT ![r]["fall"] = Abandoned(@)]
  /\ Answer(r, Error(503))
  /\ UNCHANGED <<ledger, llmFree, convQ, lintQ, req, pool, reason>>

\* ---- the worker threads -------------------------------------------------------

jobsOnly == <<ledger, inflight, pc, req, bill, reason, resp>>

\* An idle convert worker pops the queue; a cancelled future is thrown away.
ConvertPop ==
  /\ convQ # <<>> /\ Cardinality(BusyWith({"convert"})) < ConvWorkers
  /\ LET r == Head(convQ)
     IN  Enter(r, "convert", IF job[r]["convert"] = "queued" THEN "running" ELSE "none")
  /\ convQ' = Tail(convQ)
  /\ UNCHANGED <<jobsOnly, llmFree, lintQ, pool>>

\* convert returns or raises; a pathological file may keep it forever.
ConvertFinish(r) ==
  /\ job[r]["convert"] = "running"
  /\ End(r, "convert", "ok") \/ End(r, "convert", "bad")
  /\ UNCHANGED <<jobsOnly, llmFree, convQ, lintQ, pool>>

LintPop ==
  /\ lintQ # <<>> /\ Cardinality(BusyWith({"work", "fall"})) < LintWorkers
  /\ LET r == Head(lintQ)[1]
         j == Head(lintQ)[2]
     IN  Enter(r, j, IF job[r][j] # "queued" THEN "none"
                     ELSE IF j = "work" /\ pool[r].client THEN "waiting" ELSE "rules")
  /\ lintQ' = Tail(lintQ)
  /\ UNCHANGED <<jobsOnly, llmFree, convQ, pool>>

\* _llm_sem.acquire(timeout=10) in work().
SemAcquire(r) ==
  /\ job[r]["work"] = "waiting" /\ llmFree > 0
  /\ llmFree' = llmFree - 1
  /\ Enter(r, "work", "asking")
  /\ UNCHANGED <<jobsOnly, convQ, lintQ, pool>>

SemTimeout(r) ==
  /\ job[r]["work"] = "waiting" /\ llmFree = 0
  /\ Enter(r, "work", "degraded")
  /\ UNCHANGED <<jobsOnly, llmFree, convQ, lintQ, pool>>

BugAskCleared(r) ==   \* mutant: the cancel event is set and never looked at
  /\ job[r]["work"] = "asking" /\ pool[r].asked < MaxAsks
  /\ pool' = [pool EXCEPT ![r].asked = @ + 1]
  /\ Enter(r, "work", "cleared")
  /\ UNCHANGED <<jobsOnly, llmFree, convQ, lintQ>>
\* A checker asks for a call: LlmBudget.tla in three steps.  A share may be
\* spent at any of them.
AskCleared(r) ==
  /\ job[r]["work"] = "asking" /\ pool[r].asked < MaxAsks /\ ~pool[r].cancelled
  /\ pool' = [pool EXCEPT ![r].asked = @ + 1]
  /\ Enter(r, "work", "cleared")
  /\ UNCHANGED <<jobsOnly, llmFree, convQ, lintQ>>

\* LLMCancelled reaches run_lint's except: rules only, llm_error.
AskAborted(r) ==
  /\ job[r]["work"] = "asking" /\ pool[r].asked < MaxAsks /\ pool[r].cancelled
  /\ Enter(r, "work", "unwinding")
  /\ UNCHANGED <<jobsOnly, llmFree, convQ, lintQ, pool>>

CallRefused(r) ==
  /\ job[r]["work"] = "cleared"
  /\ pool' = [pool EXCEPT ![r].limited = TRUE]
  /\ Enter(r, "work", "asking")
  /\ UNCHANGED <<jobsOnly, llmFree, convQ, lintQ>>

CallStart(r) ==
  /\ job[r]["work"] = "cleared" /\ pool[r].calls < MaxCalls
  /\ pool' = [pool EXCEPT ![r].calls = @ + 1]
  /\ Enter(r, "work", "calling")
  /\ UNCHANGED <<jobsOnly, llmFree, convQ, lintQ>>

\* The provider answers (or fails inside enrich, which swallows it) ..
CallReturn(r) ==
  /\ job[r]["work"] = "calling"
  /\ Enter(r, "work", "asking")
  /\ UNCHANGED <<jobsOnly, llmFree, convQ, lintQ, pool>>

\* .. or fails in a checker; or anything else in the try block of run_lint raises
\* between the calls (a rule checker, build_llm_checkers, the collapse): run_lint
\* falls back to the rules, permit in hand.
RunRaises(r) ==
  /\ job[r]["work"] \in {"asking", "calling"}
  /\ Enter(r, "work", "unwinding")
  /\ UNCHANGED <<jobsOnly, llmFree, convQ, lintQ, pool>>

LostPermit(phase) == IF phase = "unwinding" THEN 0 ELSE 1   \* mutant: no release after a failure
ExtraPermit(phase) == 1   \* mutant: the finally also covers the failed acquire
\* The finally of work() covers what comes after a successful acquire.
Released(phase) == IF phase \in Holding THEN 1 ELSE 0

\* run_lint returns; or raises, before its try block (the document, the profile)
\* or after it (the rules once more).
LlmFinish(r) ==
  /\ \/ job[r]["work"] = "asking" /\ End(r, "work", "ran")
     \/ job[r]["work"] = "asking" /\ pool[r].asked = 0 /\ End(r, "work", "raised")
     \/ job[r]["work"] = "unwinding" /\ (End(r, "work", "failed") \/ End(r, "work", "raised"))
  /\ llmFree' = llmFree + Released(job[r]["work"])
  /\ UNCHANGED <<jobsOnly, convQ, lintQ, pool>>

\* Rules-only runs: after the semaphore timed out, without a client, fallback.
RulesFinish(r, j) ==
  /\ job[r][j] \in {"degraded", "rules"}
  /\ \/ End(r, j, IF job[r][j] = "degraded" THEN "failed" ELSE "ruled")
     \/ End(r, j, "raised")
  /\ llmFree' = llmFree + Released(job[r][j])
  /\ UNCHANGED <<jobsOnly, convQ, lintQ, pool>>

\* ---- the environment -----------------------------------------------------------

Midnight ==
  /\ today < LastDay
  /\ today' = today + 1 /\ count' = EmptyLedger
  /\ UNCHANGED <<inflight, llmFree, convQ, lintQ, pc, req, bill, pool, reason, job, resp>>

\* The machine stops and starts: only the quota's file survives.
Restart ==
  /\ inflight' = MaxInflight /\ llmFree' = LlmConcurrency
  /\ convQ' = <<>> /\ lintQ' = <<>>
  /\ pc' = [r \in Requests |-> IF pc[r] \in Active THEN "lost" ELSE pc[r]]
  /\ bill' = [r \in Requests |-> IF bill[r].state = "held"
                                   THEN [bill[r] EXCEPT !.state = "lost"] ELSE bill[r]]
  /\ job' = [r \in Requests |-> [j \in Jobs |-> "none"]]
  /\ UNCHANGED <<ledger, req, pool, reason, resp>>
-------------------------------------------------------------------------------
Arrive(r) ==
  \/ Overloaded(r) \/ RejectInput(r) \/ AdmitText(r) \/ TextClientRaised(r) \/ AdmitFile(r)

Handle(r) ==
  \/ ConvertResume(r) \/ FileClientRaised(r) \/ ConvertRejected(r) \/ ConvertTimeout(r)
  \/ LintResume(r) \/ LintRaised(r) \/ RulesTimeout(r) \/ LlmTimeout(r)
  \/ FallbackResume(r) \/ FallbackTimeout(r)

BugWorkThread(r) ==   \* mutant: the SDK timeout is not injected, the provider hangs
  \/ SemAcquire(r) \/ SemTimeout(r)
  \/ AskCleared(r) \/ AskAborted(r) \/ CallRefused(r) \/ CallStart(r)
  \/ LlmFinish(r) \/ RulesFinish(r, "work")
\* The thread that runs work().
WorkThread(r) ==
  \/ SemAcquire(r) \/ SemTimeout(r)
  \/ AskCleared(r) \/ AskAborted(r) \/ CallRefused(r) \/ CallStart(r)
  \/ CallReturn(r) \/ RunRaises(r) \/ LlmFinish(r) \/ RulesFinish(r, "work")

Next ==
  \/ \E r \in Requests :
       Arrive(r) \/ Handle(r) \/ WorkThread(r) \/ RulesFinish(r, "fall") \/ ConvertFinish(r)
  \/ ConvertPop \/ LintPop
  \/ Midnight \/ Restart

Spec == Init /\ [][Next]_vars

\* The loop runs a handler whose future or timer is due, a worker thread is
\* scheduled, a provider call ends by the SDK timeout.  A conversion need not
\* end (ConvertFinish), nobody need arrive and nothing need crash.
FairSpec ==
  /\ Spec
  /\ \A r \in Requests :
       WF_vars(Handle(r)) /\ WF_vars(WorkThread(r)) /\ WF_vars(RulesFinish(r, "fall"))
  /\ WF_vars(ConvertPop) /\ WF_vars(LintPop)
-------------------------------------------------------------------------------
\* Every variable keeps its type.
Pools == [client : BOOLEAN, calls : 0 .. MaxCalls, asked : 0 .. MaxAsks,
          cancelled : BOOLEAN, limited : BOOLEAN]
Reasons == {"none", "quota_global", "quota_ip", "quota_admin", "llm_error"}
TypeOK ==
  /\ today \in Days /\ count \in Ledgers
  /\ inflight \in 0 .. MaxInflight /\ llmFree \in 0 .. LlmConcurrency
  /\ convQ \in Seq(Requests) /\ lintQ \in Seq(Requests \X {"work", "fall"})
  /\ pc \in [Requests -> Active \cup {"new", "done", "lost"}]
  /\ req \in [Requests -> Kinds]
  /\ bill \in [Requests -> [state : {"none", "held", "refunded", "kept", "lost"}, day : Days]]
  /\ pool \in [Requests -> Pools]
  /\ reason \in [Requests -> Reasons]
  /\ job \in [Requests -> [Jobs -> Phases]]
  /\ resp \in [Requests -> [status : {0, 200, 411, 413, 422, 500, 503}, ran : BOOLEAN,
                            reason : Reasons, partial : BOOLEAN]]

\* No path through timeouts, fallbacks, zombies and crashes loses or invents a
\* permit: _inflight counts the handlers under way, _llm_sem the threads inside
\* its try block, so paid calls in flight never exceed LlmConcurrency.
PermitsConserved ==
  /\ inflight + Cardinality({ r \in Requests : pc[r] \in Active }) = MaxInflight
  /\ llmFree + Cardinality({ r \in Requests : job[r]["work"] \in Holding }) = LlmConcurrency

\* A queued job that is still live has a handler waiting for exactly this job:
\* no worker ever begins work for a request that has moved on.
WorkOnlyForWaiting ==
  \A r \in Requests, j \in Jobs : job[r][j] = "queued" => Awaited(r, j)

\* A charge is kept for a paid call.  Without one it stands only if the answer is
\* the 500 of a raising client or engine, or a report of an AI run that had no
\* need to ask or whose every ask was cut, and then the report says so.  Every
\* other charge without a call has been given back by the time of the answer.
KeptChargeExplained ==
  \A r \in Requests :
    bill[r].state = "kept" =>
      \/ pool[r].calls > 0
      \/ resp[r].status = 500
      \/ resp[r].ran /\ (pool[r].asked > 0 => resp[r].partial)

\* No paid call without a charge, and a refunded request has at most the one
\* call its thread had cleared before the cancel; it never shows AI results.
PaidCallsCharged ==
  \A r \in Requests :
    /\ pool[r].calls > 0 => bill[r].state # "none"
    /\ bill[r].state = "refunded" =>
         /\ pool[r].calls > 0 => pool[r].calls = 1 /\ pool[r].cancelled
         /\ ~resp[r].ran

\* llm_ran and llm_skipped_reason agree: a report says the AI ran exactly when
\* it was asked for and no reason for skipping it is given.
HonestReport ==
  \A r \in Requests :
    resp[r].status = 200 => (resp[r].ran <=> req[r].llm /\ resp[r].reason = "none")

\* Towards the quota the service behaves as QuotaLedger allows: a charge is
\* taken under the caps of its day and given back at most once, and only before
\* its request is answered.
Owed == [k \in Keys |-> [d \in Days |->
  Cardinality({ r \in Requests : bill[r].state = "held" /\ bill[r].day = d /\ req[r].who = k })]]
Ledger == INSTANCE QuotaLedger WITH day <- today, owed <- Owed
ImplementsLedger == Ledger!LedgerSpec

\* Every admitted request is answered unless the machine restarts, even when a
\* conversion hangs forever: the timers see to it.
EveryRequestAnswered ==
  \A r \in Requests : pc[r] \in Active ~> pc[r] \in {"done", "lost"}

\* A thread that holds an LLM slot gives it back, also when its request is long
\* gone: zombies cannot eat the semaphore up.
LlmSlotReturns ==
  \A r \in Requests : job[r]["work"] \in Holding ~> job[r]["work"] \notin Holding

\* A refund means that no external call was made (the comment at main.py:238).
\* The look at the cancel event outside the pool's lock breaks it.
RefundMeansNoPaidCall ==
  \A r \in Requests : bill[r].state = "refunded" => pool[r].calls = 0

===============================================================================
