--------------------------- MODULE LintServiceProofs ----------------------------
(***************************************************************************)
(* What holds of LintService.tla for any number of requests, permits,      *)
(* workers and calls.                                                      *)
(*                                                                         *)
(* The argument: a step of the service is a step of one request (but for   *)
(* midnight and the restart), so what it does to the permits is what that  *)
(* request alone gains or gives back, and what is known of a request at    *)
(* each stage (its jobs, its pool, its charge) need only be shown again    *)
(* for the request that moved.                                             *)
(***************************************************************************)
EXTENDS LintService, QuotaRulesProofs

\* ---- types -------------------------------------------------------------------
Bills == [state : {"none", "held", "refunded", "kept", "lost"}, day : Days]
Answers == [status : {0, 200, 411, 413, 422, 500, 503}, ran : BOOLEAN,
            reason : Reasons, partial : BOOLEAN]
Stages == Active \cup {"new", "done", "lost"}

Types ==
  /\ today \in Days /\ count \in Ledgers
  /\ inflight \in Nat /\ llmFree \in Nat
  /\ convQ \in Seq(Requests) /\ lintQ \in Seq(Requests \X {"work", "fall"})
  /\ pc \in [Requests -> Stages]
  /\ req \in [Requests -> Kinds]
  /\ bill \in [Requests -> Bills]
  /\ pool \in [Requests -> Pools]
  /\ reason \in [Requests -> Reasons]
  /\ job \in [Requests -> [Jobs -> Phases]]
  /\ resp \in [Requests -> Answers]

LEMMA InitTypes == Init => Types
<1> SUFFICES ASSUME Init  PROVE Types
  OBVIOUS
<1> USE BoundsAssumption, LastDayAssumption, EmptyTotal
<1>1. /\ today \in Days /\ count \in Ledgers /\ inflight \in Nat /\ llmFree \in Nat
      /\ convQ \in Seq(Requests) /\ lintQ \in Seq(Requests \X {"work", "fall"})
      /\ pc \in [Requests -> Stages] /\ req \in [Requests -> Kinds]
  BY DEF Init, Days, Stages
<1>2. NoBill \in Bills /\ NoPool \in Pools /\ NoAnswer \in Answers /\ "none" \in Phases
  BY DEF NoBill, Bills, Days, NoPool, Pools, NoAnswer, Answers, Reasons, Phases
<1>3. /\ bill \in [Requests -> Bills] /\ pool \in [Requests -> Pools]
      /\ reason \in [Requests -> Reasons] /\ resp \in [Requests -> Answers]
  BY <1>2 DEF Init, Reasons
<1>4. job \in [Requests -> [Jobs -> Phases]]
  BY <1>2 DEF Init
<1> QED  BY <1>1, <1>3, <1>4 DEF Types

LEMMA VerdictRange ==
  \A c, k : Verdict(c, k) \in (Reasons \ {"none"}) \cup {"granted"}
BY DEF Verdict, Reasons

\* The pieces of the handler keep the types of what they assign.
LEMMA GiveBackType ==
  ASSUME Types, NEW r \in Requests, GiveBack(req[r].who)
  PROVE  count' \in Ledgers
<1>1. count \in [Keys -> Nat]
  BY DEF Types, Ledgers
<1>2. \A n \in Nat : Decremented(n) \in Nat
  BY DEF Decremented, AtLeastZero
<1> QED  BY <1>1, <1>2 DEF GiveBack, Ledgers

LEMMA AnswerType ==
  ASSUME Types, NEW r \in Requests, NEW a \in Answers, Answer(r, a)
  PROVE  pc' \in [Requests -> Stages] /\ resp' \in [Requests -> Answers] /\ inflight' \in Nat
BY DEF Types, Answer, Stages

LEMMA ErrorType ==
  ASSUME NEW status \in {411, 413, 422, 500, 503}  PROVE Error(status) \in Answers
<1>1. NoAnswer \in Answers
  BY DEF NoAnswer, Answers, Reasons
<1> QED  BY <1>1 DEF Error, Answers

LEMMA EnterType ==
  ASSUME Types, NEW r \in Requests, NEW j \in Jobs, NEW phase \in Phases, Enter(r, j, phase)
  PROVE  job' \in [Requests -> [Jobs -> Phases]]
BY DEF Types, Enter

LEMMA PhaseNames ==
  /\ Holding \subseteq Phases /\ Busy \subseteq Phases /\ Finished \subseteq Phases
  /\ "none" \in Phases /\ "queued" \in Phases
  /\ \A phase \in Phases : Abandoned(phase) \in Phases
BY DEF Phases, Busy, Holding, Finished, Abandoned

LEMMA SettledType == \A b \in Bills : Settled(b) \in Bills /\ Refunded(b) \in Bills
BY DEF Settled, Refunded, Bills

LEMMA RefundIfType ==
  ASSUME Types, NEW due, NEW r \in Requests, NEW kept \in Bills, RefundIf(due, r, kept)
  PROVE  count' \in Ledgers /\ bill' \in [Requests -> Bills]
<1>1. Refunded(bill[r]) \in Bills
  BY SettledType DEF Types
<1>2. bill' \in [Requests -> Bills]
  BY <1>1 DEF RefundIf, Types
<1> QED  BY <1>2, GiveBackType DEF RefundIf, Types

LEMMA ReportType ==
  ASSUME Types, NEW r \in Requests, NEW phase, NEW why \in Reasons
  PROVE  Report(r, phase, why) \in Answers
<1>1. pool[r].client \in BOOLEAN /\ pool[r].limited \in BOOLEAN
  BY DEF Types, Pools
<1> QED  BY <1>1 DEF Report, Partial, Answers

LEMMA BeginLintType ==
  ASSUME Types, NEW r \in Requests, BeginLint(r)
  PROVE  /\ today' \in Days /\ count' \in Ledgers /\ llmFree' \in Nat
         /\ lintQ' \in Seq(Requests \X {"work", "fall"})
         /\ pc' \in [Requests -> Stages] /\ req' \in [Requests -> Kinds]
         /\ bill' \in [Requests -> Bills] /\ pool' \in [Requests -> Pools]
         /\ reason' \in [Requests -> Reasons] /\ resp' \in [Requests -> Answers]
<1>1. req[r] \in Kinds /\ req[r].who \in Keys
  BY KindsAssumption DEF Types
<1>2. /\ today' \in Days /\ llmFree' \in Nat /\ req' \in [Requests -> Kinds]
      /\ pc' \in [Requests -> Stages] /\ resp' \in [Requests -> Answers]
      /\ lintQ' \in Seq(Requests \X {"work", "fall"})
  <2>1. pc' = [pc EXCEPT ![r] = "linting"] /\ lintQ' = Append(lintQ, <<r, "work">>)
        /\ UNCHANGED <<today, llmFree, req, resp>>
    BY DEF BeginLint, Submit
  <2>2. "linting" \in Stages
    BY DEF Stages, Active
  <2>3. <<r, "work">> \in Requests \X {"work", "fall"}
    OBVIOUS
  <2> QED  BY <2>1, <2>2, <2>3 DEF Types
<1>3. count' \in Ledgers
  <2>1. count \in [Keys -> Nat] /\ [count EXCEPT ![req[r].who] = @ + 1] \in Ledgers
    BY <1>1 DEF Types, Ledgers
  <2> QED  BY <2>1 DEF BeginLint, Ledgers
<1>4. bill' \in [Requests -> Bills]
  <2>1. [state |-> "held", day |-> today] \in Bills /\ [state |-> "refunded", day |-> today] \in Bills
    BY DEF Types, Bills
  <2> QED  BY <2>1 DEF BeginLint, Types
<1>5. pool' \in [Requests -> Pools]
  <2>1. [pool[r] EXCEPT !.client = TRUE] \in Pools
    BY ZenonT(30) DEF Types, Pools
  <2> QED  BY <2>1 DEF BeginLint, Types
<1>6. reason' \in [Requests -> Reasons]
  <2>1. Verdict(count, req[r].who) # "granted" => Verdict(count, req[r].who) \in Reasons
    BY VerdictRange
  <2>2. "llm_error" \in Reasons
    BY DEF Reasons
  <2> QED  BY <2>1, <2>2 DEF BeginLint, Types
<1> QED  BY <1>2, <1>3, <1>4, <1>5, <1>6

LEMMA ClientRaisedType ==
  ASSUME Types, NEW r \in Requests, ClientRaised(r)
  PROVE  /\ count' \in Ledgers /\ bill' \in [Requests -> Bills]
         /\ pc' \in [Requests -> Stages] /\ resp' \in [Requests -> Answers]
<1>1. req[r].who \in Keys
  BY KindsAssumption DEF Types
<1>2. count \in [Keys -> Nat] /\ [count EXCEPT ![req[r].who] = @ + 1] \in Ledgers
  BY <1>1 DEF Types, Ledgers
<1>3. [state |-> "kept", day |-> today] \in Bills /\ "done" \in Stages /\ Error(500) \in Answers
  BY ErrorType DEF Types, Bills, Stages
<1> QED  BY <1>2, <1>3 DEF ClientRaised, Types

LEMMA TypesNext ==
  ASSUME Types, [Next]_vars
  PROVE  Types'
<1> USE PhaseNames, BoundsAssumption
<1>1. ASSUME NEW r \in Requests, Arrive(r)  PROVE Types'
  <2>1. CASE Overloaded(r)
    <3>1. "done" \in Stages /\ Error(503) \in Answers
      BY ErrorType DEF Stages
    <3> QED  BY <2>1, <3>1 DEF Overloaded, Types, ledger
  <2>2. CASE RejectInput(r)
    <3>1. "done" \in Stages /\ \A status \in {411, 413, 422} : Error(status) \in Answers
      BY ErrorType DEF Stages
    <3> QED  BY <2>2, <3>1 DEF RejectInput, Types, ledger
  <2>3. CASE AdmitText(r)
    <3>1. BeginLint(r) /\ job' \in [Requests -> [Jobs -> Phases]] /\ inflight' \in Nat
      BY <2>3 DEF AdmitText, Types, Jobs
    <3> QED  BY <2>3, <3>1, BeginLintType DEF AdmitText, Types
  <2>4. CASE AdmitFile(r)
    <3>1. job' \in [Requests -> [Jobs -> Phases]] /\ inflight' \in Nat /\ "converting" \in Stages
      BY <2>4 DEF AdmitFile, Types, Jobs, Stages, Active
    <3> QED  BY <2>4, <3>1 DEF AdmitFile, Types, ledger
  <2>5. CASE TextClientRaised(r)
    BY <2>5, ClientRaisedType DEF TextClientRaised, ClientRaised, Types
  <2> QED  BY <1>1, <2>1, <2>2, <2>3, <2>4, <2>5 DEF Arrive
<1>2. ASSUME NEW r \in Requests, Handle(r)  PROVE Types'
  <2>1. CASE ConvertResume(r)
    <3>1. BeginLint(r) /\ job' \in [Requests -> [Jobs -> Phases]]
      BY <2>1 DEF ConvertResume, Types, Jobs
    <3> QED  BY <2>1, <3>1, BeginLintType DEF ConvertResume, Types
  <2>2. CASE ConvertRejected(r)
    <3>1. PICK status \in {413, 422, 500} : Answer(r, Error(status))
      BY <2>2 DEF ConvertRejected
    <3>2. Error(status) \in Answers
      BY ErrorType
    <3>3. job' \in [Requests -> [Jobs -> Phases]]
      BY <2>2, EnterType DEF ConvertRejected, Jobs
    <3> QED  BY <2>2, <3>1, <3>2, <3>3, AnswerType DEF ConvertRejected, Types, ledger
  <2>3. CASE ConvertTimeout(r)
    <3>1. Answer(r, Error(422)) /\ Error(422) \in Answers
      BY <2>3, ErrorType DEF ConvertTimeout
    <3>2. job' \in [Requests -> [Jobs -> Phases]]
      BY <2>3 DEF ConvertTimeout, Types, Jobs
    <3> QED  BY <2>3, <3>1, <3>2, AnswerType DEF ConvertTimeout, Types, ledger
  <2>4. CASE LintResume(r)
    <3> DEFINE phase == job[r]["work"]
               why == IF phase = "failed" THEN "llm_error" ELSE reason[r]
    <3>1. /\ why \in Reasons /\ Settled(bill[r]) \in Bills
          /\ reason' \in [Requests -> Reasons]
      BY <2>4, SettledType DEF LintResume, Types, Reasons
    <3>2. count' \in Ledgers /\ bill' \in [Requests -> Bills]
      BY <2>4, <3>1, RefundIfType DEF LintResume
    <3>3. Answer(r, Report(r, phase, why)) /\ Report(r, phase, why) \in Answers
      BY <2>4, <3>1, ReportType DEF LintResume
    <3>4. job' \in [Requests -> [Jobs -> Phases]]
      BY <2>4, EnterType DEF LintResume, Jobs
    <3> HIDE DEF phase, why
    <3> QED  BY <2>4, <3>1, <3>2, <3>3, <3>4, AnswerType DEF LintResume, Types
  <2>5. CASE LintRaised(r)
    <3>1. Answer(r, Error(500)) /\ Error(500) \in Answers
      BY <2>5, ErrorType DEF LintRaised
    <3>2. job' \in [Requests -> [Jobs -> Phases]] /\ bill' \in [Requests -> Bills]
      BY <2>5, EnterType, SettledType DEF LintRaised, Jobs, Types
    <3> QED  BY <2>5, <3>1, <3>2, AnswerType DEF LintRaised, Types, ledger
  <2>6. CASE RulesTimeout(r)
    <3>1. Answer(r, Error(500)) /\ Error(500) \in Answers
      BY <2>6, ErrorType DEF RulesTimeout
    <3>2. job' \in [Requests -> [Jobs -> Phases]]
      BY <2>6 DEF RulesTimeout, Types, Jobs
    <3> QED  BY <2>6, <3>1, <3>2, AnswerType DEF RulesTimeout, Types, ledger
  <2>7. CASE LlmTimeout(r)
    <3>1. count' \in Ledgers /\ bill' \in [Requests -> Bills]
      BY <2>7, RefundIfType DEF LlmTimeout, Types
    <3>2. job' \in [Requests -> [Jobs -> Phases]]
      <4> DEFINE js == [job[r] EXCEPT !["work"] = Abandoned(job[r]["work"]), !["fall"] = "queued"]
      <4>1. job[r] \in [Jobs -> Phases] /\ Abandoned(job[r]["work"]) \in Phases
        BY DEF Types, Jobs
      <4>2. js \in [Jobs -> Phases] /\ job' = [job EXCEPT ![r] = js]
        BY <2>7, <4>1 DEF LlmTimeout
      <4> HIDE DEF js
      <4> QED  BY <4>2 DEF Types
    <3>3. pool' \in [Requests -> Pools] /\ reason' \in [Requests -> Reasons]
      BY <2>7, ZenonT(30) DEF LlmTimeout, Types, Pools, Reasons
    <3>4. pc' \in [Requests -> Stages] /\ lintQ' \in Seq(Requests \X {"work", "fall"})
      BY <2>7 DEF LlmTimeout, Submit, Types, Stages, Active
    <3> QED  BY <2>7, <3>1, <3>2, <3>3, <3>4 DEF LlmTimeout, Types
  <2>8. CASE FallbackResume(r)
    <3>1. Answer(r, Report(r, "ruled", reason[r])) /\ Report(r, "ruled", reason[r]) \in Answers
      BY <2>8, ReportType DEF FallbackResume, Types
    <3>2. job' \in [Requests -> [Jobs -> Phases]] /\ bill' \in [Requests -> Bills]
      BY <2>8, EnterType, SettledType DEF FallbackResume, Jobs, Types
    <3> QED  BY <2>8, <3>1, <3>2, AnswerType DEF FallbackResume, Types, ledger
  <2>9. CASE FallbackTimeout(r)
    <3>1. Answer(r, Error(503)) /\ Error(503) \in Answers
      BY <2>9, ErrorType DEF FallbackTimeout
    <3>2. job' \in [Requests -> [Jobs -> Phases]] /\ bill' \in [Requests -> Bills]
      BY <2>9, SettledType DEF FallbackTimeout, Jobs, Types
    <3> QED  BY <2>9, <3>1, <3>2, AnswerType DEF FallbackTimeout, Types, ledger
  <2>10. CASE FileClientRaised(r)
    <3>1. job' \in [Requests -> [Jobs -> Phases]] /\ inflight' \in Nat
      BY <2>10, EnterType DEF FileClientRaised, Jobs, Types
    <3> QED  BY <2>10, <3>1, ClientRaisedType DEF FileClientRaised, ClientRaised, Types
  <2> QED  BY <1>2, <2>1, <2>2, <2>3, <2>4, <2>5, <2>6, <2>7, <2>8, <2>9, <2>10 DEF Handle
<1>3. ASSUME NEW r \in Requests, WorkThread(r)  PROVE Types'
  <2>1. "work" \in Jobs /\ {"asking", "cleared", "calling", "unwinding", "degraded"} \subseteq Phases
    BY DEF Jobs, Phases, Busy, Holding
  <2>2. CASE SemAcquire(r)
    BY <2>1, <2>2, EnterType DEF SemAcquire, jobsOnly, ledger, Types
  <2>3. CASE SemTimeout(r)
    BY <2>1, <2>3, EnterType DEF SemTimeout, jobsOnly, ledger, Types
  <2>4. CASE AskCleared(r)
    <3>1. pool[r] \in Pools /\ MaxAsks \in Nat /\ MaxCalls \in Nat
      BY DEF Types
    <3>2. [pool[r] EXCEPT !.asked = @ + 1] \in Pools
      BY <2>4, <3>1 DEF AskCleared, Pools
    <3>3. pool' \in [Requests -> Pools]
      BY <2>4, <3>2 DEF AskCleared, Types
    <3> QED  BY <2>1, <2>4, <3>3, EnterType DEF AskCleared, jobsOnly, ledger, Types
  <2>5. CASE AskAborted(r)
    BY <2>1, <2>5, EnterType DEF AskAborted, jobsOnly, ledger, Types
  <2>6. CASE CallRefused(r)
    <3>1. pool[r] \in Pools /\ MaxAsks \in Nat /\ MaxCalls \in Nat
      BY DEF Types
    <3>2. [pool[r] EXCEPT !.limited = TRUE] \in Pools
      BY <2>6, <3>1 DEF CallRefused, Pools
    <3>3. pool' \in [Requests -> Pools]
      BY <2>6, <3>2 DEF CallRefused, Types
    <3> QED  BY <2>1, <2>6, <3>3, EnterType DEF CallRefused, jobsOnly, ledger, Types
  <2>7. CASE CallStart(r)
    <3>1. pool[r] \in Pools /\ MaxAsks \in Nat /\ MaxCalls \in Nat
      BY DEF Types
    <3>2. [pool[r] EXCEPT !.calls = @ + 1] \in Pools
      BY <2>7, <3>1 DEF CallStart, Pools
    <3>3. pool' \in [Requests -> Pools]
      BY <2>7, <3>2 DEF CallStart, Types
    <3> QED  BY <2>1, <2>7, <3>3, EnterType DEF CallStart, jobsOnly, ledger, Types
  <2>8. CASE CallReturn(r)
    BY <2>1, <2>8, EnterType DEF CallReturn, jobsOnly, ledger, Types
  <2>9. CASE RunRaises(r)
    BY <2>1, <2>9, EnterType DEF RunRaises, jobsOnly, ledger, Types
  <2>10. CASE LlmFinish(r)
    <3>1. PICK phase \in {"ran", "failed", "raised"} : End(r, "work", phase)
      BY <2>10 DEF LlmFinish
    <3>2. phase \in Phases
      BY DEF Phases, Finished
    <3>3. job' \in [Requests -> [Jobs -> Phases]]
      BY <2>1, <3>1, <3>2, EnterType DEF End
    <3> QED  BY <2>10, <3>3 DEF LlmFinish, Released, jobsOnly, ledger, Types
  <2>11. CASE RulesFinish(r, "work")
    <3>1. PICK phase \in {"failed", "ruled", "raised"} : End(r, "work", phase)
      BY <2>11 DEF RulesFinish
    <3>2. phase \in Phases
      BY DEF Phases, Finished
    <3>3. job' \in [Requests -> [Jobs -> Phases]]
      BY <2>1, <3>1, <3>2, EnterType DEF End
    <3> QED  BY <2>11, <3>3 DEF RulesFinish, Released, jobsOnly, ledger, Types
  <2> QED  BY <1>3, <2>2, <2>3, <2>4, <2>5, <2>6, <2>7, <2>8, <2>9, <2>10, <2>11 DEF WorkThread
<1>4. ASSUME NEW r \in Requests, RulesFinish(r, "fall")  PROVE Types'
  <2>1. PICK phase \in {"failed", "ruled", "raised"} : End(r, "fall", phase)
    BY <1>4 DEF RulesFinish
  <2>2. phase \in Phases /\ "fall" \in Jobs
    BY DEF Phases, Finished, Jobs
  <2>3. job' \in [Requests -> [Jobs -> Phases]]
    BY <2>1, <2>2, EnterType DEF End
  <2> QED  BY <1>4, <2>3 DEF RulesFinish, Released, jobsOnly, ledger, Types
<1>5. ASSUME NEW r \in Requests, ConvertFinish(r)  PROVE Types'
  <2>1. PICK phase \in {"ok", "bad"} : End(r, "convert", phase)
    BY <1>5 DEF ConvertFinish
  <2>2. phase \in Phases /\ "convert" \in Jobs
    BY DEF Phases, Finished, Jobs
  <2>3. job' \in [Requests -> [Jobs -> Phases]]
    BY <2>1, <2>2, EnterType DEF End
  <2> QED  BY <1>5, <2>3 DEF ConvertFinish, jobsOnly, ledger, Types
<1>6. ASSUME ConvertPop  PROVE Types'
  <2>1. Head(convQ) \in Requests /\ Tail(convQ) \in Seq(Requests)
    BY <1>6 DEF ConvertPop, Types
  <2>2. PICK phase \in {"running", "none"} : Enter(Head(convQ), "convert", phase)
    BY <1>6 DEF ConvertPop
  <2>3. phase \in Phases /\ "convert" \in Jobs
    BY DEF Phases, Busy, Jobs
  <2>4. job' \in [Requests -> [Jobs -> Phases]]
    BY <2>1, <2>2, <2>3, EnterType
  <2> QED  BY <1>6, <2>1, <2>4 DEF ConvertPop, jobsOnly, ledger, Types
<1>7. ASSUME LintPop  PROVE Types'
  <2>1. /\ Head(lintQ) \in Requests \X {"work", "fall"}
        /\ Tail(lintQ) \in Seq(Requests \X {"work", "fall"})
    BY <1>7 DEF LintPop, Types
  <2>2. Head(lintQ)[1] \in Requests /\ Head(lintQ)[2] \in Jobs
    BY <2>1 DEF Jobs
  <2>3. PICK phase \in {"waiting", "rules", "none"} : Enter(Head(lintQ)[1], Head(lintQ)[2], phase)
    BY <1>7 DEF LintPop
  <2>4. phase \in Phases
    BY DEF Phases, Busy
  <2>5. job' \in [Requests -> [Jobs -> Phases]]
    BY <2>2, <2>3, <2>4, EnterType
  <2> QED  BY <1>7, <2>1, <2>5 DEF LintPop, jobsOnly, ledger, Types
<1>8. ASSUME Midnight  PROVE Types'
  BY <1>8, EmptyTotal, LastDayAssumption DEF Midnight, Types, Days
<1>9. ASSUME Restart  PROVE Types'
  <2>1. pc' \in [Requests -> Stages]
    BY <1>9 DEF Restart, Types, Stages
  <2>2. bill' \in [Requests -> Bills]
    BY <1>9 DEF Restart, Types, Bills
  <2> QED  BY <1>9, <2>1, <2>2 DEF Restart, Types, ledger
<1>10. CASE UNCHANGED vars
  BY <1>10 DEF vars, ledger, Types
<1> QED  BY <1>1, <1>2, <1>3, <1>4, <1>5, <1>6, <1>7, <1>8, <1>9, <1>10 DEF Next

\* ---- what is known of one request at each stage --------------------------------
\* Its jobs: which may exist, and that a queued one is awaited.
JobsFit(r) ==
  /\ pc[r] = "new" => \A j \in Jobs : job[r][j] = "none"
  /\ pc[r] = "converting" => job[r]["work"] = "none"
  /\ pc[r] \in {"converting", "linting"} => job[r]["fall"] = "none"
  /\ \A j \in Jobs : job[r][j] = "queued" => Awaited(r, j)

\* The thread of work() took the branch that llm_client chose, and an ask that
\* led to no call was cut.
ThreadFits(r) ==
  /\ job[r]["work"] \in Holding \cup {"waiting", "degraded", "ran", "failed"} => pool[r].client
  /\ job[r]["work"] \in {"rules", "ruled"} => ~pool[r].client
  /\ pc[r] \in {"new", "converting"} \/ job[r]["work"] \in {"queued", "waiting"} => pool[r].asked = 0
  /\ job[r]["work"] = "calling" => pool[r].calls > 0
  /\ job[r]["work"] \in {"asking", "ran"} /\ pool[r].asked > 0 =>
       pool[r].calls > 0 \/ pool[r].limited

\* Its charge, its client and its skipped_reason.
ChargeFits(r) ==
  /\ pool[r].client => bill[r].state # "none" /\ req[r].llm
  /\ pool[r].calls > 0 => pool[r].client
  /\ pc[r] \in {"new", "converting"} =>
       ~pool[r].client /\ ~pool[r].cancelled /\ bill[r].state = "none" /\ reason[r] = "none"
  /\ pc[r] = "linting" /\ pool[r].client =>
       bill[r].state = "held" /\ reason[r] = "none" /\ ~pool[r].cancelled
  /\ pc[r] = "linting" /\ ~pool[r].client =>
       bill[r].state \in {"none", "refunded"} /\ (req[r].llm => reason[r] # "none")
  /\ pc[r] = "fallback" =>
       /\ reason[r] = "llm_error" /\ pool[r].cancelled
       /\ bill[r].state = "held" => pool[r].calls > 0
       /\ bill[r].state \in {"held", "refunded"}
  /\ bill[r].state = "held" => pc[r] \in {"linting", "fallback"}

\* After a refund: without a cancel nothing runs, with it at most the call that
\* was cleared before.
RefundFits(r) ==
  /\ bill[r].state = "refunded" /\ ~pool[r].cancelled =>
       pool[r].calls = 0 /\ job[r]["work"] \notin Holding \cup {"waiting"}
  /\ bill[r].state = "refunded" /\ pool[r].cancelled =>
       \/ pool[r].calls = 0
       \/ pool[r].calls = 1 /\ job[r]["work"] # "cleared"

\* Its answer.
AnswerFits(r) ==
  /\ pc[r] # "done" => resp[r].status = 0 /\ ~resp[r].ran
  /\ bill[r].state = "kept" =>
       \/ pool[r].calls > 0
       \/ resp[r].status = 500
       \/ resp[r].ran /\ (pool[r].asked > 0 => resp[r].partial)
  /\ resp[r].ran => job[r]["work"] = "none"
  /\ bill[r].state = "refunded" => ~resp[r].ran
  /\ resp[r].status = 200 => (resp[r].ran <=> req[r].llm /\ resp[r].reason = "none")

RequestInv(r) ==
  JobsFit(r) /\ ThreadFits(r) /\ ChargeFits(r) /\ RefundFits(r) /\ AnswerFits(r)

\* An entry of the lint queue is a job no worker has begun, and is there once:
\* else a pop would stop a running thread in its tracks.
QueueInv ==
  /\ \A i \in DOMAIN lintQ : job[lintQ[i][1]][lintQ[i][2]] \in {"queued", "dropped"}
  /\ \A i, k \in DOMAIN lintQ : lintQ[i] = lintQ[k] => i = k

LintInv ==
  /\ Types
  /\ \A r \in Requests : RequestInv(r)
  /\ QueueInv
  /\ PermitsConserved

\* ---- the argument: one request moves at a time -----------------------------------
Same(q) ==
  /\ pc'[q] = pc[q] /\ req'[q] = req[q] /\ bill'[q] = bill[q] /\ pool'[q] = pool[q]
  /\ reason'[q] = reason[q] /\ job'[q] = job[q] /\ resp'[q] = resp[q]
OnlyMoves(r) == \A q \in Requests : q # r => Same(q)

\* What r takes from the permits is what it holds afterwards.
Held(b) == IF b THEN 1 ELSE 0
PermitsBalance(r) ==
  /\ inflight' + Held(pc'[r] \in Active) = inflight + Held(pc[r] \in Active)
  /\ llmFree' + Held(job'[r]["work"] \in Holding) = llmFree + Held(job[r]["work"] \in Holding)

\* What r does to the lint queue: nothing, or a fresh job enters.  A job that
\* no worker has begun stays so.
QueueGrows(r) ==
  /\ \A j \in {"work", "fall"} :
       job[r][j] \in {"queued", "dropped"} => job'[r][j] \in {"queued", "dropped"}
  /\ \/ lintQ' = lintQ
     \/ \E j \in {"work", "fall"} :
          /\ lintQ' = Append(lintQ, <<r, j>>)
          /\ job[r][j] = "none" /\ job'[r][j] = "queued"

\* A request that did not move keeps what is known of it.
LEMMA SameKeepsInv ==
  ASSUME NEW q \in Requests, RequestInv(q), Same(q)
  PROVE  RequestInv(q)'
BY DEF Same, RequestInv, JobsFit, Awaited, ThreadFits, ChargeFits, RefundFits, AnswerFits

\* Sets that differ at most in r differ in size by r.
LEMMA CountMoves ==
  ASSUME NEW A, NEW B, NEW r, IsFiniteSet(A), \A q : q # r => (q \in A <=> q \in B)
  PROVE  Cardinality(B) + Held(r \in A) = Cardinality(A) + Held(r \in B)
<1>1. Cardinality(A) \in Nat
  BY FS_CardinalityType
<1>2. CASE r \in A /\ r \notin B
  <2>1. B = A \ {r}
    BY <1>2
  <2>2. Cardinality(B) = Cardinality(A) - 1
    BY <1>2, <2>1, FS_RemoveElement
  <2>3. Held(r \in A) = 1 /\ Held(r \in B) = 0
    BY <1>2 DEF Held
  <2> QED  BY <1>1, <2>2, <2>3
<1>3. CASE r \notin A /\ r \in B
  <2>1. B = A \cup {r}
    BY <1>3
  <2> QED  BY <1>1, <1>3, <2>1, FS_AddElement DEF Held
<1>4. CASE r \in A <=> r \in B
  <2>1. A = B
    BY <1>4
  <2> QED  BY <1>1, <1>4, <2>1 DEF Held
<1> QED  BY <1>2, <1>3, <1>4

LEMMA BalanceConserves ==
  ASSUME Types, Types', PermitsConserved, NEW r \in Requests, OnlyMoves(r), PermitsBalance(r)
  PROVE  PermitsConserved'
<1> DEFINE Ac == { q \in Requests : pc[q] \in Active }
           Th == { q \in Requests : job[q]["work"] \in Holding }
<1>1. IsFiniteSet(Ac) /\ IsFiniteSet(Th) /\ IsFiniteSet(Ac') /\ IsFiniteSet(Th')
  BY RequestsAssumption, FS_Subset
<1>2. \A q : q # r => (q \in Ac <=> q \in Ac') /\ (q \in Th <=> q \in Th')
  BY DEF OnlyMoves, Same
<1>3. /\ r \in Ac <=> pc[r] \in Active
      /\ r \in Ac' <=> pc'[r] \in Active
      /\ r \in Th <=> job[r]["work"] \in Holding
      /\ r \in Th' <=> job'[r]["work"] \in Holding
  OBVIOUS
<1>4. /\ Cardinality(Ac) \in Nat /\ Cardinality(Ac') \in Nat
      /\ Cardinality(Th) \in Nat /\ Cardinality(Th') \in Nat
  BY <1>1, FS_CardinalityType
<1>5. /\ inflight + Cardinality(Ac) = MaxInflight
      /\ llmFree + Cardinality(Th) = LlmConcurrency
  BY DEF PermitsConserved
<1>6. Cardinality(Ac') + Held(pc[r] \in Active) = Cardinality(Ac) + Held(pc'[r] \in Active)
  <2> HIDE DEF Ac
  <2> QED  BY <1>1, <1>2, <1>3, CountMoves
<1>7. Cardinality(Th') + Held(job[r]["work"] \in Holding)
        = Cardinality(Th) + Held(job'[r]["work"] \in Holding)
  <2> HIDE DEF Th
  <2> QED  BY <1>1, <1>2, <1>3, CountMoves
<1>8. /\ inflight' + Cardinality(Ac') = MaxInflight
      /\ llmFree' + Cardinality(Th') = LlmConcurrency
  <2> HIDE DEF Ac, Th
  <2>1. /\ inflight \in Nat /\ inflight' \in Nat /\ llmFree \in Nat /\ llmFree' \in Nat
        /\ MaxInflight \in Nat /\ LlmConcurrency \in Nat
    BY BoundsAssumption DEF Types
  <2>2. /\ Held(pc[r] \in Active) \in Nat /\ Held(pc'[r] \in Active) \in Nat
        /\ Held(job[r]["work"] \in Holding) \in Nat /\ Held(job'[r]["work"] \in Holding) \in Nat
    BY DEF Held
  <2>3. /\ inflight' + Held(pc'[r] \in Active) = inflight + Held(pc[r] \in Active)
        /\ llmFree' + Held(job'[r]["work"] \in Holding)
             = llmFree + Held(job[r]["work"] \in Holding)
    BY DEF PermitsBalance
  <2>4. inflight' + Cardinality(Ac') = MaxInflight
    BY <1>4, <1>5, <1>6, <2>1, <2>2, <2>3
  <2>5. llmFree' + Cardinality(Th') = LlmConcurrency
    BY <1>4, <1>5, <1>7, <2>1, <2>2, <2>3
  <2> QED  BY <2>4, <2>5
<1> QED  BY <1>8 DEF PermitsConserved

LEMMA GrowingKeepsQueue ==
  ASSUME Types, Types', QueueInv, NEW r \in Requests, OnlyMoves(r), QueueGrows(r)
  PROVE  QueueInv'
<1> DEFINE Unbegun == {"queued", "dropped"}
<1>1. \A i \in DOMAIN lintQ : lintQ[i] \in Requests \X {"work", "fall"}
  BY DEF Types
<1>2. \A i \in DOMAIN lintQ : job'[lintQ[i][1]][lintQ[i][2]] \in Unbegun
  BY <1>1 DEF QueueInv, OnlyMoves, Same, QueueGrows
<1>3. CASE lintQ' = lintQ
  BY <1>2, <1>3 DEF QueueInv
<1>4. ASSUME NEW j \in {"work", "fall"}, lintQ' = Append(lintQ, <<r, j>>),
             job[r][j] = "none", job'[r][j] = "queued"
      PROVE  QueueInv'
  <2>1. /\ Len(lintQ) \in Nat /\ DOMAIN lintQ = 1 .. Len(lintQ)
        /\ DOMAIN lintQ' = 1 .. Len(lintQ) + 1
        /\ \A i \in DOMAIN lintQ : lintQ'[i] = lintQ[i]
        /\ lintQ'[Len(lintQ) + 1] = <<r, j>>
    BY <1>4 DEF Types
  <2>2. \A i \in DOMAIN lintQ : lintQ[i] # <<r, j>>
    BY <1>4 DEF QueueInv
  <2>3. \A i \in DOMAIN lintQ' : job'[lintQ'[i][1]][lintQ'[i][2]] \in Unbegun
    <3>1. TAKE i \in DOMAIN lintQ'
    <3>2. i \in DOMAIN lintQ \/ i = Len(lintQ) + 1
      BY <2>1
    <3> QED  BY <1>2, <1>4, <2>1, <3>2
  <2>4. \A i, k \in DOMAIN lintQ' : lintQ'[i] = lintQ'[k] => i = k
    <3>1. TAKE i, k \in DOMAIN lintQ'
    <3>2. (i \in DOMAIN lintQ \/ i = Len(lintQ) + 1) /\ (k \in DOMAIN lintQ \/ k = Len(lintQ) + 1)
      BY <2>1
    <3> QED  BY <2>1, <2>2, <3>2 DEF QueueInv
  <2> QED  BY <2>3, <2>4 DEF QueueInv
<1> QED  BY <1>3, <1>4 DEF QueueGrows

\* Together: a step of one request that fits keeps the invariant.
OneMoves(r) ==
  RequestInv(r)' /\ OnlyMoves(r) /\ PermitsBalance(r)

LEMMA OneMovesKeepsInv ==
  ASSUME LintInv, Types', NEW r \in Requests, OneMoves(r), QueueGrows(r)
  PROVE  LintInv'
<1>1. \A q \in Requests : RequestInv(q)'
  BY SameKeepsInv DEF LintInv, OneMoves, OnlyMoves
<1>2. PermitsConserved' /\ QueueInv'
  BY BalanceConserves, GrowingKeepsQueue DEF LintInv, OneMoves
<1> QED  BY <1>1, <1>2 DEF LintInv

\* ---- the steps of one request ----------------------------------------------------
\* The four ways _lint_inner takes up to the lint job.
Begun(r) ==
  /\ pc' = [pc EXCEPT ![r] = "linting"] /\ lintQ' = Append(lintQ, <<r, "work">>)
  /\ UNCHANGED <<today, llmFree, req, resp>>
  /\ \A q \in Requests :
       q # r => bill'[q] = bill[q] /\ pool'[q] = pool[q] /\ reason'[q] = reason[q]
  /\ \/ ~req[r].llm /\ UNCHANGED <<bill, pool, reason>>
     \/ req[r].llm /\ reason'[r] # "none" /\ UNCHANGED <<bill, pool>>
     \/ /\ req[r].llm /\ bill'[r].state = "held" /\ UNCHANGED reason
        /\ pool' = [pool EXCEPT ![r].client = TRUE]
     \/ req[r].llm /\ bill'[r].state = "refunded" /\ reason'[r] # "none" /\ UNCHANGED pool

LEMMA BeginLintCases ==
  ASSUME Types, NEW r \in Requests, BeginLint(r)
  PROVE  Begun(r)
<1> USE DEF Begun
<1>1. /\ pc' = [pc EXCEPT ![r] = "linting"] /\ lintQ' = Append(lintQ, <<r, "work">>)
      /\ UNCHANGED <<today, llmFree, req, resp>>
  BY DEF BeginLint, Submit
<1>2. CASE ~req[r].llm
  BY <1>1, <1>2 DEF BeginLint
<1>3. CASE req[r].llm /\ Verdict(count, req[r].who) # "granted"
  <2>1. reason' = [reason EXCEPT ![r] = Verdict(count, req[r].who)] /\ UNCHANGED <<bill, pool>>
    BY <1>3 DEF BeginLint
  <2>2. Verdict(count, req[r].who) # "none"
    BY <1>3, VerdictRange
  <2> QED  BY <1>1, <1>3, <2>1, <2>2 DEF Types
<1>4. CASE req[r].llm /\ Verdict(count, req[r].who) = "granted"
  <2>1. \/ /\ bill' = [bill EXCEPT ![r] = [state |-> "held", day |-> today]] /\ UNCHANGED reason
           /\ pool' = [pool EXCEPT ![r].client = TRUE]
        \/ /\ bill' = [bill EXCEPT ![r] = [state |-> "refunded", day |-> today]]
           /\ reason' = [reason EXCEPT ![r] = "llm_error"] /\ UNCHANGED pool
    BY <1>4 DEF BeginLint
  <2> QED  BY <1>1, <1>4, <2>1 DEF Types
<1> QED  BY <1>2, <1>3, <1>4

\* A request is answered at once or let in.
LEMMA ArriveMoves ==
  ASSUME LintInv, Types', NEW r \in Requests, Arrive(r)
  PROVE  OneMoves(r) /\ QueueGrows(r)
<1>0. BeginLint(r) => Begun(r)
  BY BeginLintCases DEF LintInv
<1> USE DEF RequestInv, JobsFit, ThreadFits, ChargeFits, RefundFits, AnswerFits, Types, Bills,
           Pools, Answers, Jobs, Active, Holding, Awaited, Enter, Same, OnlyMoves,
           PermitsBalance, Held, QueueGrows, jobsOnly, ledger
<1>1. Types /\ RequestInv(r)
  BY DEF LintInv
<1> USE <1>1
<1>2. CASE Overloaded(r)
  BY <1>2 DEF OneMoves, Overloaded, Error, NoAnswer
<1>3. CASE RejectInput(r)
  BY <1>3 DEF OneMoves, RejectInput, Error, NoAnswer
<1>4. CASE AdmitText(r)
  <2>1. /\ pc[r] = "new" /\ inflight > 0 /\ inflight' = inflight - 1 /\ BeginLint(r)
        /\ job' = [job EXCEPT ![r]["work"] = "queued"]
    BY <1>4 DEF AdmitText
  <2>2. Begun(r)
    BY <1>0, <2>1
  <2>3. OnlyMoves(r) /\ PermitsBalance(r) /\ QueueGrows(r)
    BY <2>1, <2>2 DEF Begun
  <2>4. JobsFit(r)' /\ ThreadFits(r)'
    BY <2>1, <2>2 DEF Begun
  <2>5. ChargeFits(r)'
    BY <2>1, <2>2 DEF Begun
  <2>6. RefundFits(r)'
    BY <2>1, <2>2 DEF Begun
  <2>7. AnswerFits(r)'
    BY <2>1, <2>2 DEF Begun
  <2> HIDE DEF JobsFit, ThreadFits, ChargeFits, RefundFits, AnswerFits, OnlyMoves, PermitsBalance,
               QueueGrows
  <2> QED  BY <2>3, <2>4, <2>5, <2>6, <2>7 DEF OneMoves
<1>5. CASE AdmitFile(r)
  BY <1>5 DEF OneMoves, AdmitFile, Submit
<1>6. CASE TextClientRaised(r)
  BY <1>6 DEF OneMoves, TextClientRaised, ClientRaised, Error, NoAnswer
<1> HIDE DEF RequestInv, OnlyMoves, PermitsBalance, QueueGrows
<1> QED  BY <1>2, <1>3, <1>4, <1>5, <1>6 DEF Arrive

\* A handler goes on after an await.
LEMMA HandleMoves ==
  ASSUME LintInv, Types', NEW r \in Requests, Handle(r)
  PROVE  OneMoves(r) /\ QueueGrows(r)
<1>0. BeginLint(r) => Begun(r)
  BY BeginLintCases DEF LintInv
<1> USE DEF RequestInv, JobsFit, ThreadFits, ChargeFits, RefundFits, AnswerFits, Types, Bills,
           Pools, Answers, Jobs, Active, Holding, Awaited, Enter, Same, OnlyMoves,
           PermitsBalance, Held, QueueGrows, jobsOnly, ledger
<1>1. Types /\ RequestInv(r)
  BY DEF LintInv
<1> USE <1>1
<1>2. CASE ConvertResume(r)
  <2>1. /\ pc[r] = "converting" /\ inflight' = inflight /\ BeginLint(r)
        /\ job'[r]["convert"] = "none" /\ job'[r]["work"] = "queued"
        /\ job'[r]["fall"] = job[r]["fall"]
        /\ \A q \in Requests : q # r => job'[q] = job[q]
    BY <1>2 DEF ConvertResume
  <2>2. Begun(r)
    BY <1>0, <2>1
  <2>3. OnlyMoves(r) /\ PermitsBalance(r) /\ QueueGrows(r)
    BY <2>1, <2>2 DEF Begun
  <2>4. JobsFit(r)' /\ ThreadFits(r)'
    BY <2>1, <2>2 DEF Begun
  <2>5. ChargeFits(r)'
    BY <2>1, <2>2 DEF Begun
  <2>6. RefundFits(r)'
    BY <2>1, <2>2 DEF Begun
  <2>7. AnswerFits(r)'
    <3>1. AnswerFits(r) /\ pc[r] # "done" /\ pc'[r] = "linting" /\ resp'[r] = resp[r] /\ req'[r] = req[r]
      BY <2>1, <2>2 DEF Begun
    <3>2. bill[r].state \notin {"kept", "refunded"} /\ bill'[r].state # "kept"
      BY <2>1, <2>2 DEF Begun
    <3> QED  BY <3>1, <3>2
  <2> HIDE DEF JobsFit, ThreadFits, ChargeFits, RefundFits, AnswerFits, OnlyMoves, PermitsBalance,
               QueueGrows
  <2> QED  BY <2>3, <2>4, <2>5, <2>6, <2>7 DEF OneMoves
<1>3. CASE ConvertRejected(r)
  BY <1>3 DEF OneMoves, ConvertRejected, Answer, Error, NoAnswer
<1>4. CASE ConvertTimeout(r)
  BY <1>4 DEF OneMoves, ConvertTimeout, Answer, Abandoned, Finished, Error, NoAnswer
<1>5. CASE LintResume(r)
  BY <1>5 DEF OneMoves, LintResume, RefundIf, GiveBack, Consumed, Refunded, Unpaid, Settled,
              Answer, Report, Partial, Error, NoAnswer
<1>6. CASE LintRaised(r)
  BY <1>6 DEF OneMoves, LintRaised, Settled, Answer, Error, NoAnswer
<1>7. CASE RulesTimeout(r)
  BY <1>7 DEF OneMoves, RulesTimeout, Abandoned, Finished, Answer, Error, NoAnswer
<1>8. CASE LlmTimeout(r)
  <2>1. /\ pc[r] = "linting" /\ pool[r].client /\ pc' = [pc EXCEPT ![r] = "fallback"]
        /\ pool' = [pool EXCEPT ![r].cancelled = TRUE]
        /\ reason' = [reason EXCEPT ![r] = "llm_error"]
        /\ lintQ' = Append(lintQ, <<r, "fall">>)
        /\ UNCHANGED <<inflight, llmFree, req, resp>>
    BY <1>8 DEF LlmTimeout, Submit
  <2>2. /\ job'[r]["work"] = Abandoned(job[r]["work"]) /\ job'[r]["fall"] = "queued"
        /\ job'[r]["convert"] = job[r]["convert"]
        /\ \A q \in Requests : q # r => job'[q] = job[q]
    <3> DEFINE js == [job[r] EXCEPT !["work"] = Abandoned(job[r]["work"]), !["fall"] = "queued"]
    <3>1. /\ js["work"] = Abandoned(job[r]["work"]) /\ js["fall"] = "queued"
          /\ js["convert"] = job[r]["convert"]
      OBVIOUS
    <3>2. job' = [job EXCEPT ![r] = js]
      BY <1>8 DEF LlmTimeout
    <3> HIDE DEF js
    <3> QED  BY <3>1, <3>2
  <2>3. /\ \A q \in Requests : q # r => bill'[q] = bill[q]
        /\ \/ pool[r].calls = 0 /\ bill'[r].state = "refunded"
           \/ pool[r].calls # 0 /\ bill'[r] = bill[r]
    BY <1>8 DEF LlmTimeout, RefundIf, Consumed, Refunded, Unpaid
  <2>4. OnlyMoves(r)
    BY <2>1, <2>2, <2>3
  <2>5. PermitsBalance(r)
    BY <2>1, <2>2 DEF Abandoned, Finished
  <2>6. QueueGrows(r)
    BY <2>1, <2>2 DEF Abandoned, Finished
  <2>7. JobsFit(r)' /\ ThreadFits(r)'
    BY <2>1, <2>2 DEF Abandoned, Finished
  <2>8. ChargeFits(r)' /\ RefundFits(r)'
    BY <2>1, <2>2, <2>3 DEF Abandoned, Finished
  <2>9. AnswerFits(r)'
    BY <2>1, <2>3
  <2> HIDE DEF JobsFit, ThreadFits, ChargeFits, RefundFits, AnswerFits, OnlyMoves, PermitsBalance,
               QueueGrows
  <2> QED  BY <2>4, <2>5, <2>6, <2>7, <2>8, <2>9 DEF OneMoves
<1>9. CASE FallbackResume(r)
  BY <1>9 DEF OneMoves, FallbackResume, Settled, Answer, Report, Partial, Error, NoAnswer
<1>10. CASE FallbackTimeout(r)
  BY <1>10 DEF OneMoves, FallbackTimeout, Settled, Abandoned, Finished, Answer, Error, NoAnswer
<1>11. CASE FileClientRaised(r)
  BY <1>11 DEF OneMoves, FileClientRaised, ClientRaised, Error, NoAnswer
<1> HIDE DEF RequestInv, OnlyMoves, PermitsBalance, QueueGrows
<1> QED  BY <1>2, <1>3, <1>4, <1>5, <1>6, <1>7, <1>8, <1>9, <1>10, <1>11 DEF Handle

\* A thread of the lint pool goes on in work().
LEMMA WorkThreadMoves ==
  ASSUME LintInv, Types', NEW r \in Requests, WorkThread(r)
  PROVE  OneMoves(r) /\ QueueGrows(r)
<1> USE DEF RequestInv, JobsFit, ThreadFits, ChargeFits, RefundFits, AnswerFits, Types, Bills,
           Pools, Answers, Jobs, Active, Holding, Awaited, Enter, Same, OnlyMoves,
           PermitsBalance, Held, QueueGrows, jobsOnly, ledger
<1>1. Types /\ RequestInv(r)
  BY DEF LintInv
<1> USE <1>1
<1>2. CASE SemAcquire(r)
  BY <1>2 DEF OneMoves, SemAcquire
<1>3. CASE SemTimeout(r)
  BY <1>3 DEF OneMoves, SemTimeout
<1>4. CASE AskCleared(r)
  BY <1>4 DEF OneMoves, AskCleared
<1>5. CASE AskAborted(r)
  BY <1>5 DEF OneMoves, AskAborted
<1>6. CASE CallRefused(r)
  BY <1>6 DEF OneMoves, CallRefused
<1>7. CASE CallStart(r)
  BY <1>7 DEF OneMoves, CallStart
<1>8. CASE CallReturn(r)
  BY <1>8 DEF OneMoves, CallReturn
<1>9. CASE RunRaises(r)
  BY <1>9 DEF OneMoves, RunRaises
<1>10. CASE LlmFinish(r)
  BY <1>10 DEF OneMoves, LlmFinish, End, Released
<1>11. CASE RulesFinish(r, "work")
  BY <1>11 DEF OneMoves, RulesFinish, End, Released
<1> HIDE DEF RequestInv, OnlyMoves, PermitsBalance, QueueGrows
<1> QED  BY <1>2, <1>3, <1>4, <1>5, <1>6, <1>7, <1>8, <1>9, <1>10, <1>11 DEF WorkThread

\* A thread of the lint pool ends the fallback, one of the convert pool a conversion.
LEMMA RunEndMoves ==
  ASSUME LintInv, Types', NEW r \in Requests, RulesFinish(r, "fall") \/ ConvertFinish(r)
  PROVE  OneMoves(r) /\ QueueGrows(r)
<1> USE DEF RequestInv, JobsFit, ThreadFits, ChargeFits, RefundFits, AnswerFits, Types, Bills,
           Pools, Answers, Jobs, Active, Holding, Awaited, Enter, Same, OnlyMoves,
           PermitsBalance, Held, QueueGrows, jobsOnly, ledger
<1>1. Types /\ RequestInv(r)
  BY DEF LintInv
<1> USE <1>1
<1>2. CASE RulesFinish(r, "fall")
  BY <1>2 DEF OneMoves, RulesFinish, End, Released
<1>3. CASE ConvertFinish(r)
  BY <1>3 DEF OneMoves, ConvertFinish, End
<1> HIDE DEF RequestInv, OnlyMoves, PermitsBalance, QueueGrows
<1> QED  BY <1>2, <1>3

\* An idle convert worker: only the request at the head of its queue moves.
LEMMA ConvertPopMoves ==
  ASSUME LintInv, Types', ConvertPop
  PROVE  \E r \in Requests : OneMoves(r) /\ QueueGrows(r)
<1>1. Types /\ Head(convQ) \in Requests
  BY DEF LintInv, Types, ConvertPop
<1>2. PICK r \in Requests : r = Head(convQ)
  BY <1>1
<1>3. RequestInv(r)
  BY DEF LintInv
<1>4. PICK phase \in {"running", "none"} :
        /\ job' = [job EXCEPT ![r]["convert"] = phase]
        /\ job[r]["convert"] # "queued" => phase = "none"
  BY <1>2 DEF ConvertPop, Enter
<1>5. UNCHANGED <<inflight, llmFree, lintQ, pc, req, bill, pool, reason, resp>>
  BY DEF ConvertPop, jobsOnly
<1>6. /\ job'[r]["convert"] = phase /\ job'[r]["work"] = job[r]["work"]
      /\ job'[r]["fall"] = job[r]["fall"]
  BY <1>1, <1>4 DEF Types, Jobs
<1>7. OnlyMoves(r) /\ PermitsBalance(r) /\ QueueGrows(r)
  BY <1>1, <1>4, <1>5, <1>6 DEF Types, Same, OnlyMoves, PermitsBalance, Held, QueueGrows
<1>8. JobsFit(r)'
  BY <1>3, <1>4, <1>5, <1>6 DEF RequestInv, JobsFit, Awaited, Jobs
<1>9. ThreadFits(r)' /\ ChargeFits(r)' /\ RefundFits(r)' /\ AnswerFits(r)'
  BY <1>3, <1>5, <1>6 DEF RequestInv, ThreadFits, ChargeFits, RefundFits, AnswerFits
<1> QED  BY <1>7, <1>8, <1>9 DEF OneMoves, RequestInv

\* An idle lint worker: the job at the head of the queue has not begun, so no
\* permit moves, and it is in the queue only once, so the rest still waits.
LEMMA LintPopKeepsInv ==
  ASSUME LintInv, Types', LintPop
  PROVE  LintInv'
<1>1. Types /\ lintQ # <<>> /\ Head(lintQ) \in Requests \X {"work", "fall"} /\ lintQ' = Tail(lintQ)
  BY DEF LintInv, Types, LintPop
<1>2. PICK r \in Requests, j \in {"work", "fall"} : Head(lintQ) = <<r, j>>
  BY <1>1
<1>3. 1 \in DOMAIN lintQ /\ lintQ[1] = <<r, j>> /\ RequestInv(r) /\ job[r][j] \in {"queued", "dropped"}
  BY <1>1, <1>2 DEF LintInv, QueueInv, Types
<1>4. PICK phase : /\ job' = [job EXCEPT ![r][j] = phase]
                   /\ phase = IF job[r][j] # "queued" THEN "none"
                              ELSE IF j = "work" /\ pool[r].client THEN "waiting" ELSE "rules"
  <2>1. Head(lintQ)[1] = r /\ Head(lintQ)[2] = j
    BY <1>2
  <2> QED  BY <2>1 DEF LintPop, Enter
<1>5. UNCHANGED <<inflight, llmFree, pc, req, bill, pool, reason, resp>>
  BY DEF LintPop, jobsOnly
<1>6. job'[r][j] = phase /\ \A i \in Jobs : i # j => job'[r][i] = job[r][i]
  BY <1>1, <1>4 DEF Types, Jobs
<1>7. OnlyMoves(r) /\ PermitsBalance(r)
  BY <1>1, <1>3, <1>4, <1>5, <1>6
  DEF Types, Jobs, Same, OnlyMoves, PermitsBalance, Held, Holding
<1>8. RequestInv(r)'
  <2>1. JobsFit(r)'
    BY <1>3, <1>4, <1>5, <1>6 DEF RequestInv, JobsFit, Awaited, Jobs
  <2>2. ThreadFits(r)' /\ RefundFits(r)'
    BY <1>3, <1>4, <1>5, <1>6
    DEF RequestInv, JobsFit, Awaited, ThreadFits, ChargeFits, RefundFits, Jobs, Holding
  <2>3. ChargeFits(r)' /\ AnswerFits(r)'
    BY <1>3, <1>5, <1>6 DEF RequestInv, ChargeFits, AnswerFits, Jobs
  <2> QED  BY <2>1, <2>2, <2>3 DEF RequestInv
<1>9. \A q \in Requests : RequestInv(q)'
  BY <1>7, <1>8, SameKeepsInv DEF LintInv, OnlyMoves
<1>10. PermitsConserved'
  BY <1>1, <1>7, BalanceConserves DEF LintInv
<1>11. QueueInv'
  <2>1. /\ Len(lintQ) \in Nat \ {0} /\ DOMAIN lintQ = 1 .. Len(lintQ)
        /\ DOMAIN lintQ' = 1 .. Len(lintQ) - 1
        /\ \A i \in DOMAIN lintQ' : lintQ'[i] = lintQ[i + 1] /\ i + 1 \in DOMAIN lintQ
    BY <1>1 DEF Types
  <2>2. \A i, k \in DOMAIN lintQ : lintQ[i] = lintQ[k] => i = k
    BY DEF LintInv, QueueInv
  <2>3. ASSUME NEW i \in DOMAIN lintQ'
        PROVE  job'[lintQ'[i][1]][lintQ'[i][2]] \in {"queued", "dropped"}
    <3>1. i \in Nat /\ i + 1 # 1 /\ i + 1 \in DOMAIN lintQ
      BY <2>1, <2>3
    <3>2. /\ lintQ[i + 1] \in Requests \X {"work", "fall"} /\ lintQ[i + 1] # <<r, j>>
          /\ job[lintQ[i + 1][1]][lintQ[i + 1][2]] \in {"queued", "dropped"}
      <4>1. lintQ[i + 1] # lintQ[1]
        BY <1>3, <2>2, <3>1
      <4> QED  BY <1>1, <1>3, <3>1, <4>1 DEF Types, LintInv, QueueInv
    <3>3. job'[lintQ[i + 1][1]][lintQ[i + 1][2]] = job[lintQ[i + 1][1]][lintQ[i + 1][2]]
      BY <1>1, <1>4, <3>2 DEF Types, Jobs
    <3> QED  BY <2>1, <3>2, <3>3
  <2>4. ASSUME NEW i \in DOMAIN lintQ', NEW k \in DOMAIN lintQ', lintQ'[i] = lintQ'[k]
        PROVE  i = k
    <3>1. lintQ[i + 1] = lintQ[k + 1] /\ i \in Int /\ k \in Int
      BY <2>1, <2>4
    <3>2. i + 1 = k + 1
      BY <2>1, <2>2, <3>1
    <3> QED  BY <3>1, <3>2
  <2> QED  BY <2>3, <2>4 DEF QueueInv
<1> QED  BY <1>9, <1>10, <1>11 DEF LintInv

\* The machine stops: nobody is under way, every queue is empty.
LEMMA RestartKeepsInv ==
  ASSUME LintInv, Types', Restart
  PROVE  LintInv'
<1>1. Types
  BY DEF LintInv
<1>2. ASSUME NEW r \in Requests  PROVE RequestInv(r)'
  <2>1. RequestInv(r)
    BY DEF LintInv
  <2> QED  BY <1>1, <2>1
           DEF Restart, Types, Bills, Jobs, Active, RequestInv, JobsFit, Awaited, ThreadFits,
               ChargeFits, RefundFits, AnswerFits, Holding
<1>3. QueueInv'
  BY DEF Restart, QueueInv
<1>4. PermitsConserved'
  <2>1. /\ { r \in Requests : pc'[r] \in Active } = {}
        /\ { r \in Requests : job'[r]["work"] \in Holding } = {}
    BY <1>1 DEF Restart, Types, Active, Jobs, Holding
  <2>2. /\ Cardinality({ r \in Requests : pc'[r] \in Active }) = 0
        /\ Cardinality({ r \in Requests : job'[r]["work"] \in Holding }) = 0
    BY <2>1, FS_EmptySet
  <2>3. MaxInflight \in Nat /\ LlmConcurrency \in Nat /\ inflight' = MaxInflight
        /\ llmFree' = LlmConcurrency
    BY BoundsAssumption DEF Restart
  <2> QED  BY <2>2, <2>3 DEF PermitsConserved
<1> QED  BY <1>2, <1>3, <1>4 DEF LintInv

LEMMA InitLintInv == Init => LintInv
<1> SUFFICES ASSUME Init  PROVE LintInv
  OBVIOUS
<1>1. \A r \in Requests : RequestInv(r)
  BY DEF Init, NoPool, NoBill, NoAnswer, Jobs, RequestInv, JobsFit, Awaited, ThreadFits, Holding,
         ChargeFits, RefundFits, AnswerFits
<1>2. QueueInv
  BY DEF Init, QueueInv
<1>3. PermitsConserved
  <2>1. /\ { r \in Requests : pc[r] \in Active } = {}
        /\ { r \in Requests : job[r]["work"] \in Holding } = {}
    BY DEF Init, Active, Jobs, Holding
  <2>2. /\ Cardinality({ r \in Requests : pc[r] \in Active }) = 0
        /\ Cardinality({ r \in Requests : job[r]["work"] \in Holding }) = 0
    BY <2>1, FS_EmptySet
  <2>3. MaxInflight \in Nat /\ LlmConcurrency \in Nat /\ inflight = MaxInflight
        /\ llmFree = LlmConcurrency
    BY BoundsAssumption DEF Init
  <2> QED  BY <2>2, <2>3 DEF PermitsConserved
<1> QED  BY <1>1, <1>2, <1>3, InitTypes DEF LintInv

LEMMA NextLintInv ==
  ASSUME LintInv, [Next]_vars
  PROVE  LintInv'
<1>1. Types'
  BY TypesNext DEF LintInv
<1>2. ASSUME NEW r \in Requests,
             Arrive(r) \/ Handle(r) \/ WorkThread(r) \/ RulesFinish(r, "fall") \/ ConvertFinish(r)
      PROVE  LintInv'
  <2>1. OneMoves(r) /\ QueueGrows(r)
    BY <1>1, <1>2, ArriveMoves, HandleMoves, WorkThreadMoves, RunEndMoves
  <2> QED  BY <1>1, <2>1, OneMovesKeepsInv
<1>3. CASE ConvertPop
  BY <1>1, <1>3, ConvertPopMoves, OneMovesKeepsInv
<1>4. CASE LintPop
  BY <1>1, <1>4, LintPopKeepsInv
<1>5. CASE Midnight \/ UNCHANGED vars
  <2>1. UNCHANGED <<inflight, llmFree, lintQ, pc, req, bill, pool, reason, job, resp>>
    BY <1>5 DEF Midnight, vars, ledger
  <2>2. \A r \in Requests : RequestInv(r)'
    BY <2>1, SameKeepsInv DEF LintInv, Same
  <2>3. QueueInv' /\ PermitsConserved'
    BY <2>1 DEF LintInv, QueueInv, PermitsConserved
  <2> QED  BY <1>1, <2>2, <2>3 DEF LintInv
<1>6. CASE Restart
  BY <1>1, <1>6, RestartKeepsInv
<1> QED  BY <1>2, <1>3, <1>4, <1>5, <1>6 DEF Next

THEOREM LintInvHolds == Spec => []LintInv
BY InitLintInv, NextLintInv, PTL DEF Spec

\* Every variable of the service keeps its type, whatever the pools' sizes; the
\* permits stay between none and all because they are conserved.
THEOREM TypeOKHolds == Spec => []TypeOK
<1>1. LintInv => TypeOK
  <2> SUFFICES ASSUME LintInv  PROVE TypeOK
    OBVIOUS
  <2>1. /\ IsFiniteSet({ r \in Requests : pc[r] \in Active })
        /\ IsFiniteSet({ r \in Requests : job[r]["work"] \in Holding })
    BY RequestsAssumption, FS_Subset
  <2>2. /\ Cardinality({ r \in Requests : pc[r] \in Active }) \in Nat
        /\ Cardinality({ r \in Requests : job[r]["work"] \in Holding }) \in Nat
    BY <2>1, FS_CardinalityType
  <2>3. inflight \in 0 .. MaxInflight /\ llmFree \in 0 .. LlmConcurrency
    BY <2>2, BoundsAssumption DEF LintInv, Types, PermitsConserved
  <2> QED  BY <2>3 DEF LintInv, Types, TypeOK, Stages, Bills, Answers
<1> QED  BY <1>1, LintInvHolds, PTL

\* Neither _inflight nor _llm_sem ever loses or invents a permit, for any number
\* of requests and any order of timeouts, fallbacks, zombies and crashes.
THEOREM PermitsAlwaysConserved == Spec => []PermitsConserved
<1>1. LintInv => PermitsConserved
  BY DEF LintInv
<1> QED  BY <1>1, LintInvHolds, PTL

\* A worker never begins a job whose handler has moved on.
THEOREM WorkersServeTheWaiting == Spec => []WorkOnlyForWaiting
<1>1. LintInv => WorkOnlyForWaiting
  BY DEF LintInv, RequestInv, JobsFit, WorkOnlyForWaiting
<1> QED  BY <1>1, LintInvHolds, PTL

\* A charge that stands paid for a call; or the answer is the 500 of a raising
\* client or engine; or the AI ran without a need to ask, or cut and said so.
THEOREM KeptChargesExplained == Spec => []KeptChargeExplained
<1>1. LintInv => KeptChargeExplained
  BY DEF LintInv, RequestInv, AnswerFits, KeptChargeExplained
<1> QED  BY <1>1, LintInvHolds, PTL

\* Paid calls are made for charged requests only; a refunded request has at most
\* the one call that was cleared before its cancel, and shows no AI result.
THEOREM PaidCallsAreCharged == Spec => []PaidCallsCharged
<1>1. LintInv => PaidCallsCharged
  <2> SUFFICES ASSUME LintInv, NEW r \in Requests
               PROVE  /\ pool[r].calls > 0 => bill[r].state # "none"
                      /\ bill[r].state = "refunded" =>
                           /\ pool[r].calls > 0 => pool[r].calls = 1 /\ pool[r].cancelled
                           /\ ~resp[r].ran
    BY DEF PaidCallsCharged
  <2>1. RequestInv(r) /\ pool[r].calls \in Nat /\ pool[r].cancelled \in BOOLEAN
    BY DEF LintInv, Types, Pools
  <2> QED  BY <2>1 DEF RequestInv, ChargeFits, RefundFits, AnswerFits
<1> QED  BY <1>1, LintInvHolds, PTL

\* llm_ran and llm_skipped_reason of every report agree.
THEOREM ReportsAreHonest == Spec => []HonestReport
<1>1. LintInv => HonestReport
  BY DEF LintInv, RequestInv, AnswerFits, HonestReport
<1> QED  BY <1>1, LintInvHolds, PTL

-------------------------------------------------------------------------------
\* ---- towards the quota the service is a ledger ------------------------------------

\* The instance computes with the same rules.
LEMMA LedgerRules ==
  ASSUME NEW c, NEW k, NEW d, NEW n
  PROVE  /\ Ledger!Keys = Keys /\ Ledger!Days = Days
         /\ Ledger!EmptyLedger = EmptyLedger /\ Ledger!NoRows = NoRows
         /\ Ledger!Verdict(c, k) = Verdict(c, k)
         /\ Ledger!Decremented(n) = Decremented(n)
         /\ Ledger!Bump(c, k, d) = Bump(c, k, d) /\ Ledger!Drop(c, k, d) = Drop(c, k, d)
<1>1. Ledger!Keys = Keys /\ Ledger!Days = Days
  BY DEF Ledger!Keys, Keys, Ledger!Days, Days
<1>2. Ledger!EmptyLedger = EmptyLedger /\ Ledger!NoRows = NoRows
  BY <1>1 DEF Ledger!EmptyLedger, EmptyLedger, Ledger!NoRows, NoRows
<1>3. Ledger!Verdict(c, k) = Verdict(c, k)
  <2>1. Ledger!Charges(c) = Charges(c)
    BY DEF Ledger!Charges, Charges
  <2>2. Ledger!Cardinality(Charges(c)) = Cardinality(Charges(c))
    BY DEF Ledger!Cardinality, Cardinality
  <2> QED  BY <2>1, <2>2 DEF Ledger!Verdict, Verdict, Ledger!PublicTotal, PublicTotal
<1>4. \A m : Ledger!Decremented(m) = Decremented(m)
  BY DEF Ledger!Decremented, Decremented, Ledger!AtLeastZero, AtLeastZero
<1>5. Ledger!Bump(c, k, d) = Bump(c, k, d) /\ Ledger!Drop(c, k, d) = Drop(c, k, d)
  BY <1>4 DEF Ledger!Bump, Bump, Ledger!Drop, Drop
<1> QED  BY <1>1, <1>2, <1>3, <1>4, <1>5

\* What a step does to the charge of the one request that moves.
Unbilled(r) ==
  /\ count' = count /\ (bill'[r].state = "held" <=> bill[r].state = "held")
  /\ bill[r].state = "held" => bill'[r] = bill[r]
Billed(r) ==
  /\ bill[r].state # "held" /\ bill'[r] = [state |-> "held", day |-> today]
  /\ Verdict(count, req[r].who) = "granted"
  /\ count' = [count EXCEPT ![req[r].who] = @ + 1]
PaidBack(r) == bill[r].state = "held" /\ bill'[r].state # "held" /\ GiveBack(req[r].who)
LetStand(r) == bill[r].state = "held" /\ bill'[r].state # "held" /\ count' = count
Spent(r) ==
  /\ bill[r].state # "held" /\ bill'[r].state # "held"
  /\ Verdict(count, req[r].who) = "granted"
  /\ count' = [count EXCEPT ![req[r].who] = @ + 1]

Billing(r) ==
  /\ OnlyMoves(r) /\ req'[r] = req[r] /\ today' = today
  /\ Unbilled(r) \/ Billed(r) \/ PaidBack(r) \/ LetStand(r) \/ Spent(r)

LEMMA ArriveBills ==
  ASSUME LintInv, Types', NEW r \in Requests, Arrive(r)
  PROVE  Billing(r)
<1>1. Types /\ RequestInv(r) /\ OnlyMoves(r)
  BY ArriveMoves DEF LintInv, OneMoves
<1>2. bill[r].state # "held" \/ pc[r] # "new"
  BY <1>1 DEF RequestInv, ChargeFits
<1>3. req'[r] = req[r] /\ today' = today
  BY DEF Arrive, Overloaded, RejectInput, AdmitText, TextClientRaised, AdmitFile, BeginLint,
         ClientRaised, ledger
<1>4. Unbilled(r) \/ Billed(r) \/ Spent(r)
  <2>1. CASE TextClientRaised(r)
    BY <1>1, <1>2, <2>1 DEF TextClientRaised, ClientRaised, Spent, Types
  <2>2. CASE ~TextClientRaised(r)
    BY <1>1, <1>2, <2>2 DEF Arrive, Overloaded, RejectInput, AdmitText, AdmitFile, BeginLint, ledger,
                            Unbilled, Billed, Types
  <2> QED  BY <2>1, <2>2
<1> QED  BY <1>1, <1>3, <1>4 DEF Billing

LEMMA HandleBills ==
  ASSUME LintInv, Types', NEW r \in Requests, Handle(r)
  PROVE  Billing(r)
<1>1. Types /\ RequestInv(r) /\ OnlyMoves(r)
  BY HandleMoves DEF LintInv, OneMoves
<1>2. req'[r] = req[r] /\ today' = today
  BY DEF Handle, ConvertResume, FileClientRaised, ConvertRejected, ConvertTimeout, LintResume,
         LintRaised, RulesTimeout, LlmTimeout, FallbackResume, FallbackTimeout, BeginLint,
         ClientRaised, ledger
<1>3. CASE ConvertResume(r)
  <2>1. bill[r].state # "held"
    BY <1>1, <1>3 DEF RequestInv, ChargeFits, ConvertResume
  <2>2. Unbilled(r) \/ Billed(r)
    BY <1>1, <1>3, <2>1 DEF ConvertResume, BeginLint, Unbilled, Billed, Types
  <2> QED  BY <1>1, <1>2, <2>2 DEF Billing
<1>4. CASE ConvertRejected(r) \/ ConvertTimeout(r) \/ RulesTimeout(r)
  <2>1. Unbilled(r)
    BY <1>4 DEF ConvertRejected, ConvertTimeout, RulesTimeout, ledger, Unbilled
  <2> QED  BY <1>1, <1>2, <2>1 DEF Billing
<1>5. CASE LintRaised(r) \/ FallbackResume(r) \/ FallbackTimeout(r)
  <2>1. count' = count /\ bill' = [bill EXCEPT ![r] = Settled(@)]
    BY <1>5 DEF LintRaised, FallbackResume, FallbackTimeout, ledger
  <2>2. Unbilled(r) \/ LetStand(r)
    BY <1>1, <2>1 DEF Settled, Unbilled, LetStand, Types, Bills
  <2> QED  BY <1>1, <1>2, <2>2 DEF Billing
<1>6. CASE LintResume(r)
  <2>1. bill[r].state = "held" \/ job[r]["work"] # "failed"
    BY <1>1, <1>6 DEF RequestInv, ThreadFits, ChargeFits, LintResume
  <2>2. \/ bill[r].state = "held" /\ GiveBack(req[r].who) /\ bill'[r].state = "refunded"
        \/ count' = count /\ bill'[r] = Settled(bill[r])
    BY <1>1, <1>6, <2>1 DEF LintResume, RefundIf, Refunded, Types, Bills
  <2>3. Unbilled(r) \/ PaidBack(r) \/ LetStand(r)
    BY <1>1, <2>2 DEF Settled, Unbilled, PaidBack, LetStand, Types, Bills
  <2> QED  BY <1>1, <1>2, <2>3 DEF Billing
<1>7. CASE LlmTimeout(r)
  <2>1. bill[r].state = "held"
    BY <1>1, <1>7 DEF RequestInv, ChargeFits, LlmTimeout
  <2>2. \/ GiveBack(req[r].who) /\ bill'[r].state = "refunded"
        \/ count' = count /\ bill'[r] = bill[r]
    BY <1>1, <1>7 DEF LlmTimeout, RefundIf, Refunded, Types, Bills
  <2>3. Unbilled(r) \/ PaidBack(r)
    BY <2>1, <2>2 DEF Unbilled, PaidBack
  <2> QED  BY <1>1, <1>2, <2>3 DEF Billing
<1>8. CASE FileClientRaised(r)
  <2>1. bill[r].state # "held"
    BY <1>1, <1>8 DEF RequestInv, ChargeFits, FileClientRaised
  <2>2. Spent(r)
    BY <1>1, <1>8, <2>1 DEF FileClientRaised, ClientRaised, Spent, Types
  <2> QED  BY <1>1, <1>2, <2>2 DEF Billing
<1> QED  BY <1>3, <1>4, <1>5, <1>6, <1>7, <1>8 DEF Handle

\* The charges a key owes for a day are those of the requests that hold one.
Owing(k, d) == { q \in Requests : bill[q].state = "held" /\ bill[q].day = d /\ req[q].who = k }

LEMMA OwedCounts ==
  ASSUME Types
  PROVE  /\ Owed \in Rows
         /\ \A k \in Keys, d \in Days : IsFiniteSet(Owing(k, d)) /\ Owed[k][d] = Cardinality(Owing(k, d))
<1>1. \A k \in Keys, d \in Days : IsFiniteSet(Owing(k, d))
  BY RequestsAssumption, FS_Subset DEF Owing
<1>2. \A k \in Keys, d \in Days : Cardinality(Owing(k, d)) \in Nat
  BY <1>1, FS_CardinalityType
<1>3. Owed = [k \in Keys |-> [d \in Days |-> Cardinality(Owing(k, d))]]
  BY DEF Owed, Owing
<1> HIDE DEF Owing
<1> QED  BY <1>1, <1>2, <1>3 DEF Rows

\* Only the cell of the request that moves may change, and by one.
LEMMA OwedMoves ==
  ASSUME Types, Types', NEW r \in Requests, OnlyMoves(r), NEW k \in Keys, NEW d \in Days
  PROVE  Owed'[k][d] + Held(r \in Owing(k, d)) = Owed[k][d] + Held(r \in Owing(k, d)')
<1>1. \A q : q # r => (q \in Owing(k, d) <=> q \in Owing(k, d)')
  BY DEF Owing, OnlyMoves, Same
<1>2. IsFiniteSet(Owing(k, d)) /\ Owed[k][d] = Cardinality(Owing(k, d))
  BY OwedCounts
<1>3. Owed'[k][d] = Cardinality(Owing(k, d)')
  BY DEF Owed, Owing
<1> HIDE DEF Owing
<1> QED  BY <1>1, <1>2, <1>3, CountMoves

\* Two tables of charges are the same when they agree in every cell.
LEMMA SameCells ==
  ASSUME NEW f \in Rows, NEW g \in Rows, \A k \in Keys, d \in Days : f[k][d] = g[k][d]
  PROVE  f = g
<1>1. \A k \in Keys : f[k] \in [Days -> Nat] /\ g[k] \in [Days -> Nat]
  BY DEF Rows
<1>2. \A k \in Keys : f[k] = g[k]
  BY <1>1
<1> QED  BY <1>2 DEF Rows

LEMMA BillingIsLedgerStep ==
  ASSUME Types, Types', NEW r \in Requests, Billing(r)
  PROVE  Ledger!LedgerNext \/ UNCHANGED <<today, count, Owed>>
<1> DEFINE who == req[r].who
           day == bill[r].day
<1>1. /\ who \in Keys /\ bill[r] \in Bills /\ day \in Days /\ today \in Days
      /\ OnlyMoves(r) /\ req'[r] = req[r] /\ today' = today
  BY KindsAssumption DEF Types, Bills, Billing
<1>2. Owed \in Rows /\ Owed' \in Rows
  <2>1. Owed \in Rows
    BY OwedCounts
  <2>2. \A k \in Keys, d \in Days : IsFiniteSet(Owing(k, d)')
    BY RequestsAssumption, FS_Subset DEF Owing
  <2>3. \A k \in Keys, d \in Days : Cardinality(Owing(k, d)') \in Nat
    BY <2>2, FS_CardinalityType
  <2>4. Owed' = [k \in Keys |-> [d \in Days |-> Cardinality(Owing(k, d)')]]
    BY DEF Owed, Owing
  <2> HIDE DEF Owing
  <2> QED  BY <2>1, <2>3, <2>4 DEF Rows
<1>3. \A k \in Keys, d \in Days :
        /\ Owed[k][d] \in Nat /\ Owed'[k][d] \in Nat
        /\ Owed'[k][d] + Held(r \in Owing(k, d)) = Owed[k][d] + Held(r \in Owing(k, d)')
  BY <1>1, <1>2, OwedMoves DEF Rows
<1>4. \A k \in Keys, d \in Days :
        /\ r \in Owing(k, d) <=> bill[r].state = "held" /\ d = day /\ k = who
        /\ r \in Owing(k, d)' <=> bill'[r].state = "held" /\ d = bill'[r].day /\ k = who
  BY <1>1 DEF Owing
<1>5. /\ Bump(Owed, who, today) \in Rows
      /\ \A k \in Keys, d \in Days :
           Bump(Owed, who, today)[k][d]
             = IF k = who /\ d = today THEN Owed[k][d] + 1 ELSE Owed[k][d]
  BY <1>1, <1>2 DEF Bump, Rows
<1>6. /\ Drop(Owed, who, day) \in Rows
      /\ \A k \in Keys, d \in Days :
           Drop(Owed, who, day)[k][d]
             = IF k = who /\ d = day THEN Decremented(Owed[k][d]) ELSE Owed[k][d]
  <2>1. \A n \in Nat : Decremented(n) \in Nat
    BY DEF Decremented, AtLeastZero
  <2> QED  BY <1>1, <1>2, <2>1 DEF Drop, Rows
<1> HIDE DEF who, day
<1>7. CASE Unbilled(r)
  <2>1. \A k \in Keys, d \in Days : r \in Owing(k, d) <=> r \in Owing(k, d)'
    BY <1>4, <1>7 DEF Unbilled, day
  <2>2. \A k \in Keys, d \in Days : Owed'[k][d] = Owed[k][d]
    BY <1>3, <2>1 DEF Held
  <2>3. Owed' = Owed
    BY <1>2, <2>2, SameCells
  <2> QED  BY <1>1, <1>7, <2>3 DEF Unbilled
<1>8. CASE Billed(r)
  <2>1. \A k \in Keys, d \in Days :
          r \notin Owing(k, d) /\ (r \in Owing(k, d)' <=> k = who /\ d = today)
    BY <1>4, <1>8 DEF Billed
  <2>2. \A k \in Keys, d \in Days : Owed'[k][d] = Bump(Owed, who, today)[k][d]
    BY <1>3, <1>5, <2>1 DEF Held
  <2>3. Owed' = Bump(Owed, who, today)
    BY <1>2, <1>5, <2>2, SameCells
  <2>4. Ledger!Grant(who)
    BY <1>1, <1>8, <2>3, LedgerRules DEF Ledger!Grant, Billed, who
  <2> QED  BY <1>1, <2>4, LedgerRules DEF Ledger!LedgerNext
<1>9. CASE PaidBack(r) \/ LetStand(r)
  <2>1. \A k \in Keys, d \in Days :
          (r \in Owing(k, d) <=> k = who /\ d = day) /\ r \notin Owing(k, d)'
    BY <1>4, <1>9 DEF PaidBack, LetStand
  <2>2. Owed[who][day] > 0
    BY <1>1, <1>3, <2>1 DEF Held
  <2>3. \A k \in Keys, d \in Days : Owed'[k][d] = Drop(Owed, who, day)[k][d]
    BY <1>3, <1>6, <2>1, <2>2 DEF Held, Decremented, AtLeastZero
  <2>4. Owed' = Drop(Owed, who, day)
    BY <1>2, <1>6, <2>3, SameCells
  <2>5. CASE PaidBack(r)
    <3>1. Ledger!GiveBack(who, day)
      BY <1>1, <2>2, <2>4, <2>5, LedgerRules DEF Ledger!GiveBack, PaidBack, GiveBack, who
    <3> QED  BY <1>1, <3>1, LedgerRules DEF Ledger!LedgerNext
  <2>6. CASE LetStand(r)
    <3>1. Ledger!Keep(who, day)
      BY <1>1, <2>2, <2>4, <2>6, LedgerRules DEF Ledger!Keep, LetStand
    <3> QED  BY <1>1, <3>1, LedgerRules DEF Ledger!LedgerNext
  <2> QED  BY <1>9, <2>5, <2>6
<1>10. CASE Spent(r)
  <2>1. \A k \in Keys, d \in Days : r \notin Owing(k, d) /\ r \notin Owing(k, d)'
    BY <1>4, <1>10 DEF Spent
  <2>2. \A k \in Keys, d \in Days : Owed'[k][d] = Owed[k][d]
    BY <1>3, <2>1 DEF Held
  <2>3. Owed' = Owed
    BY <1>2, <2>2, SameCells
  <2>4. Ledger!Spend(who)
    BY <1>1, <1>10, <2>3, LedgerRules DEF Ledger!Spend, Spent, who
  <2> QED  BY <1>1, <2>4, LedgerRules DEF Ledger!LedgerNext
<1> QED  BY <1>7, <1>8, <1>9, <1>10 DEF Billing

LEMMA ServiceStep ==
  ASSUME LintInv, Types', [Next]_vars
  PROVE  Ledger!LedgerNext \/ UNCHANGED <<today, count, Owed>>
<1>1. Types
  BY DEF LintInv
<1>2. ASSUME NEW r \in Requests, Arrive(r) \/ Handle(r)
      PROVE  Ledger!LedgerNext \/ UNCHANGED <<today, count, Owed>>
  BY <1>1, <1>2, ArriveBills, HandleBills, BillingIsLedgerStep
<1>3. ASSUME NEW r \in Requests, WorkThread(r) \/ RulesFinish(r, "fall") \/ ConvertFinish(r)
      PROVE  UNCHANGED <<today, count, bill, req>>
  BY <1>3 DEF WorkThread, SemAcquire, SemTimeout, AskCleared, AskAborted, CallRefused, CallStart,
              CallReturn, RunRaises, LlmFinish, RulesFinish, ConvertFinish, jobsOnly, ledger
<1>4. ConvertPop \/ LintPop \/ UNCHANGED vars => UNCHANGED <<today, count, bill, req>>
  BY DEF ConvertPop, LintPop, jobsOnly, vars, ledger
<1>5. CASE UNCHANGED <<today, count, bill, req>>
  BY <1>5 DEF Owed
<1>6. CASE Midnight
  <2>1. Owed' = Owed
    BY <1>6 DEF Midnight, Owed
  <2>2. Ledger!NewDay
    BY <1>6, <2>1, LedgerRules DEF Midnight, Ledger!NewDay
  <2> QED  BY <2>2 DEF Ledger!LedgerNext
<1>7. CASE Restart
  <2>1. \A k \in Keys, d \in Days :
          { q \in Requests : bill'[q].state = "held" /\ bill'[q].day = d /\ req'[q].who = k } = {}
    <3>1. \A q \in Requests : bill'[q].state # "held"
      BY <1>1, <1>7 DEF Restart, Types, Bills
    <3> QED  BY <3>1
  <2>2. Owed' = NoRows
    BY <2>1, FS_EmptySet DEF Owed, NoRows
  <2>3. Ledger!Crash
    BY <1>7, <2>2, LedgerRules DEF Restart, ledger, Ledger!Crash
  <2> QED  BY <2>3 DEF Ledger!LedgerNext
<1> QED  BY <1>2, <1>3, <1>4, <1>5, <1>6, <1>7 DEF Next

\* Towards the quota the service does what a ledger of one day allows, whatever
\* its timers, fallbacks and crashes do: a check is charged under the caps and
\* given back at most once, before its request is answered.
THEOREM ServiceImplementsLedger == Spec => ImplementsLedger
<1>1. Init => Ledger!LedgerInit
  <2> SUFFICES ASSUME Init  PROVE Ledger!LedgerInit
    OBVIOUS
  <2>1. \A k \in Keys, d \in Days :
          { q \in Requests : bill[q].state = "held" /\ bill[q].day = d /\ req[q].who = k } = {}
    BY DEF Init, NoBill
  <2>2. Owed = NoRows
    BY <2>1, FS_EmptySet DEF Owed, NoRows
  <2> QED  BY <2>2, LedgerRules DEF Init, Ledger!LedgerInit
<1>2. LintInv /\ LintInv' /\ [Next]_vars => [Ledger!LedgerNext]_(Ledger!ledgerVars)
  <2> SUFFICES ASSUME LintInv, LintInv', [Next]_vars
               PROVE  Ledger!LedgerNext \/ UNCHANGED <<today, count, Owed>>
    BY DEF Ledger!ledgerVars
  <2> QED  BY ServiceStep DEF LintInv
<1> QED  BY <1>1, <1>2, LintInvHolds, PTL DEF Spec, ImplementsLedger, Ledger!LedgerSpec
===============================================================================
