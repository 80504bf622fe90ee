------------------------------ MODULE LlmBudget -------------------------------
(***************************************************************************)
(* app/llm_budget.py: the LLM calls of one request.  plan_shares divides   *)
(* the request's budget among the checkers (lint.py:89-94), a BudgetShare  *)
(* takes from its own allotment, the BudgetPool counts the whole request   *)
(* and stops when the request was cancelled.                               *)
(*                                                                         *)
(* A call is taken in steps a second thread may interleave with: the share *)
(* under the share's lock, the look at the cancel event under no lock, the *)
(* count under the pool's lock, the provider's answer.                     *)
(***************************************************************************)
EXTENDS Integers, FiniteSets

CONSTANTS Threads,   \* threads that call into the pool
          Totals     \* values of PLW_MAX_LLM_CALLS to explore

ASSUME ThreadsAssumption == IsFiniteSet(Threads)
ASSUME TotalsAssumption  == Totals \subseteq Int

\* _FIXED_SHARES of lint.py and the engine's two checkers outside it.
WholeDocument == {"logic-gap", "internal-contradiction", "enrich"}
PerSection == {"unsupported-claim", "vague-goal"}
Checkers == WholeDocument \cup PerSection
Labels == Checkers \cup {"llm"}      \* "llm": BudgetPool.complete, without a share

AtLeastZero(n) == IF n > 0 THEN n ELSE 0
Smaller(m, n)  == IF m < n THEN m ELSE n

\* plan_shares: whole-document checkers first, in the order of the dict, then
\* the per-section checkers evenly from what is left.
BugPlanShares(n) ==   \* mutant: the even split forgets what was reserved
  LET each == AtLeastZero(n \div 2)
  IN  [c \in Checkers |-> IF c = "logic-gap" THEN Smaller(2, AtLeastZero(n))
                          ELSE IF c \in WholeDocument THEN Smaller(1, AtLeastZero(n))
                          ELSE each]
PlanShares(n) ==
  LET gap     == Smaller(2, AtLeastZero(n))
      contra  == Smaller(1, AtLeastZero(n - gap))
      enrich  == Smaller(1, AtLeastZero(n - gap - contra))
      each    == AtLeastZero((n - gap - contra - enrich) \div 2)
  IN  [c \in Checkers |-> CASE c = "logic-gap"              -> gap
                            [] c = "internal-contradiction" -> contra
                            [] c = "enrich"                 -> enrich
                            [] OTHER                        -> each]

\* The sum of a number per checker.
Over(f) == f["logic-gap"] + f["internal-contradiction"] + f["enrich"]
             + f["unsupported-claim"] + f["vague-goal"]

VARIABLES
  total,         \* BudgetPool._total
  used,          \* BudgetShare._used, per checker
  callsStarted,  \* BudgetPool.calls_started
  limited,       \* BudgetPool.limited
  cancelled,     \* the cancel event
  pc,            \* idle, taken, cleared, calling or ended, per thread
  label,         \* the label of the thread's current call
  shareOk,       \* share_ok of the thread's current call
  direct,        \* history: calls begun without a share
  late           \* history: calls each thread started after the cancel

vars == <<total, used, callsStarted, limited, cancelled, pc, label, shareOk, direct, late>>

Share == PlanShares(total)

\* The thread leaves complete(): its locals are gone.
Leave(t, to) ==
  /\ pc' = [pc EXCEPT ![t] = to]
  /\ label' = [label EXCEPT ![t] = "llm"]
  /\ shareOk' = [shareOk EXCEPT ![t] = FALSE]
-------------------------------------------------------------------------------
Init ==
  /\ total \in Totals
  /\ used = [c \in Checkers |-> 0]
  /\ callsStarted = 0 /\ limited = {} /\ cancelled = FALSE
  /\ pc = [t \in Threads |-> "idle"]
  /\ label = [t \in Threads |-> "llm"]
  /\ shareOk = [t \in Threads |-> FALSE]
  /\ direct = 0 /\ late = [t \in Threads |-> 0]

\* BudgetShare.complete under the share's lock.
BugTakeShare(t, c) ==   \* mutant: _used < _max becomes <=
  /\ pc[t] = "idle"
  /\ LET ok == used[c] <= Share[c]
     IN  /\ shareOk' = [shareOk EXCEPT ![t] = ok]
         /\ used' = IF ok THEN [used EXCEPT ![c] = @ + 1] ELSE used
  /\ label' = [label EXCEPT ![t] = c]
  /\ pc' = [pc EXCEPT ![t] = "taken"]
  /\ UNCHANGED <<total, callsStarted, limited, cancelled, direct, late>>
TakeShare(t, c) ==
  /\ pc[t] = "idle"
  /\ LET ok == used[c] < Share[c]
     IN  /\ shareOk' = [shareOk EXCEPT ![t] = ok]
         /\ used' = IF ok THEN [used EXCEPT ![c] = @ + 1] ELSE used
  /\ label' = [label EXCEPT ![t] = c]
  /\ pc' = [pc EXCEPT ![t] = "taken"]
  /\ UNCHANGED <<total, callsStarted, limited, cancelled, direct, late>>

\* BudgetPool.complete: the path without a share.  MaxDirect bounds it.
MaxDirect == 1
TakeDirect(t) ==
  /\ pc[t] = "idle" /\ direct < MaxDirect
  /\ shareOk' = [shareOk EXCEPT ![t] = TRUE]
  /\ label' = [label EXCEPT ![t] = "llm"]
  /\ pc' = [pc EXCEPT ![t] = "taken"]
  /\ direct' = direct + 1
  /\ UNCHANGED <<total, used, callsStarted, limited, cancelled, late>>

\* _run looks at the cancel event before it takes the pool's lock.
BugCleared(t) ==   \* mutant: nobody looks at the event
  /\ pc[t] = "taken"
  /\ pc' = [pc EXCEPT ![t] = "cleared"]
  /\ UNCHANGED <<total, used, callsStarted, limited, cancelled, label, shareOk, direct, late>>
Cleared(t) ==
  /\ pc[t] = "taken" /\ ~cancelled
  /\ pc' = [pc EXCEPT ![t] = "cleared"]
  /\ UNCHANGED <<total, used, callsStarted, limited, cancelled, label, shareOk, direct, late>>

\* raise LLMCancelled: run_lint (or enrich) gives the whole LLM part up.
BugAbort(t) ==   \* mutant: the cancellation is answered like a spent budget
  /\ pc[t] = "taken" /\ cancelled
  /\ pc' = [pc EXCEPT ![t] = "cleared"]
  /\ UNCHANGED <<total, used, callsStarted, limited, cancelled, label, shareOk, direct, late>>
Abort(t) ==
  /\ pc[t] = "taken" /\ cancelled
  /\ Leave(t, "ended")
  /\ UNCHANGED <<total, used, callsStarted, limited, cancelled, direct, late>>

\* Under the pool's lock: no share or no budget is answered "[]" and noted.
OverBudget(t) == ~shareOk[t] \/ callsStarted >= total

BugRefuse(t) ==   \* mutant: a refused call is counted back
  /\ pc[t] = "cleared" /\ OverBudget(t)
  /\ limited' = limited \cup {label[t]}
  /\ callsStarted' = callsStarted - 1
  /\ Leave(t, "idle")
  /\ UNCHANGED <<total, used, cancelled, direct, late>>
Refuse(t) ==
  /\ pc[t] = "cleared" /\ OverBudget(t)
  /\ limited' = limited \cup {label[t]}
  /\ Leave(t, "idle")
  /\ UNCHANGED <<total, used, callsStarted, cancelled, direct, late>>

BugStart(t) ==   \* mutant: the pool's own limit is dropped
  /\ pc[t] = "cleared" /\ shareOk[t]
  /\ callsStarted' = callsStarted + 1
  /\ late' = IF cancelled THEN [late EXCEPT ![t] = @ + 1] ELSE late
  /\ pc' = [pc EXCEPT ![t] = "calling"]
  /\ UNCHANGED <<total, used, limited, cancelled, label, shareOk, direct>>
Start(t) ==
  /\ pc[t] = "cleared" /\ ~OverBudget(t)
  /\ callsStarted' = callsStarted + 1
  /\ late' = IF cancelled THEN [late EXCEPT ![t] = @ + 1] ELSE late
  /\ pc' = [pc EXCEPT ![t] = "calling"]
  /\ UNCHANGED <<total, used, limited, cancelled, label, shareOk, direct>>

\* The provider answers, or fails or times out: the exception ends the run.
Return(t) ==
  /\ pc[t] = "calling"
  /\ Leave(t, "idle") \/ Leave(t, "ended")
  /\ UNCHANGED <<total, used, callsStarted, limited, cancelled, direct, late>>

\* The request handler timed out (main.py:236).
Cancel ==
  /\ ~cancelled /\ cancelled' = TRUE
  /\ UNCHANGED <<total, used, callsStarted, limited, pc, label, shareOk, direct, late>>

Proceed(t) == Cleared(t) \/ Abort(t) \/ Refuse(t) \/ Start(t) \/ Return(t)

Next ==
  \/ \E t \in Threads : Proceed(t) \/ TakeDirect(t) \/ \E c \in Checkers : TakeShare(t, c)
  \/ Cancel

Spec == Init /\ [][Next]_vars

\* A running thread is scheduled and a call of the provider ends: the SDK
\* timeout (llm_budget.py:113) bounds it.  Nothing makes a checker ask or a
\* request time out.
FairSpec == Spec /\ \A t \in Threads : WF_vars(Proceed(t))
-------------------------------------------------------------------------------
\* Every variable keeps its type.
TypeOK ==
  /\ total \in Totals
  /\ used \in [Checkers -> Nat]
  /\ callsStarted \in Nat /\ direct \in Nat
  /\ limited \subseteq Labels
  /\ cancelled \in BOOLEAN
  /\ pc \in [Threads -> {"idle", "taken", "cleared", "calling", "ended"}]
  /\ label \in [Threads -> Labels]
  /\ shareOk \in [Threads -> BOOLEAN]
  /\ late \in [Threads -> Nat]

\* The pool never starts more provider calls than the request's budget, however
\* many threads take shares at once and whatever mix of shares and direct calls.
WithinTotal == callsStarted <= AtLeastZero(total)

\* No checker is cut while its own share still has calls, as long as everybody
\* calls through a share: the pool's total never binds before the shares do, so
\* a greedy checker cannot eat another's part (README.md:17).
NoStarvation ==
  \A c \in Checkers : c \in limited => used[c] = Share[c] \/ direct > 0

\* plan_shares hands out no more than the budget and wastes at most one call of
\* it, and four calls are enough for each whole-document check to run.
SharesFit ==
  /\ Over(Share) <= AtLeastZero(total)
  /\ Over(Share) >= Smaller(total, total - 1)
  /\ total >= 4 => \A c \in WholeDocument : Share[c] > 0

\* A thread starts at most one call after the request was cancelled: the one it
\* had already cleared when the event was set (the look at the event is outside
\* the pool's lock).
OneLateCallPerThread == \A t \in Threads : late[t] <= 1

\* A cancelled request falls silent: from some point on no thread is in a call
\* or about to start one, so its LLM slot comes back.
CancelledFallsSilent ==
  cancelled ~> [](\A t \in Threads : pc[t] \notin {"cleared", "calling"})
===============================================================================
