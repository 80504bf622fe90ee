---------------------------- MODULE LlmBudgetProofs ---------------------------
(***************************************************************************)
(* What holds of LlmBudget.tla for any number of threads and any budget.   *)
(*                                                                         *)
(* The argument: plan_shares never hands out more than the budget; every   *)
(* call started or about to start has been taken from a share (or is       *)
(* direct), so as long as everybody uses shares the pool's own limit is    *)
(* never what refuses a call.                                              *)
(***************************************************************************)
EXTENDS LlmBudget, FiniteSetTheorems, TLAPS

\* plan_shares for any setting, a negative one included.
LEMMA SharesOf ==
  ASSUME NEW n \in Int
  PROVE  LET s == PlanShares(n)
         IN  /\ s \in [Checkers -> Nat]
             /\ Over(s) <= AtLeastZero(n)
             /\ Over(s) >= Smaller(n, n - 1)
             /\ n >= 4 => \A c \in WholeDocument : s[c] > 0
<1> DEFINE gap    == Smaller(2, AtLeastZero(n))
           contra == Smaller(1, AtLeastZero(n - gap))
           enrich == Smaller(1, AtLeastZero(n - gap - contra))
           rest   == n - gap - contra - enrich
           each   == AtLeastZero(rest \div 2)
           s      == PlanShares(n)
<1>1. gap \in Nat /\ contra \in Nat /\ enrich \in Nat /\ rest \in Int
  BY DEF Smaller, AtLeastZero
<1>2. rest \div 2 \in Int /\ 2 * (rest \div 2) <= rest /\ rest <= 2 * (rest \div 2) + 1
  <2> HIDE DEF rest
  <2> QED  BY <1>1
<1>3. each \in Nat
  <2> HIDE DEF rest
  <2> QED  BY <1>2 DEF AtLeastZero
<1>4. /\ s["logic-gap"] = gap /\ s["internal-contradiction"] = contra /\ s["enrich"] = enrich
      /\ s["unsupported-claim"] = each /\ s["vague-goal"] = each
      /\ s \in [Checkers -> Nat]
  <2> HIDE DEF gap, contra, enrich, each
  <2>1. s = [c \in Checkers |-> CASE c = "logic-gap"              -> gap
                                  [] c = "internal-contradiction" -> contra
                                  [] c = "enrich"                 -> enrich
                                  [] OTHER                        -> each]
    BY DEF PlanShares, gap, contra, enrich, each
  <2> HIDE DEF s
  <2> QED  BY <1>1, <1>3, <2>1 DEF Checkers, WholeDocument, PerSection
<1>5. Over(s) = gap + contra + enrich + 2 * each
  <2> HIDE DEF gap, contra, enrich, each, s
  <2> QED  BY <1>1, <1>3, <1>4 DEF Over
<1>6. /\ gap + contra + enrich <= AtLeastZero(n)
      /\ n >= 4 => gap = 2 /\ contra = 1 /\ enrich = 1
      /\ n < 0 => gap = 0 /\ contra = 0 /\ enrich = 0
      /\ rest < 0 => n < 0
  BY DEF Smaller, AtLeastZero
<1>7. 2 * each <= AtLeastZero(rest) /\ 2 * each >= rest - 1
  <2> HIDE DEF rest
  <2> QED  BY <1>1, <1>2 DEF AtLeastZero
<1>8. Over(s) <= AtLeastZero(n) /\ Over(s) >= Smaller(n, n - 1)
  <2>1. rest = n - gap - contra - enrich
    OBVIOUS
  <2> HIDE DEF gap, contra, enrich, rest, each, s
  <2> QED  BY <1>1, <1>3, <1>5, <1>6, <1>7, <2>1 DEF AtLeastZero, Smaller
<1>9. n >= 4 => \A c \in WholeDocument : s[c] > 0
  <2> HIDE DEF gap, contra, enrich, each, s
  <2> QED  BY <1>4, <1>6 DEF WholeDocument
<1> QED  BY <1>4, <1>8, <1>9

\* Every variable keeps its type.
THEOREM TypeCorrect == Spec => []TypeOK
<1>1. Init => TypeOK
  <2> SUFFICES ASSUME Init  PROVE TypeOK
    OBVIOUS
  <2>1. shareOk \in [Threads -> BOOLEAN]
    BY Zenon DEF Init
  <2> QED  BY <2>1 DEF Init, TypeOK, Labels
<1>2. TypeOK /\ [Next]_vars => TypeOK'
  <2> SUFFICES ASSUME TypeOK, [Next]_vars  PROVE TypeOK'
    OBVIOUS
  <2> USE DEF TypeOK
  <2>1. ASSUME NEW t \in Threads, NEW c \in Checkers, TakeShare(t, c)  PROVE TypeOK'
    BY <2>1 DEF TakeShare, Labels
  <2>2. ASSUME NEW t \in Threads, TakeDirect(t)  PROVE TypeOK'
    BY <2>2 DEF TakeDirect, Labels
  <2>3. ASSUME NEW t \in Threads, Cleared(t)  PROVE TypeOK'
    BY <2>3 DEF Cleared
  <2>4. ASSUME NEW t \in Threads, Abort(t)  PROVE TypeOK'
    BY <2>4 DEF Abort, Leave, Labels
  <2>5. ASSUME NEW t \in Threads, Refuse(t)  PROVE TypeOK'
    BY <2>5 DEF Refuse, Leave, Labels
  <2>6. ASSUME NEW t \in Threads, Start(t)  PROVE TypeOK'
    BY <2>6 DEF Start
  <2>7. ASSUME NEW t \in Threads, Return(t)  PROVE TypeOK'
    BY <2>7 DEF Return, Leave, Labels
  <2>8. CASE Cancel
    BY <2>8 DEF Cancel
  <2>9. CASE UNCHANGED vars
    BY <2>9 DEF vars
  <2> QED  BY <2>1, <2>2, <2>3, <2>4, <2>5, <2>6, <2>7, <2>8, <2>9 DEF Next, Proceed
<1> QED  BY <1>1, <1>2, PTL DEF Spec

\* Shares never exceed the request's budget, waste at most one call of it, and
\* from four calls on let every whole-document check run (plan_shares).
THEOREM SharesAlwaysFit == Spec => []SharesFit
<1>1. TypeOK => SharesFit
  <2> SUFFICES ASSUME TypeOK  PROVE SharesFit
    OBVIOUS
  <2>1. total \in Int
    BY TotalsAssumption DEF TypeOK
  <2> QED  BY <2>1, SharesOf DEF SharesFit, Share
<1> QED  BY <1>1, TypeCorrect, PTL

\* However the threads interleave, the pool starts at most total calls (_run).
THEOREM NeverOverTotal == Spec => []WithinTotal
<1>1. Init => WithinTotal
  BY TotalsAssumption DEF Init, WithinTotal, AtLeastZero
<1>2. TypeOK /\ WithinTotal /\ [Next]_vars => WithinTotal'
  <2> SUFFICES ASSUME TypeOK, WithinTotal, [Next]_vars  PROVE WithinTotal'
    OBVIOUS
  <2>1. ASSUME NEW t \in Threads, Start(t)  PROVE WithinTotal'
    BY <2>1, TotalsAssumption DEF TypeOK, Start, OverBudget, WithinTotal, AtLeastZero
  <2>2. CASE UNCHANGED <<callsStarted, total>>
    BY <2>2 DEF WithinTotal
  <2>3. [Next]_vars => (\E t \in Threads : Start(t)) \/ UNCHANGED <<callsStarted, total>>
    BY DEF Next, Proceed, TakeShare, TakeDirect, Cleared, Abort, Refuse, Return, Cancel, vars
  <2> QED  BY <2>1, <2>2, <2>3
<1> QED  BY <1>1, <1>2, TypeCorrect, PTL DEF Spec

\* After the cancel a thread that made its late call cannot be cleared again.
LateInv == \A t \in Threads :
  /\ late[t] <= 1
  /\ late[t] = 1 => cancelled /\ pc[t] # "cleared"

\* At most one call per thread starts after the cancel (_run's unlocked look).
THEOREM OneLateCall == Spec => []OneLateCallPerThread
<1>1. Init => LateInv
  BY DEF Init, LateInv
<1>2. TypeOK /\ LateInv /\ [Next]_vars => LateInv'
  <2> SUFFICES ASSUME TypeOK, LateInv, [Next]_vars  PROVE LateInv'
    OBVIOUS
  <2> USE DEF LateInv, TypeOK
  <2>1. ASSUME NEW t \in Threads, NEW c \in Checkers, TakeShare(t, c)  PROVE LateInv'
    BY <2>1 DEF TakeShare
  <2>2. ASSUME NEW t \in Threads, TakeDirect(t)  PROVE LateInv'
    BY <2>2 DEF TakeDirect
  <2>3. ASSUME NEW t \in Threads, Cleared(t)  PROVE LateInv'
    BY <2>3 DEF Cleared
  <2>4. ASSUME NEW t \in Threads, Abort(t) \/ Refuse(t) \/ Return(t)  PROVE LateInv'
    BY <2>4 DEF Abort, Refuse, Return, Leave
  <2>5. ASSUME NEW t \in Threads, Start(t)  PROVE LateInv'
    BY <2>5 DEF Start
  <2>6. CASE Cancel
    BY <2>6 DEF Cancel
  <2>7. CASE UNCHANGED vars
    BY <2>7 DEF vars
  <2> QED  BY <2>1, <2>2, <2>3, <2>4, <2>5, <2>6, <2>7 DEF Next, Proceed
<1>3. LateInv => OneLateCallPerThread
  BY DEF LateInv, OneLateCallPerThread
<1> QED  BY <1>1, <1>2, <1>3, TypeCorrect, PTL DEF Spec

-------------------------------------------------------------------------------
\* ---- nobody starves ------------------------------------------------------------

\* The threads that hold a call of a share (or a direct one) not yet counted.
Pending == { t \in Threads : pc[t] \in {"taken", "cleared"} /\ shareOk[t] }

PoolInv ==
  /\ \A c \in Checkers : used[c] <= Share[c]
  /\ callsStarted + Cardinality(Pending) <= Over(used) + direct
  /\ \A t \in Threads :
       pc[t] \in {"taken", "cleared"} /\ ~shareOk[t] =>
         label[t] \in Checkers /\ used[label[t]] = Share[label[t]]
  /\ NoStarvation

LEMMA PendingFinite == IsFiniteSet(Pending) /\ Cardinality(Pending) \in Nat
<1>1. Pending \subseteq Threads
  BY DEF Pending
<1> QED  BY <1>1, ThreadsAssumption, FS_Subset, FS_CardinalityType

LEMMA ShareType == TypeOK => Share \in [Checkers -> Nat] /\ Over(Share) <= AtLeastZero(total)
BY TotalsAssumption, SharesOf DEF TypeOK, Share

\* One more use of a checker is one more in the sum.
LEMMA OverBump ==
  ASSUME NEW f \in [Checkers -> Nat], NEW c \in Checkers
  PROVE  Over([f EXCEPT ![c] = @ + 1]) = Over(f) + 1
BY DEF Over, Checkers, WholeDocument, PerSection

LEMMA OverMonotone ==
  ASSUME NEW f \in [Checkers -> Nat], NEW g \in [Checkers -> Nat],
         \A c \in Checkers : f[c] <= g[c]
  PROVE  Over(f) <= Over(g) /\ Over(f) \in Nat /\ Over(g) \in Nat
BY DEF Over, Checkers, WholeDocument, PerSection

\* A thread that enters Pending counts one more; one that leaves counts one less.
LEMMA PendingEnter ==
  ASSUME NEW t \in Threads, t \notin Pending, Pending' = Pending \cup {t}
  PROVE  Cardinality(Pending)' = Cardinality(Pending) + 1
BY PendingFinite, FS_AddElement

LEMMA PendingLeave ==
  ASSUME NEW t \in Threads, t \in Pending, Pending' = Pending \ {t}
  PROVE  Cardinality(Pending)' = Cardinality(Pending) - 1
BY PendingFinite, FS_RemoveElement

LEMMA PendingShrinks ==
  ASSUME NEW t \in Threads, Pending' = Pending \ {t}
  PROVE  Cardinality(Pending)' <= Cardinality(Pending) /\ Cardinality(Pending)' \in Nat
<1>1. Cardinality(Pending)' = Cardinality(Pending \ {t})
  OBVIOUS
<1>2. IsFiniteSet(Pending) /\ Cardinality(Pending) \in Nat
  BY PendingFinite
<1>3. /\ IsFiniteSet(Pending \ {t})
      /\ Cardinality(Pending \ {t}) = IF t \in Pending THEN Cardinality(Pending) - 1
                                                      ELSE Cardinality(Pending)
  BY <1>2, FS_RemoveElement
<1>4. Cardinality(Pending \ {t}) \in Nat
  BY <1>3, FS_CardinalityType
<1>5. Cardinality(Pending \ {t}) <= Cardinality(Pending)
  BY <1>2, <1>3
<1> QED  BY <1>1, <1>4, <1>5

LEMMA PoolInit == Init => PoolInv
<1> SUFFICES ASSUME Init  PROVE PoolInv
  OBVIOUS
<1>1. PlanShares(total) \in [Checkers -> Nat]
  BY TotalsAssumption, SharesOf DEF Init
<1>2. Pending = {}
  BY DEF Init, Pending
<1>3. Cardinality(Pending) = 0
  BY <1>2, FS_EmptySet
<1>4. Over(used) = 0
  BY DEF Init, Over, Checkers, WholeDocument, PerSection
<1>5. \A c \in Checkers : used[c] <= Share[c]
  BY <1>1 DEF Init, Share
<1> QED  BY <1>3, <1>4, <1>5 DEF Init, PoolInv, NoStarvation

LEMMA PoolTakeShare ==
  ASSUME TypeOK, PoolInv, NEW t \in Threads, NEW c \in Checkers, TakeShare(t, c)
  PROVE  PoolInv'
<1> USE DEF PoolInv
<1>0. Share' = Share /\ Share \in [Checkers -> Nat] /\ t \notin Pending
  BY ShareType DEF TakeShare, Share, Pending
<1>1. CASE used[c] < Share[c]
  <2>1. used' = [used EXCEPT ![c] = @ + 1] /\ shareOk' = [shareOk EXCEPT ![t] = TRUE]
    BY <1>1 DEF TakeShare
  <2>2. Pending' = Pending \cup {t}
    BY <2>1 DEF TakeShare, Pending, TypeOK
  <2>3. Cardinality(Pending)' = Cardinality(Pending) + 1
    BY <1>0, <2>2, PendingEnter
  <2>4. Over(used)' = Over(used) + 1
    BY <2>1, OverBump DEF TypeOK
  <2>5. Over(used) \in Nat
    BY OverMonotone DEF TypeOK
  <2>6. callsStarted' + Cardinality(Pending)' <= Over(used)' + direct'
    BY <2>3, <2>4, <2>5, PendingFinite DEF TakeShare, TypeOK
  <2>7. \A q \in Checkers : used'[q] = IF q = c THEN used[q] + 1 ELSE used[q]
    BY <2>1 DEF TypeOK
  <2>8. \A q \in Checkers : used[q] \in Nat /\ Share[q] \in Nat
    BY <1>0 DEF TypeOK
  <2>9. \A q \in Checkers : used'[q] <= Share'[q] /\ (used[q] = Share[q] => used'[q] = Share'[q])
    BY <1>0, <1>1, <2>7, <2>8
  <2>10. NoStarvation'
    BY <2>9 DEF NoStarvation, TakeShare
  <2>11. \A u \in Threads :
           pc'[u] \in {"taken", "cleared"} /\ ~shareOk'[u] =>
             label'[u] \in Checkers /\ used'[label'[u]] = Share'[label'[u]]
    BY <2>1, <2>9 DEF TakeShare, TypeOK
  <2> QED  BY <2>6, <2>9, <2>10, <2>11
<1>2. CASE ~(used[c] < Share[c])
  <2>0. used' = used
    BY <1>2 DEF TakeShare
  <2>a. (used[c] < Share[c]) = FALSE
    BY <1>2
  <2>b. shareOk' = [shareOk EXCEPT ![t] = FALSE]
    BY <2>a, Zenon DEF TakeShare
  <2>1. used' = used /\ shareOk' = [shareOk EXCEPT ![t] = FALSE]
    BY <2>0, <2>b
  <2>2. used[c] = Share[c]
    BY <1>0, <1>2 DEF TypeOK
  <2>3. Pending' = Pending
    BY <2>1 DEF TakeShare, Pending, TypeOK
  <2> QED  BY <1>0, <2>1, <2>2, <2>3 DEF TakeShare, TypeOK, NoStarvation
<1> QED  BY <1>1, <1>2

LEMMA PoolTakeDirect ==
  ASSUME TypeOK, PoolInv, NEW t \in Threads, TakeDirect(t)
  PROVE  PoolInv'
<1> USE DEF PoolInv
<1>1. Share' = Share /\ t \notin Pending
  BY DEF TakeDirect, Share, Pending
<1>2. Pending' = Pending \cup {t}
  BY DEF TakeDirect, Pending, TypeOK
<1>3. Cardinality(Pending)' = Cardinality(Pending) + 1
  BY <1>1, <1>2, PendingEnter
<1>4. Over(used) \in Nat
  BY OverMonotone DEF TypeOK
<1>5. callsStarted' + Cardinality(Pending)' <= Over(used)' + direct'
  BY <1>3, <1>4, PendingFinite DEF TakeDirect, TypeOK
<1>6. NoStarvation'
  BY <1>1 DEF TakeDirect, NoStarvation, TypeOK
<1> QED  BY <1>1, <1>5, <1>6 DEF TakeDirect, TypeOK

\* A call is counted: it leaves Pending for callsStarted.
LEMMA PoolStart ==
  ASSUME TypeOK, PoolInv, NEW t \in Threads, Start(t)
  PROVE  PoolInv'
<1> USE DEF PoolInv
<1>1. Share' = Share /\ t \in Pending
  BY DEF Start, OverBudget, Share, Pending, TypeOK
<1>2. Pending' = Pending \ {t}
  BY DEF Start, Pending, TypeOK
<1>3. Cardinality(Pending)' = Cardinality(Pending) - 1
  BY <1>1, <1>2, PendingLeave
<1>4. callsStarted' + Cardinality(Pending)' <= Over(used)' + direct'
  BY <1>3, OverMonotone, PendingFinite DEF Start, TypeOK
<1> QED  BY <1>1, <1>4 DEF Start, TypeOK, NoStarvation

\* A call is refused: only because its share was spent, or a direct call took
\* part in the budget.
LEMMA PoolRefuse ==
  ASSUME TypeOK, PoolInv, NEW t \in Threads, Refuse(t)
  PROVE  PoolInv'
<1> USE DEF PoolInv
<1>1. Share' = Share /\ used' = used /\ direct' = direct
  BY DEF Refuse, Share
<1>2. Pending' = Pending \ {t}
  BY DEF Refuse, Leave, Pending, TypeOK
<1>3. Over(used) <= Over(Share) /\ Over(used) \in Nat /\ Over(Share) \in Nat
  BY ShareType, OverMonotone DEF TypeOK
<1>4. Cardinality(Pending)' <= Cardinality(Pending) /\ Cardinality(Pending)' \in Nat
  BY <1>2, PendingShrinks
<1>5. callsStarted' + Cardinality(Pending)' <= Over(used)' + direct'
  BY <1>1, <1>3, <1>4, PendingFinite DEF Refuse, TypeOK
<1>6. label[t] \in Checkers => used[label[t]] = Share[label[t]] \/ direct > 0
  <2>1. CASE ~shareOk[t]
    BY <2>1 DEF Refuse
  <2>2. CASE shareOk[t] /\ callsStarted >= total
    <3>1. t \in Pending
      BY <2>2 DEF Refuse, Pending
    <3>2. Cardinality(Pending) # 0
      BY <3>1, PendingFinite, FS_EmptySet
    <3>3. total \in Int /\ callsStarted \in Nat /\ direct \in Nat
      BY TotalsAssumption DEF TypeOK
    <3>4. direct > 0
      BY <1>3, <2>2, <3>2, <3>3, PendingFinite, ShareType DEF AtLeastZero
    <3> QED  BY <3>4
  <2> QED  BY <2>1, <2>2 DEF Refuse, OverBudget
<1>7. NoStarvation'
  BY <1>1, <1>6 DEF Refuse, NoStarvation, TypeOK
<1>8. \A u \in Threads :
        pc'[u] \in {"taken", "cleared"} /\ ~shareOk'[u] =>
          label'[u] \in Checkers /\ used'[label'[u]] = Share'[label'[u]]
  BY <1>1 DEF Refuse, Leave, TypeOK
<1> QED  BY <1>1, <1>5, <1>7, <1>8

\* An aborted call is dropped from Pending; a returned one was not in it.
LEMMA PoolLeave ==
  ASSUME TypeOK, PoolInv, NEW t \in Threads, Abort(t) \/ Return(t)
  PROVE  PoolInv'
<1> USE DEF PoolInv
<1>1. Share' = Share /\ UNCHANGED <<used, direct, callsStarted, limited>>
  BY DEF Abort, Return, Share
<1>2. Pending' = Pending \ {t}
  BY DEF Abort, Return, Leave, Pending, TypeOK
<1>3. Cardinality(Pending)' <= Cardinality(Pending) /\ Cardinality(Pending)' \in Nat
  BY <1>2, PendingShrinks
<1>4. callsStarted' + Cardinality(Pending)' <= Over(used)' + direct'
  BY <1>1, <1>3, OverMonotone, PendingFinite DEF TypeOK
<1>5. \A u \in Threads :
        pc'[u] \in {"taken", "cleared"} /\ ~shareOk'[u] =>
          label'[u] \in Checkers /\ used'[label'[u]] = Share'[label'[u]]
  BY <1>1 DEF Abort, Return, Leave, TypeOK
<1> QED  BY <1>1, <1>4, <1>5 DEF NoStarvation

\* A checker is cut only when its own share is spent (or someone bypassed the
\* shares): BudgetShare.complete and _run together, for any threads.
THEOREM NobodyStarves == Spec => []NoStarvation
<1>1. TypeOK /\ PoolInv /\ [Next]_vars => PoolInv'
  <2> SUFFICES ASSUME TypeOK, PoolInv, [Next]_vars  PROVE PoolInv'
    OBVIOUS
  <2>1. ASSUME NEW t \in Threads, Cleared(t)  PROVE PoolInv'
    <3>1. Pending' = Pending
      BY <2>1 DEF Cleared, Pending, TypeOK
    <3> QED  BY <2>1, <3>1 DEF Cleared, PoolInv, NoStarvation, Share, TypeOK
  <2>2. CASE Cancel \/ UNCHANGED vars
    <3>1. Pending' = Pending
      BY <2>2 DEF Cancel, vars, Pending
    <3> QED  BY <2>2, <3>1 DEF Cancel, vars, PoolInv, NoStarvation, Share
  <2> QED  BY <2>1, <2>2, PoolTakeShare, PoolTakeDirect, PoolStart, PoolRefuse, PoolLeave
           DEF Next, Proceed
<1>2. PoolInv => NoStarvation
  BY DEF PoolInv
<1> QED  BY <1>1, <1>2, PoolInit, TypeCorrect, PTL DEF Spec
===============================================================================
