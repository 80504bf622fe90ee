------------------------------ MODULE QuotaLedger -----------------------------
(***************************************************************************)
(* What app/quota.py promises to the request handler: one ledger of the    *)
(* current day on which a check is granted exactly when no cap is reached, *)
(* refunds give one check back, and midnight starts over.  No transaction, *)
(* no rows of other days, no lock: Quota.tla implements this.              *)
(***************************************************************************)
EXTENDS QuotaRules

VARIABLES day,     \* the current date
          count,   \* [Keys -> Nat], the checks used today
          owed     \* charges not settled yet, by key and day of charge

ledgerVars == <<day, count, owed>>

LedgerInit == day = 0 /\ count = EmptyLedger /\ owed = NoRows

\* try_consume / try_consume_admin returning None: granted under the caps, and
\* charged to the day on which it is granted.
Grant(k) ==
  /\ Verdict(count, k) = "granted"
  /\ count' = [count EXCEPT ![k] = @ + 1]
  /\ owed' = Bump(owed, k, day)
  /\ UNCHANGED day

\* The same for a request that ends in the step that charges it: nobody is left
\* to ask for the check back.
Spend(k) ==
  /\ Verdict(count, k) = "granted"
  /\ count' = [count EXCEPT ![k] = @ + 1]
  /\ UNCHANGED <<day, owed>>

\* refund / refund_admin: a check comes back only for a charge not settled yet.
GiveBack(k, d) ==
  /\ owed[k][d] > 0
  /\ count' = [count EXCEPT ![k] = Decremented(@)]
  /\ owed' = Drop(owed, k, d)
  /\ UNCHANGED day

\* The charge stands.
Keep(k, d) ==
  /\ owed[k][d] > 0
  /\ owed' = Drop(owed, k, d)
  /\ UNCHANGED <<day, count>>

\* Only a new date empties the ledger.
NewDay ==
  /\ day < LastDay
  /\ day' = day + 1
  /\ count' = EmptyLedger
  /\ UNCHANGED owed

\* A crash forgets who could ask for a refund, never what was charged.
Crash == owed' = NoRows /\ UNCHANGED <<day, count>>

LedgerNext ==
  \/ \E k \in Keys : Grant(k) \/ Spend(k)
  \/ \E k \in Keys, d \in Days : GiveBack(k, d) \/ Keep(k, d)
  \/ NewDay
  \/ Crash

LedgerSpec == LedgerInit /\ [][LedgerNext]_ledgerVars
===============================================================================
