------------------------------ MODULE QuotaRules ------------------------------
(***************************************************************************)
(* The arithmetic of app/quota.py: who may consume one more LLM check      *)
(* today, and how many are left.  A ledger c maps every key (an IP hash or *)
(* the reserved admin key) to the number of checks in its row of today.    *)
(***************************************************************************)
EXTENDS Integers, FiniteSets

CONSTANTS IPs,        \* the visitors (app/quota.py keeps only their hash)
          Admin,      \* ADMIN_KEY, the reserved row of the operator
          PerIp,      \* PLW_PER_IP_DAILY
          GlobalCap,  \* PLW_GLOBAL_DAILY
          AdminCap,   \* PLW_ADMIN_DAILY
          LastDay     \* bound: the days 0 .. LastDay are explored

ASSUME IPsAssumption  == IsFiniteSet(IPs) /\ Admin \notin IPs
ASSUME CapsAssumption == PerIp \in Nat /\ GlobalCap \in Nat /\ AdminCap \in Nat
ASSUME LastDayAssumption == LastDay \in Nat

Keys == IPs \cup {Admin}

Ledgers == [Keys -> Nat]

EmptyLedger == [k \in Keys |-> 0]

\* The table usage(ip_hash, date, count): a missing row counts 0.
Days == 0 .. LastDay
Rows == [Keys -> [Days -> Nat]]
NoRows == [k \in Keys |-> [d \in Days |-> 0]]

BugCharges(c) ==   \* mutant: without AND ip_hash != ?
  UNION { {k} \X (1 .. c[k]) : k \in Keys }
\* SELECT COALESCE(SUM(count), 0) .. WHERE ip_hash != ADMIN_KEY: the sum is the
\* size of the disjoint union of one set of checks per visitor, so the admin
\* row never counts against the public cap.
Charges(c) == UNION { {ip} \X (1 .. c[ip]) : ip \in IPs }
PublicTotal(c) == Cardinality(Charges(c))

BugVerdict(c, k) ==   \* mutant: > instead of >= for the visitor's own cap
  IF k = Admin
    THEN IF c[Admin] >= AdminCap THEN "quota_admin" ELSE "granted"
    ELSE IF PublicTotal(c) >= GlobalCap THEN "quota_global"
         ELSE IF c[k] > PerIp THEN "quota_ip" ELSE "granted"

\* What try_consume (for a visitor) and try_consume_admin answer for ledger c.
\* The global cap is looked at before the visitor's own.
Verdict(c, k) ==
  IF k = Admin
    THEN IF c[Admin] >= AdminCap THEN "quota_admin" ELSE "granted"
    ELSE IF PublicTotal(c) >= GlobalCap THEN "quota_global"
         ELSE IF c[k] >= PerIp THEN "quota_ip" ELSE "granted"

\* remaining and remaining_admin: what /api/quota and meta.remaining_today show.
AtLeastZero(n) == IF n > 0 THEN n ELSE 0
Smaller(m, n)  == IF m < n THEN m ELSE n
BugRemaining(c, k) ==   \* mutant: the global cap is forgotten
  IF k = Admin THEN AtLeastZero(AdminCap - c[Admin]) ELSE AtLeastZero(PerIp - c[k])
Remaining(c, k) ==
  IF k = Admin
    THEN AtLeastZero(AdminCap - c[Admin])
    ELSE AtLeastZero(Smaller(PerIp - c[k], GlobalCap - PublicTotal(c)))

\* INSERT .. ON CONFLICT DO UPDATE SET count = count + 1.
Bump(rows, k, d) == [rows EXCEPT ![k][d] = @ + 1]

\* The UPDATE of refund: MAX(count - 1, 0), a no-op when the row is missing.
BugDecremented(n) == n - 1   \* mutant: count - 1 without MAX
Decremented(n) == AtLeastZero(n - 1)
Drop(rows, k, d) == [rows EXCEPT ![k][d] = Decremented(@)]
===============================================================================
