-------------------------------- MODULE Quota ---------------------------------
(***************************************************************************)
(* app/quota.py: the daily quota kept in one SQLite table behind one       *)
(* connection and one threading.Lock.                                      *)
(*                                                                         *)
(* A write of the connection is visible to its own reads at once but only  *)
(* reaches the file at commit(); `view` is what the connection reads, `db` *)
(* what a crash leaves.  Every method runs under the lock; try_consume     *)
(* asks for today's date twice, so midnight may fall between its check and *)
(* its INSERT: it is the one method split into two steps.                  *)
(***************************************************************************)
EXTENDS QuotaRules

CONSTANT Free   \* value of the lock when nobody holds it

ASSUME FreeAssumption == Free \notin IPs

VARIABLES
  today,   \* date.today()
  db,      \* committed rows: [Keys -> [Days -> Nat]], a missing row is 0
  view,    \* the rows as this connection reads them
  inTx,    \* the connection holds an open write transaction
  mutex,   \* Free, or the visitor whose try_consume passed its check
  open,    \* charges whose request may still refund them, by day of charge
  net,     \* history: checks granted on a day and not refunded since
  stale    \* history: checks of a day's row eaten by refunds of older charges

vars == <<today, db, view, inTx, mutex, open, net, stale>>

\* The rows of one day as a ledger.
On(rows, d) == [k \in Keys |-> rows[k][d]]
Today == On(view, today)

\* DELETE FROM usage WHERE date != today.
BugPurged(rows) ==   \* mutant: WHERE date = today
  [k \in Keys |-> [d \in Days |-> IF d = today THEN 0 ELSE rows[k][d]]]
Purged(rows) == [k \in Keys |-> [d \in Days |-> IF d = today THEN rows[k][d] ELSE 0]]

\* commit() publishes the connection's view.
BugCommit == UNCHANGED <<db, inTx>>   \* mutant: the commit is forgotten
Commit == db' = view' /\ inTx' = FALSE

-------------------------------------------------------------------------------
\* __init__ on an empty database file.
Init ==
  /\ today = 0
  /\ db = NoRows /\ view = NoRows /\ inTx = FALSE
  /\ mutex = Free
  /\ open = NoRows /\ net = NoRows /\ stale = NoRows

\* try_consume returns quota_global or quota_ip: the DELETE has opened a write
\* transaction and the early return leaves it open.
ConsumeRefuse(ip) ==
  /\ mutex = Free
  /\ Verdict(Today, ip) # "granted"
  /\ view' = Purged(view) /\ inTx' = TRUE
  /\ UNCHANGED <<today, db, mutex, open, net, stale>>

\* try_consume up to its second _today(): the check passed, the lock is kept.
ConsumeAdmit(ip) ==
  /\ mutex = Free
  /\ Verdict(Today, ip) = "granted"
  /\ view' = Purged(view) /\ inTx' = TRUE
  /\ mutex' = ip
  /\ UNCHANGED <<today, db, open, net, stale>>

\* The INSERT .. ON CONFLICT for the date of now, the commit, the unlock.
ConsumeInsert(ip) ==
  /\ mutex = ip
  /\ view' = Bump(view, ip, today) /\ Commit
  /\ mutex' = Free
  /\ open' = Bump(open, ip, today)
  /\ net' = Bump(net, ip, today)
  /\ UNCHANGED <<today, stale>>

\* try_consume_admin uses one date throughout and commits on both paths.
AdminGrant ==
  /\ mutex = Free
  /\ Verdict(Today, Admin) = "granted"
  /\ view' = Bump(Purged(view), Admin, today) /\ Commit
  /\ open' = Bump(open, Admin, today)
  /\ net' = Bump(net, Admin, today)
  /\ UNCHANGED <<today, mutex, stale>>

AdminRefuse ==
  /\ mutex = Free
  /\ Verdict(Today, Admin) # "granted"
  /\ view' = Purged(view) /\ Commit
  /\ UNCHANGED <<today, mutex, open, net, stale>>

BugRefund(k, d) ==   \* mutant: refund looks for the raw IP, not its hash: no row matches
  /\ mutex = Free
  /\ open[k][d] > 0
  /\ view' = view /\ Commit
  /\ open' = Drop(open, k, d)
  /\ net' = Drop(net, k, d)
  /\ UNCHANGED <<today, mutex, stale>>

\* refund / refund_admin for a charge made on day d.  The UPDATE names the date
\* of now, not d: after midnight it takes a check off the new day's row.
Refund(k, d) ==
  /\ mutex = Free
  /\ open[k][d] > 0
  /\ view' = Drop(view, k, today) /\ Commit
  /\ open' = Drop(open, k, d)
  /\ net' = Drop(net, k, d)
  /\ stale' = IF d # today /\ view[k][today] > 0 THEN Bump(stale, k, today) ELSE stale
  /\ UNCHANGED <<today, mutex>>

\* The request of a charge is answered without a refund.
Settle(k, d) ==
  /\ open[k][d] > 0
  /\ open' = Drop(open, k, d)
  /\ UNCHANGED <<today, db, view, inTx, mutex, net, stale>>

\* The date changes: at any point, also under the lock.
Midnight ==
  /\ today < LastDay
  /\ today' = today + 1
  /\ UNCHANGED <<db, view, inTx, mutex, open, net, stale>>

BugRestart ==   \* mutant: the database lives in the container, not on the volume
  /\ db' = NoRows /\ view' = NoRows /\ inTx' = FALSE
  /\ mutex' = Free
  /\ open' = NoRows
  /\ UNCHANGED <<today, net, stale>>

\* The process dies and comes back: an open transaction is rolled back and no
\* request is left to ask for a refund.
Restart ==
  /\ view' = db /\ inTx' = FALSE
  /\ mutex' = Free
  /\ open' = NoRows
  /\ UNCHANGED <<today, db, net, stale>>

Next ==
  \/ \E ip \in IPs : ConsumeRefuse(ip) \/ ConsumeAdmit(ip) \/ ConsumeInsert(ip)
  \/ AdminGrant \/ AdminRefuse
  \/ \E k \in Keys, d \in Days : Refund(k, d) \/ Settle(k, d)
  \/ Midnight
  \/ Restart

Spec == Init /\ [][Next]_vars

-------------------------------------------------------------------------------
\* The variables keep their types: rows are counts per key and day, the lock is
\* free or held by one visitor's try_consume.
TypeOK ==
  /\ today \in Days
  /\ db \in Rows /\ view \in Rows
  /\ inTx \in BOOLEAN
  /\ mutex \in IPs \cup {Free}
  /\ open \in Rows /\ net \in Rows /\ stale \in Rows

\* No row of try_consume / try_consume_admin ever exceeds its cap on any day,
\* neither as the connection reads it nor as a crash would leave it, although
\* the check and the INSERT may fall on two different days and refunds,
\* midnights and restarts come in between.
WithinCaps(c) ==
  /\ \A ip \in IPs : c[ip] <= PerIp
  /\ PublicTotal(c) <= GlobalCap
  /\ c[Admin] <= AdminCap
DailyCaps == \A d \in Days : WithinCaps(On(view, d)) /\ WithinCaps(On(db, d))

\* A crash never loses a charge that was granted: for today and later the file
\* holds exactly what the connection reads, whatever purge is still uncommitted
\* (lines 51-59 return without commit).
CrashKeepsCharges ==
  \A k \in Keys, d \in Days : d >= today => db[k][d] = view[k][d]

\* The checks a visitor or the operator really keeps on a day exceed the cap at
\* most by the number of refunds of OLDER charges that ate into that day's row:
\* refund (line 107) is the only way past a cap.
CapOf(k) == IF k = Admin THEN AdminCap ELSE PerIp
CapUpToStaleRefunds ==
  \A k \in Keys, d \in Days : net[k][d] <= CapOf(k) + stale[k][d]

\* A refusal is never undeserved: when try_consume would answer quota_ip, the
\* visitor has had that many checks today that were not refunded, and likewise
\* for quota_global over all visitors and quota_admin for the operator.
RefusedOnlyWhenSpent ==
  \A k \in Keys :
    CASE Verdict(Today, k) = "quota_ip"     -> net[k][today] >= PerIp
      [] Verdict(Today, k) = "quota_global" -> PublicTotal(On(net, today)) >= GlobalCap
      [] Verdict(Today, k) = "quota_admin"  -> net[Admin][today] >= AdminCap
      [] OTHER -> TRUE

\* The number remaining / remaining_admin show a key is exactly how many more
\* checks it would be granted in a row: the min of two differences there, and the
\* two comparisons of try_consume, run out at the same check.
RemainingHonest ==
  mutex = Free =>
    \A k \in Keys : \A n \in 0 .. Remaining(Today, k) :
      Verdict([Today EXCEPT ![k] = @ + n], k) = "granted" <=> n < Remaining(Today, k)

\* Within a day the number shown to a key moves by one at most: down only when a
\* check is granted on its own side (visitors or operator), up only when one is
\* refunded there.  No purge, refusal or crash moves it, and nothing the operator
\* does moves a visitor's (the separate axis of the comment at quota.py:69).
SameSide(j, k) == (j = Admin) <=> (k = Admin)
DisplayFollowsCharges ==
  [][today' = today =>
       \A k \in Keys :
         LET shown == Remaining(Today, k)
             next  == Remaining(Today', k)
         IN  \/ next = shown
             \/ next = shown - 1 /\ \E j \in Keys :
                  SameSide(j, k) /\ net'[j][today] = net[j][today] + 1
             \/ next = shown + 1 /\ \E j \in Keys, d \in Days :
                  SameSide(j, k) /\ net'[j][d] = net[j][d] - 1]_vars

\* The table with its transaction, its rows of other days and its split
\* try_consume implements the ledger of one day.
Ledger == INSTANCE QuotaLedger WITH day <- today, count <- Today, owed <- open
ImplementsLedger == Ledger!LedgerSpec

\* Between two calls the connection holds no write transaction: what the
\* comment of _counts (app/quota.py:37-39) and the one on the DELETE (line 54)
\* say.  The refusal path breaks it.
NoOpenTransactionAtRest == mutex = Free => ~inTx

\* A visitor keeps at most PerIp checks a day: README.md:8.  A refund after
\* midnight breaks it.
StrictPerIpCap == \A ip \in IPs, d \in Days : net[ip][d] <= PerIp
===============================================================================
