------------------------------ MODULE QuotaProofs -----------------------------
(***************************************************************************)
(* What holds of Quota.tla for any visitors, caps and number of days.      *)
(*                                                                         *)
(* The argument: TypeInv first; then CapInv, in which a try_consume that   *)
(* passed its check keeps room in the row of NOW until it inserts (the     *)
(* lock keeps the others out, midnight empties the row), and the file      *)
(* agrees with the connection from today on; then GhostInv, which relates  *)
(* today's row to the checks granted and not refunded.                     *)
(***************************************************************************)
EXTENDS Quota, QuotaRulesProofs

-------------------------------------------------------------------------------
\* ---- rows and ledgers --------------------------------------------------------

LEMMA RowTypes ==
  ASSUME NEW rows \in Rows, NEW k \in Keys, NEW d \in Days
  PROVE  /\ rows[k] \in [Days -> Nat] /\ rows[k][d] \in Nat
         /\ On(rows, d) \in Ledgers /\ On(rows, d)[k] = rows[k][d]
         /\ Bump(rows, k, d) \in Rows
         /\ Drop(rows, k, d) \in Rows
<1>1. rows[k] \in [Days -> Nat] /\ rows[k][d] \in Nat
  BY DEF Rows
<1>2. On(rows, d) \in Ledgers /\ On(rows, d)[k] = rows[k][d]
  BY DEF Rows, On, Ledgers
<1>3. Bump(rows, k, d) \in Rows
  BY <1>1 DEF Bump, Rows
<1>4. Decremented(rows[k][d]) \in Nat
  BY <1>1 DEF Decremented, AtLeastZero
<1>5. Drop(rows, k, d) \in Rows
  BY <1>1, <1>4 DEF Drop, Rows
<1> QED  BY <1>1, <1>2, <1>3, <1>5

\* What a write to one cell does to every cell.
LEMMA Cells ==
  ASSUME NEW rows \in Rows, NEW k \in Keys, NEW d \in Days,
         NEW q \in Keys, NEW e \in Days
  PROVE  /\ Bump(rows, k, d)[q][e] = IF q = k /\ e = d THEN rows[q][e] + 1 ELSE rows[q][e]
         /\ Drop(rows, k, d)[q][e] = IF q = k /\ e = d THEN Decremented(rows[q][e]) ELSE rows[q][e]
         /\ NoRows[q][e] = 0
         /\ Decremented(rows[q][e]) = IF rows[q][e] = 0 THEN 0 ELSE rows[q][e] - 1
<1>1. rows[q] \in [Days -> Nat] /\ rows[q][e] \in Nat /\ rows[k] \in [Days -> Nat]
  BY DEF Rows
<1>2. Bump(rows, k, d)[q][e] = IF q = k /\ e = d THEN rows[q][e] + 1 ELSE rows[q][e]
  BY <1>1 DEF Bump, Rows
<1>3. Drop(rows, k, d)[q][e] = IF q = k /\ e = d THEN Decremented(rows[q][e]) ELSE rows[q][e]
  BY <1>1 DEF Drop, Rows
<1> QED  BY <1>1, <1>2, <1>3 DEF NoRows, Decremented, AtLeastZero

\* The purge keeps today's row and empties the others.
LEMMA PurgedCells ==
  ASSUME NEW rows \in Rows, NEW q \in Keys, NEW e \in Days
  PROVE  /\ Purged(rows) \in Rows
         /\ Purged(rows)[q][e] = IF e = today THEN rows[q][e] ELSE 0
BY DEF Purged, Rows

\* Rows that agree on a day have the same ledger of that day.
LEMMA SameDay ==
  ASSUME NEW rows, NEW rows2, NEW d, NEW e,
         \A k \in Keys : rows[k][d] = rows2[k][e]
  PROVE  On(rows, d) = On(rows2, e)
BY DEF On

LEMMA CapsOfEmpty == WithinCaps(EmptyLedger)
BY EmptyTotal, CapsAssumption DEF WithinCaps, EmptyLedger, Keys

LEMMA AdminNotIP == Admin \in Keys /\ (\A ip \in IPs : ip \in Keys /\ ip # Admin /\ ip # Free)
BY IPsAssumption, FreeAssumption DEF Keys

LEMMA DaysType == Days \subseteq Nat /\ 0 \in Days
BY LastDayAssumption DEF Days

-------------------------------------------------------------------------------
\* Every variable of the quota keeps its type (app/quota.py never writes a row
\* below zero: MAX(count - 1, 0)).
THEOREM TypeCorrect == Spec => []TypeOK
<1>1. Init => TypeOK
  <2>1. NoRows \in Rows
    BY DEF NoRows, Rows
  <2> QED  BY <2>1, DaysType DEF Init, TypeOK
<1>2. TypeOK /\ [Next]_vars => TypeOK'
  <2> SUFFICES ASSUME TypeOK, [Next]_vars  PROVE TypeOK'
    OBVIOUS
  <2> USE DEF TypeOK
  <2>1. ASSUME NEW ip \in IPs, ConsumeRefuse(ip)  PROVE TypeOK'
    <3>1. Purged(view) \in Rows  BY PurgedCells DEF Purged, Rows
    <3> QED  BY <2>1, <3>1 DEF ConsumeRefuse
  <2>2. ASSUME NEW ip \in IPs, ConsumeAdmit(ip)  PROVE TypeOK'
    <3>1. Purged(view) \in Rows  BY PurgedCells DEF Purged, Rows
    <3> QED  BY <2>2, <3>1 DEF ConsumeAdmit
  <2>3. ASSUME NEW ip \in IPs, ConsumeInsert(ip)  PROVE TypeOK'
    BY <2>3, AdminNotIP, RowTypes DEF ConsumeInsert, Commit
  <2>4. CASE AdminGrant
    <3>1. Purged(view) \in Rows  BY PurgedCells DEF Purged, Rows
    <3> QED  BY <2>4, <3>1, AdminNotIP, RowTypes DEF AdminGrant, Commit
  <2>5. CASE AdminRefuse
    <3>1. Purged(view) \in Rows  BY PurgedCells DEF Purged, Rows
    <3> QED  BY <2>5, <3>1 DEF AdminRefuse, Commit
  <2>6. ASSUME NEW k \in Keys, NEW d \in Days, Refund(k, d)  PROVE TypeOK'
    BY <2>6, RowTypes DEF Refund, Commit
  <2>7. ASSUME NEW k \in Keys, NEW d \in Days, Settle(k, d)  PROVE TypeOK'
    BY <2>7, RowTypes DEF Settle
  <2>8. CASE Midnight
    BY <2>8, LastDayAssumption DEF Midnight, Days
  <2>9. CASE Restart
    BY <2>9 DEF Restart, NoRows, Rows
  <2>10. CASE UNCHANGED vars
    BY <2>10 DEF vars
  <2> QED  BY <2>1, <2>2, <2>3, <2>4, <2>5, <2>6, <2>7, <2>8, <2>9, <2>10 DEF Next
<1> QED  BY <1>1, <1>2, PTL DEF Spec

-------------------------------------------------------------------------------
\* ---- how the writes change the ledger of a day ----------------------------------

LEMMA PurgedDay ==
  ASSUME NEW rows \in Rows, NEW e \in Days
  PROVE  On(Purged(rows), e) = IF e = today THEN On(rows, e) ELSE EmptyLedger
<1>1. CASE e = today
  BY <1>1, PurgedCells, SameDay
<1>2. CASE e # today
  BY <1>2, PurgedCells DEF On, EmptyLedger
<1> QED  BY <1>1, <1>2

LEMMA BumpDay ==
  ASSUME NEW rows \in Rows, NEW k \in Keys, NEW d \in Days, NEW e \in Days
  PROVE  On(Bump(rows, k, d), e) = IF e = d THEN [On(rows, d) EXCEPT ![k] = @ + 1] ELSE On(rows, e)
<1>1. CASE e = d
  <2>1. \A q \in Keys : On(Bump(rows, k, d), e)[q] = [On(rows, d) EXCEPT ![k] = @ + 1][q]
    BY <1>1, Cells DEF On
  <2> QED  BY <1>1, <2>1 DEF On
<1>2. CASE e # d
  BY <1>2, Cells, SameDay
<1> QED  BY <1>1, <1>2

LEMMA DropDay ==
  ASSUME NEW rows \in Rows, NEW k \in Keys, NEW d \in Days, NEW e \in Days
  PROVE  On(Drop(rows, k, d), e) =
           IF e = d THEN [On(rows, d) EXCEPT ![k] = Decremented(@)] ELSE On(rows, e)
<1>1. CASE e = d
  <2>1. \A q \in Keys : On(Drop(rows, k, d), e)[q] = [On(rows, d) EXCEPT ![k] = Decremented(@)][q]
    BY <1>1, Cells DEF On
  <2> QED  BY <1>1, <2>1 DEF On
<1>2. CASE e # d
  BY <1>2, Cells, SameDay
<1> QED  BY <1>1, <1>2

\* ---- and the caps ------------------------------------------------------------

LEMMA CapsAfterVisitor ==
  ASSUME NEW c \in Ledgers, NEW ip \in IPs, WithinCaps(c),
         c[ip] < PerIp, PublicTotal(c) < GlobalCap
  PROVE  WithinCaps([c EXCEPT ![ip] = @ + 1])
<1> DEFINE d == [c EXCEPT ![ip] = @ + 1]
<1>1. d \in Ledgers /\ PublicTotal(d) = PublicTotal(c) + 1
  BY TotalBump
<1>2. PublicTotal(d) <= GlobalCap
  BY <1>1, TotalType, CapsAssumption
<1>3. \A k \in Keys : c[k] \in Nat /\ d[k] = IF k = ip THEN c[ip] + 1 ELSE c[k]
  BY DEF Ledgers
<1>4. d[Admin] <= AdminCap
  BY <1>3, AdminNotIP DEF WithinCaps
<1>5. \A q \in IPs : d[q] <= PerIp
  BY <1>3, AdminNotIP, CapsAssumption DEF WithinCaps
<1> QED  BY <1>2, <1>4, <1>5 DEF WithinCaps

LEMMA CapsAfterAdmin ==
  ASSUME NEW c \in Ledgers, WithinCaps(c), c[Admin] < AdminCap
  PROVE  WithinCaps([c EXCEPT ![Admin] = @ + 1])
<1> DEFINE d == [c EXCEPT ![Admin] = @ + 1]
<1>1. \A k \in Keys : c[k] \in Nat /\ d[k] = IF k = Admin THEN c[Admin] + 1 ELSE c[k]
  BY DEF Ledgers
<1>2. d \in Ledgers
  BY <1>1, AdminNotIP DEF Ledgers
<1>3. \A ip \in IPs : d[ip] = c[ip]
  BY <1>1, AdminNotIP
<1>4. PublicTotal(d) = PublicTotal(c)
  BY <1>2, <1>3, TotalSame
<1>5. d[Admin] <= AdminCap
  BY <1>1, AdminNotIP, CapsAssumption
<1> QED  BY <1>3, <1>4, <1>5 DEF WithinCaps

LEMMA CapsAfterRefund ==
  ASSUME NEW c \in Ledgers, NEW k \in Keys, WithinCaps(c)
  PROVE  WithinCaps([c EXCEPT ![k] = Decremented(@)])
<1> DEFINE d == [c EXCEPT ![k] = Decremented(@)]
<1>1. \A q \in Keys : c[q] \in Nat /\ d[q] \in Nat /\ d[q] <= c[q]
  BY DEF Ledgers, Decremented, AtLeastZero
<1>2. d \in Ledgers
  BY <1>1 DEF Ledgers
<1>3. PublicTotal(d) <= PublicTotal(c)
  BY <1>1, <1>2, AdminNotIP, TotalMonotone
<1>4. PublicTotal(d) <= GlobalCap
  BY <1>2, <1>3, TotalType, CapsAssumption DEF WithinCaps
<1>5. \A q \in IPs : d[q] <= PerIp
  BY <1>1, AdminNotIP, CapsAssumption DEF WithinCaps
<1>6. d[Admin] <= AdminCap
  BY <1>1, AdminNotIP, CapsAssumption DEF WithinCaps
<1> QED  BY <1>4, <1>5, <1>6 DEF WithinCaps

-------------------------------------------------------------------------------
\* ---- the caps, under every interleaving of midnight and crashes ------------------

InCaps(rows) == \A d \in Days : WithinCaps(On(rows, d))

\* A try_consume between its check and its INSERT still has room in today's row.
Room == mutex # Free => view[mutex][today] < PerIp /\ PublicTotal(Today) < GlobalCap

\* Nothing is ever written for a day that has not come.
NothingAhead == \A k \in Keys, d \in Days : d > today => view[k][d] = 0 /\ db[k][d] = 0

CapInv == TypeOK /\ Room /\ NothingAhead /\ CrashKeepsCharges /\ DailyCaps

LEMMA CapsSplit == DailyCaps <=> InCaps(view) /\ InCaps(db)
BY DEF DailyCaps, InCaps

LEMMA PurgeInCaps ==
  ASSUME NEW rows \in Rows, InCaps(rows)
  PROVE  InCaps(Purged(rows))
BY PurgedDay, CapsOfEmpty DEF InCaps

LEMMA BumpInCaps ==
  ASSUME NEW rows \in Rows, NEW k \in Keys, NEW d \in Days, InCaps(rows),
         WithinCaps([On(rows, d) EXCEPT ![k] = @ + 1])
  PROVE  InCaps(Bump(rows, k, d))
BY BumpDay DEF InCaps

LEMMA DropInCaps ==
  ASSUME NEW rows \in Rows, NEW k \in Keys, NEW d \in Days, InCaps(rows)
  PROVE  InCaps(Drop(rows, k, d))
<1>1. SUFFICES ASSUME NEW e \in Days  PROVE WithinCaps(On(Drop(rows, k, d), e))
  BY DEF InCaps
<1>2. On(rows, d) \in Ledgers /\ WithinCaps(On(rows, d)) /\ WithinCaps(On(rows, e))
  BY RowTypes DEF InCaps
<1>3. WithinCaps([On(rows, d) EXCEPT ![k] = Decremented(@)])
  BY <1>2, CapsAfterRefund
<1> QED  BY <1>2, <1>3, DropDay

\* What "granted" says about the ledger.
LEMMA GrantedRoom ==
  ASSUME NEW c \in Ledgers, NEW k \in Keys, Verdict(c, k) = "granted"
  PROVE  IF k = Admin THEN c[Admin] < AdminCap
         ELSE k \in IPs /\ c[k] < PerIp /\ PublicTotal(c) < GlobalCap
<1>1. c[k] \in Nat /\ PublicTotal(c) \in Nat
  BY TotalType DEF Ledgers
<1> QED  BY <1>1, CapsAssumption, AdminNotIP DEF Verdict, Keys

LEMMA CapInit == Init => CapInv
<1> SUFFICES ASSUME Init  PROVE CapInv
  OBVIOUS
<1>1. NoRows \in Rows
  BY DEF NoRows, Rows
<1>2. TypeOK
  BY <1>1, DaysType DEF Init, TypeOK
<1>3. NothingAhead /\ CrashKeepsCharges
  BY <1>1, Cells DEF Init, NothingAhead, CrashKeepsCharges
<1>4. \A d \in Days : On(NoRows, d) = EmptyLedger
  BY DEF On, NoRows, EmptyLedger
<1>5. DailyCaps
  BY <1>4, CapsOfEmpty DEF Init, DailyCaps
<1> QED  BY <1>2, <1>3, <1>5 DEF Init, Room, CapInv

\* Steps that only purge: both refusals of try_consume and its admission.
LEMMA CapPurge ==
  ASSUME CapInv, TypeOK', view' = Purged(view), today' = today,
         db' \in {db, view'},
         mutex' = mutex \/ (Verdict(Today, mutex') = "granted" /\ mutex' \in IPs)
  PROVE  CapInv'
<1> USE DEF CapInv
<1>1. view \in Rows /\ db \in Rows /\ today \in Days /\ Purged(view) \in Rows
  BY PurgedCells DEF TypeOK, Purged, Rows
<1>2. InCaps(view') /\ InCaps(db')
  BY <1>1, CapsSplit, PurgeInCaps DEF InCaps
<1>3. DailyCaps'
  BY <1>2 DEF DailyCaps, InCaps
<1>4. \A k \in Keys, d \in Days : view'[k][d] = IF d = today THEN view[k][d] ELSE 0
  BY <1>1, PurgedCells
<1>5. NothingAhead'
  BY <1>4, DaysType DEF NothingAhead, TypeOK
<1>6. CrashKeepsCharges'
  BY <1>4, DaysType DEF CrashKeepsCharges, NothingAhead, TypeOK
<1>7. Today' = Today
  BY <1>1, PurgedDay DEF Today
<1>8. Room'
  <2>1. CASE mutex' = mutex
    <3>1. mutex # Free => mutex \in Keys  BY AdminNotIP DEF TypeOK
    <3> QED  BY <1>1, <1>4, <1>7, <2>1, <3>1 DEF Room
  <2>2. CASE Verdict(Today, mutex') = "granted" /\ mutex' \in IPs
    <3>1. mutex' \in Keys /\ mutex' # Admin
      BY <2>2, AdminNotIP
    <3>2. Today \in Ledgers /\ Today[mutex'] = view[mutex'][today]
      BY <1>1, <3>1, RowTypes DEF Today
    <3>3. view[mutex'][today] < PerIp /\ PublicTotal(Today) < GlobalCap
      BY <2>2, <3>1, <3>2, GrantedRoom
    <3> QED  BY <1>1, <1>4, <1>7, <3>1, <3>3 DEF Room
  <2> QED  BY <2>1, <2>2
<1> QED  BY <1>3, <1>5, <1>6, <1>8

\* Steps that add a check where there is room for it, and commit.
LEMMA CapCharge ==
  ASSUME CapInv, TypeOK', NEW k \in Keys, NEW rows \in Rows, InCaps(rows),
         \A q \in Keys, d \in Days : d >= today => rows[q][d] = view[q][d],
         WithinCaps([Today EXCEPT ![k] = @ + 1]),
         view' = Bump(rows, k, today), db' = view', today' = today, mutex' = Free
  PROVE  CapInv'
<1> USE DEF CapInv
<1>1. today \in Days /\ view \in Rows
  BY DEF TypeOK
<1>2. On(rows, today) = Today
  BY <1>1, DaysType, SameDay DEF Today
<1>3. InCaps(view') /\ InCaps(db')
  BY <1>1, <1>2, BumpInCaps
<1>4. DailyCaps'
  BY <1>3 DEF DailyCaps, InCaps
<1>5. \A q \in Keys, d \in Days :
        view'[q][d] = IF q = k /\ d = today THEN rows[q][d] + 1 ELSE rows[q][d]
  BY <1>1, Cells
<1>6. NothingAhead'
  BY <1>1, <1>5, DaysType DEF NothingAhead
<1>7. CrashKeepsCharges' /\ Room'
  BY DEF CrashKeepsCharges, Room
<1> QED  BY <1>4, <1>6, <1>7

LEMMA CapRefund ==
  ASSUME CapInv, TypeOK', NEW k \in Keys, NEW d \in Days, Refund(k, d)
  PROVE  CapInv'
<1> USE DEF CapInv
<1>1. today \in Days /\ view \in Rows /\ InCaps(view)
  BY CapsSplit DEF TypeOK
<1>2. view' = Drop(view, k, today) /\ db' = view' /\ today' = today /\ mutex = Free /\ mutex' = mutex
  BY DEF Refund, Commit
<1>3. InCaps(view') /\ InCaps(db')
  BY <1>1, <1>2, DropInCaps
<1>4. DailyCaps'
  BY <1>3 DEF DailyCaps, InCaps
<1>5. NothingAhead'
  BY <1>1, <1>2, Cells DEF NothingAhead
<1>6. CrashKeepsCharges' /\ Room'
  BY <1>2 DEF CrashKeepsCharges, Room
<1> QED  BY <1>4, <1>5, <1>6

\* Midnight leaves the admitted visitor an empty row: his room is that of the caps.
LEMMA CapMidnight == ASSUME CapInv, TypeOK', Midnight  PROVE CapInv'
<1> USE DEF CapInv
<1>1. today \in Days /\ today' \in Days /\ today' = today + 1 /\ today' > today
  BY DaysType DEF Midnight, TypeOK
<1>2. UNCHANGED <<view, db, mutex>>
  BY DEF Midnight
<1>3. DailyCaps'
  BY <1>2 DEF DailyCaps, WithinCaps
<1>4. NothingAhead' /\ CrashKeepsCharges'
  BY <1>1, <1>2, DaysType DEF NothingAhead, CrashKeepsCharges
<1>5. Room'
  <2>1. SUFFICES ASSUME mutex # Free
                 PROVE  view[mutex][today'] < PerIp /\ PublicTotal(On(view, today')) < GlobalCap
    BY <1>2 DEF Room, Today
  <2>2. mutex \in Keys
    BY <2>1, AdminNotIP DEF TypeOK
  <2>3. view[mutex][today] \in Nat /\ PublicTotal(Today) \in Nat
    BY <1>1, <2>2, RowTypes, TotalType DEF TypeOK, Today
  <2>4. 0 < PerIp /\ 0 < GlobalCap
    BY <2>1, <2>3, CapsAssumption DEF Room
  <2>5. On(view, today') = EmptyLedger
    BY <1>1 DEF On, EmptyLedger, NothingAhead
  <2>6. view[mutex][today'] = 0
    BY <1>1, <2>2 DEF NothingAhead
  <2> QED  BY <2>4, <2>5, <2>6, EmptyTotal
<1> QED  BY <1>3, <1>4, <1>5

LEMMA CapNext == CapInv /\ TypeOK' /\ [Next]_vars => CapInv'
<1> SUFFICES ASSUME CapInv, TypeOK', [Next]_vars  PROVE CapInv'
  OBVIOUS
<1>t. view \in Rows /\ db \in Rows /\ today \in Days /\ mutex \in IPs \cup {Free} /\ Today \in Ledgers
  BY AdminNotIP, RowTypes DEF CapInv, TypeOK, Today, On, Rows, Ledgers
<1>p. /\ Purged(view) \in Rows /\ InCaps(view) /\ InCaps(Purged(view))
      /\ \A q \in Keys, d \in Days : d >= today => Purged(view)[q][d] = view[q][d]
  <2>1. InCaps(view)
    BY CapsSplit DEF CapInv
  <2>2. Purged(view) \in Rows
    BY <1>t DEF Purged, Rows
  <2>3. \A q \in Keys, d \in Days : d >= today => Purged(view)[q][d] = view[q][d]
    BY <1>t, PurgedCells, DaysType DEF CapInv, NothingAhead
  <2> QED  BY <1>t, <2>1, <2>2, <2>3, PurgeInCaps
<1>1. ASSUME NEW ip \in IPs, ConsumeRefuse(ip)  PROVE CapInv'
  <2>1. view' = Purged(view) /\ today' = today /\ db' = db /\ mutex' = mutex
    BY <1>1 DEF ConsumeRefuse
  <2> QED  BY <2>1, CapPurge
<1>2. ASSUME NEW ip \in IPs, ConsumeAdmit(ip)  PROVE CapInv'
  BY <1>2, CapPurge DEF ConsumeAdmit
<1>3. ASSUME NEW ip \in IPs, ConsumeInsert(ip)  PROVE CapInv'
  <2>1. mutex = ip /\ ip \in Keys /\ ip # Free
    BY <1>3, AdminNotIP DEF ConsumeInsert
  <2>2. Today[ip] = view[ip][today] /\ WithinCaps(Today)
    BY <1>t, <1>p, <2>1, RowTypes DEF Today, InCaps
  <2>3. WithinCaps([Today EXCEPT ![ip] = @ + 1])
    BY <1>t, <2>1, <2>2, CapsAfterVisitor DEF CapInv, Room
  <2> QED  BY <1>3, <1>t, <1>p, <2>1, <2>3, CapCharge DEF ConsumeInsert, Commit
<1>4. CASE AdminGrant
  <2>1. WithinCaps(Today)
    BY <1>t, <1>p DEF Today, InCaps
  <2>2. WithinCaps([Today EXCEPT ![Admin] = @ + 1])
    BY <1>4, <1>t, <2>1, AdminNotIP, GrantedRoom, CapsAfterAdmin DEF AdminGrant
  <2>3. mutex' = Free
    BY <1>4 DEF AdminGrant
  <2> QED  BY <1>4, <1>p, <2>2, <2>3, AdminNotIP, CapCharge DEF AdminGrant, Commit
<1>5. CASE AdminRefuse
  <2>1. view' = Purged(view) /\ today' = today /\ db' = view' /\ mutex' = mutex
    BY <1>5 DEF AdminRefuse, Commit
  <2> QED  BY <2>1, CapPurge
<1>6. ASSUME NEW k \in Keys, NEW d \in Days, Refund(k, d)  PROVE CapInv'
  BY <1>6, CapRefund
<1>7. ASSUME NEW k \in Keys, NEW d \in Days, Settle(k, d)  PROVE CapInv'
  BY <1>7 DEF Settle, CapInv, Room, NothingAhead, CrashKeepsCharges, DailyCaps, WithinCaps, Today
<1>8. CASE Midnight
  BY <1>8, CapMidnight
<1>9. CASE Restart
  <2>1. InCaps(db)
    BY CapsSplit DEF CapInv
  <2>2. DailyCaps'
    BY <1>9, <2>1 DEF Restart, DailyCaps, InCaps, WithinCaps
  <2>3. Room' /\ NothingAhead' /\ CrashKeepsCharges'
    BY <1>9 DEF Restart, CapInv, Room, NothingAhead, CrashKeepsCharges
  <2> QED  BY <2>2, <2>3 DEF CapInv
<1>10. CASE UNCHANGED vars
  BY <1>10 DEF vars, CapInv, Room, NothingAhead, CrashKeepsCharges, DailyCaps, WithinCaps, Today
<1> QED  BY <1>1, <1>2, <1>3, <1>4, <1>5, <1>6, <1>7, <1>8, <1>9, <1>10 DEF Next

LEMMA CapInvariant == Spec => []CapInv
<1>1. CapInv /\ TypeOK' /\ [Next]_vars => CapInv'
  BY CapNext
<1> QED  BY <1>1, CapInit, TypeCorrect, PTL DEF Spec

\* The daily caps hold on every row, read or committed, for every number of
\* visitors, caps and midnights (try_consume, try_consume_admin).
THEOREM CapsHold == Spec => []DailyCaps
BY CapInvariant, PTL DEF CapInv

\* A crash at any point finds every granted charge of today in the file.
THEOREM CrashSafe == Spec => []CrashKeepsCharges
BY CapInvariant, PTL DEF CapInv

-------------------------------------------------------------------------------
\* ---- today's row against the checks granted and not refunded ---------------------

OpenIsNet == \A k \in Keys, d \in Days : open[k][d] <= net[k][d]

\* Today's row is the net use, less what refunds of older charges took from it.
RowIsNet ==
  \A k \in Keys : /\ view[k][today] <= net[k][today]
                 /\ net[k][today] <= view[k][today] + stale[k][today]

NoHistoryAhead == \A k \in Keys, d \in Days : d > today => net[k][d] = 0 /\ stale[k][d] = 0

GhostInv == OpenIsNet /\ RowIsNet /\ NoHistoryAhead /\ CapUpToStaleRefunds

LEMMA CellTypes ==
  ASSUME TypeOK
  PROVE  /\ today \in Days /\ today \in Nat
         /\ \A k \in Keys, d \in Days :
              /\ view[k][d] \in Nat /\ db[k][d] \in Nat /\ open[k][d] \in Nat
              /\ net[k][d] \in Nat /\ stale[k][d] \in Nat
BY RowTypes, DaysType DEF TypeOK

UnderCap == \A k \in Keys : CapOf(k) \in Nat /\ view[k][today] <= CapOf(k)

LEMMA RowUnderCap == CapInv => UnderCap
<1> SUFFICES ASSUME CapInv, NEW k \in Keys
             PROVE  CapOf(k) \in Nat /\ view[k][today] <= CapOf(k)
  BY DEF UnderCap
<1>1. today \in Days /\ view \in Rows
  BY DEF CapInv, TypeOK
<1>2. WithinCaps(On(view, today)) /\ On(view, today)[k] = view[k][today]
  BY <1>1, RowTypes DEF CapInv, DailyCaps
<1>3. CASE k = Admin
  BY <1>2, <1>3, CapsAssumption DEF WithinCaps, CapOf
<1>4. CASE k # Admin
  BY <1>2, <1>4, CapsAssumption DEF WithinCaps, CapOf, Keys
<1> QED  BY <1>3, <1>4

\* Steps that leave today's row and the history alone.
LEMMA GhostStutter ==
  ASSUME CapInv, GhostInv, today' = today,
         \A k \in Keys : view'[k][today] = view[k][today],
         net' = net, stale' = stale,
         \A k \in Keys, d \in Days : open'[k][d] <= net[k][d]
  PROVE  GhostInv'
BY DEF GhostInv, OpenIsNet, RowIsNet, NoHistoryAhead, CapUpToStaleRefunds, CapOf

\* A granted check is one more in the row, in the net use and in the open charges.
LEMMA GhostCharge ==
  ASSUME CapInv, CapInv', GhostInv, NEW k \in Keys, NEW rows \in Rows,
         \A q \in Keys : rows[q][today] = view[q][today],
         view' = Bump(rows, k, today), net' = Bump(net, k, today),
         open' = Bump(open, k, today), today' = today, stale' = stale
  PROVE  GhostInv'
<1> USE DEF GhostInv
<1>1. /\ TypeOK /\ net \in Rows /\ open \in Rows /\ today \in Days
      /\ \A q \in Keys, d \in Days : net[q][d] \in Nat /\ open[q][d] \in Nat /\ stale[q][d] \in Nat
      /\ \A q \in Keys : view[q][today] \in Nat
  BY CellTypes DEF CapInv, TypeOK
<1>2. \A q \in Keys, d \in Days :
        /\ net'[q][d] = IF q = k /\ d = today THEN net[q][d] + 1 ELSE net[q][d]
        /\ open'[q][d] = IF q = k /\ d = today THEN open[q][d] + 1 ELSE open[q][d]
  BY <1>1, Cells
<1>3. \A q \in Keys : view'[q][today] = IF q = k THEN view[q][today] + 1 ELSE view[q][today]
  BY <1>1, Cells
<1>4. OpenIsNet'
  BY <1>1, <1>2 DEF OpenIsNet
<1>5. RowIsNet'
  BY <1>1, <1>2, <1>3 DEF RowIsNet
<1>6. NoHistoryAhead'
  BY <1>1, <1>2, CellTypes DEF NoHistoryAhead
<1>7. CapUpToStaleRefunds'
  <2>1. SUFFICES ASSUME NEW q \in Keys, NEW d \in Days
                 PROVE  net'[q][d] <= CapOf(q) + stale[q][d]
    BY DEF CapUpToStaleRefunds, CapOf
  <2>2. CASE q = k /\ d = today
    <3>1. CapOf(q) \in Nat /\ view'[q][today] <= CapOf(q)
      <4>1. UnderCap'  BY RowUnderCap, PTL
      <4> QED  BY <4>1 DEF UnderCap, CapOf
    <3>2. net'[q][today] <= view'[q][today] + stale[q][today]
      BY <1>5 DEF RowIsNet
    <3> QED  BY <1>1, <1>2, <1>3, <2>2, <3>1, <3>2
  <2>3. CASE ~(q = k /\ d = today)
    BY <1>2, <2>3 DEF CapUpToStaleRefunds
  <2> QED  BY <2>2, <2>3
<1> QED  BY <1>4, <1>5, <1>6, <1>7

\* A refund of today takes one off both; one of an older charge takes one off
\* the row and is counted as stale.
LEMMA GhostRefund ==
  ASSUME CapInv, GhostInv, NEW k \in Keys, NEW d \in Days, Refund(k, d)
  PROVE  GhostInv'
<1> USE DEF GhostInv
<1>1. /\ TypeOK /\ view \in Rows /\ net \in Rows /\ open \in Rows /\ stale \in Rows /\ today \in Days
      /\ \A q \in Keys, e \in Days :
           /\ net[q][e] \in Nat /\ open[q][e] \in Nat /\ stale[q][e] \in Nat /\ view[q][e] \in Nat
  BY CellTypes DEF CapInv, TypeOK
<1>2. /\ view' = Drop(view, k, today) /\ open' = Drop(open, k, d) /\ net' = Drop(net, k, d)
      /\ stale' = IF d # today /\ view[k][today] > 0 THEN Bump(stale, k, today) ELSE stale
      /\ today' = today /\ open[k][d] > 0
  BY DEF Refund
<1>3. \A q \in Keys, e \in Days :
        /\ view'[q][e] = IF q = k /\ e = today /\ view[q][e] # 0 THEN view[q][e] - 1 ELSE view[q][e]
        /\ net'[q][e] = IF q = k /\ e = d /\ net[q][e] # 0 THEN net[q][e] - 1 ELSE net[q][e]
        /\ open'[q][e] = IF q = k /\ e = d /\ open[q][e] # 0 THEN open[q][e] - 1 ELSE open[q][e]
        /\ stale'[q][e] = IF q = k /\ e = today /\ d # today /\ view[k][today] > 0
                           THEN stale[q][e] + 1 ELSE stale[q][e]
  BY <1>1, <1>2, Cells
<1>4. net[k][d] > 0
  BY <1>1, <1>2 DEF OpenIsNet
<1>5. OpenIsNet'
  BY <1>1, <1>3 DEF OpenIsNet
<1>6. RowIsNet'
  BY <1>1, <1>2, <1>3, <1>4 DEF RowIsNet
<1>7. NoHistoryAhead'
  BY <1>1, <1>2, <1>3, CellTypes DEF NoHistoryAhead
<1>8. CapUpToStaleRefunds'
  <2>1. SUFFICES ASSUME NEW q \in Keys, NEW e \in Days
                 PROVE  net'[q][e] <= CapOf(q) + stale'[q][e]
    BY DEF CapUpToStaleRefunds, CapOf
  <2>2. net'[q][e] <= net[q][e] /\ stale[q][e] <= stale'[q][e] /\ net'[q][e] \in Nat /\ stale'[q][e] \in Nat
    BY <1>1, <1>3
  <2>3. net[q][e] <= CapOf(q) + stale[q][e] /\ CapOf(q) \in Nat
    BY RowUnderCap DEF UnderCap, CapUpToStaleRefunds
  <2> QED  BY <1>1, <2>2, <2>3
<1> QED  BY <1>5, <1>6, <1>7, <1>8

LEMMA GhostInit == Init => GhostInv
<1> SUFFICES ASSUME Init  PROVE GhostInv
  OBVIOUS
<1>1. \A k \in Keys, d \in Days : NoRows[k][d] = 0
  BY DEF NoRows
<1>2. \A k \in Keys : CapOf(k) \in Nat
  BY CapsAssumption DEF CapOf
<1> QED  BY <1>1, <1>2, DaysType
         DEF Init, GhostInv, OpenIsNet, RowIsNet, NoHistoryAhead, CapUpToStaleRefunds

LEMMA GhostMidnight == ASSUME CapInv, GhostInv, TypeOK', Midnight  PROVE GhostInv'
<1>1. today \in Days /\ today' \in Days /\ today' > today /\ today' = today + 1
  BY DaysType DEF CapInv, TypeOK, Midnight
<1>2. UNCHANGED <<view, open, net, stale>>
  BY DEF Midnight
<1>3. RowIsNet'
  BY <1>1, <1>2 DEF CapInv, GhostInv, NothingAhead, NoHistoryAhead, RowIsNet
<1>4. NoHistoryAhead'
  BY <1>1, <1>2, DaysType DEF GhostInv, NoHistoryAhead
<1> QED  BY <1>2, <1>3, <1>4 DEF GhostInv, OpenIsNet, CapUpToStaleRefunds, CapOf

LEMMA GhostNext == CapInv /\ CapInv' /\ GhostInv /\ [Next]_vars => GhostInv'
<1> SUFFICES ASSUME CapInv, CapInv', GhostInv, [Next]_vars  PROVE GhostInv'
  OBVIOUS
<1>t. /\ TypeOK /\ TypeOK' /\ view \in Rows /\ today \in Days /\ Purged(view) \in Rows
      /\ \A k \in Keys : Purged(view)[k][today] = view[k][today]
  BY PurgedCells DEF CapInv, TypeOK, Purged, Rows
<1>1. ASSUME NEW ip \in IPs, ConsumeRefuse(ip) \/ ConsumeAdmit(ip)  PROVE GhostInv'
  BY <1>1, <1>t, GhostStutter DEF ConsumeRefuse, ConsumeAdmit, GhostInv, OpenIsNet
<1>2. ASSUME NEW ip \in IPs, ConsumeInsert(ip)  PROVE GhostInv'
  BY <1>2, <1>t, AdminNotIP, GhostCharge DEF ConsumeInsert
<1>3. CASE AdminGrant
  BY <1>3, <1>t, AdminNotIP, GhostCharge DEF AdminGrant
<1>4. CASE AdminRefuse
  BY <1>4, <1>t, GhostStutter DEF AdminRefuse, GhostInv, OpenIsNet
<1>5. ASSUME NEW k \in Keys, NEW d \in Days, Refund(k, d)  PROVE GhostInv'
  BY <1>5, GhostRefund
<1>6. ASSUME NEW k \in Keys, NEW d \in Days, Settle(k, d)  PROVE GhostInv'
  <2>1. \A q \in Keys, e \in Days : open'[q][e] <= open[q][e] /\ open'[q][e] \in Nat
    BY <1>6, <1>t, CellTypes, Cells DEF Settle, TypeOK
  <2>2. \A q \in Keys, e \in Days : open'[q][e] <= net[q][e]
    BY <1>t, <2>1, CellTypes DEF GhostInv, OpenIsNet
  <2> QED  BY <1>6, <2>2, GhostStutter DEF Settle
<1>7. CASE Midnight
  BY <1>7, <1>t, GhostMidnight
<1>8. CASE Restart
  <2>1. \A q \in Keys, e \in Days : open'[q][e] <= net[q][e]
    BY <1>8, <1>t, CellTypes DEF Restart, NoRows
  <2>2. \A q \in Keys : view'[q][today] = view[q][today]
    BY <1>8, <1>t, CellTypes DEF Restart, CapInv, CrashKeepsCharges
  <2> QED  BY <1>8, <2>1, <2>2, GhostStutter DEF Restart
<1>9. CASE UNCHANGED vars
  BY <1>9 DEF vars, GhostInv, OpenIsNet, RowIsNet, NoHistoryAhead, CapUpToStaleRefunds, CapOf
<1> QED  BY <1>1, <1>2, <1>3, <1>4, <1>5, <1>6, <1>7, <1>8, <1>9 DEF Next

LEMMA GhostInvariant == Spec => [](CapInv /\ GhostInv)
BY CapInvariant, GhostInit, GhostNext, PTL DEF Spec

\* The checks kept on a day exceed the cap at most by the refunds of older
\* charges that fell on it: refund's date is the only way past a cap.
THEOREM OverrunIsStaleRefunds == Spec => []CapUpToStaleRefunds
BY GhostInvariant, PTL DEF GhostInv

\* try_consume refuses only who, or what public, has really used the cap up.
THEOREM RefusalsDeserved == Spec => []RefusedOnlyWhenSpent
<1>1. CapInv /\ GhostInv => RefusedOnlyWhenSpent
  <2> SUFFICES ASSUME CapInv, GhostInv, NEW k \in Keys
               PROVE  /\ Verdict(Today, k) = "quota_ip" => net[k][today] >= PerIp
                      /\ Verdict(Today, k) = "quota_global" => PublicTotal(On(net, today)) >= GlobalCap
                      /\ Verdict(Today, k) = "quota_admin" => net[Admin][today] >= AdminCap
    BY DEF RefusedOnlyWhenSpent
  <2>1. TypeOK /\ Today \in Ledgers /\ On(net, today) \in Ledgers
    BY AdminNotIP, RowTypes DEF CapInv, TypeOK, Today
  <2>2. \A q \in Keys : /\ Today[q] = view[q][today] /\ On(net, today)[q] = net[q][today]
                       /\ view[q][today] <= net[q][today]
                       /\ view[q][today] \in Nat /\ net[q][today] \in Nat
    BY <2>1, CellTypes DEF On, Today, GhostInv, RowIsNet
  <2>3. PublicTotal(Today) <= PublicTotal(On(net, today))
    BY <2>1, <2>2, AdminNotIP, TotalMonotone
  <2>4. PublicTotal(Today) \in Nat /\ PublicTotal(On(net, today)) \in Nat
    BY <2>1, TotalType
  <2>5. Verdict(Today, k) = "quota_ip" => net[k][today] >= PerIp
    BY <2>2, CapsAssumption DEF Verdict
  <2>6. Verdict(Today, k) = "quota_global" => PublicTotal(On(net, today)) >= GlobalCap
    BY <2>3, <2>4, CapsAssumption DEF Verdict
  <2>7. Verdict(Today, k) = "quota_admin" => net[Admin][today] >= AdminCap
    BY <2>2, AdminNotIP, CapsAssumption DEF Verdict
  <2> QED  BY <2>5, <2>6, <2>7
<1> QED  BY <1>1, GhostInvariant, PTL

\* The number shown to a key is exactly the checks it is granted from here on.
LEMMA ShownIsGranted ==
  ASSUME NEW c \in Ledgers, NEW k \in Keys, NEW n \in Nat
  PROVE  Verdict([c EXCEPT ![k] = @ + n], k) = "granted" <=> n < Remaining(c, k)
<1> DEFINE d == [c EXCEPT ![k] = @ + n]
<1>1. /\ PublicTotal(d) \in Nat /\ PublicTotal(c) \in Nat /\ c[k] \in Nat /\ d[k] = c[k] + n
      /\ PublicTotal(d) = IF k = Admin THEN PublicTotal(c) ELSE PublicTotal(c) + n
  BY TotalOf
<1> HIDE DEF d
<1>2. Verdict(d, k) = "granted" <=> n < Remaining(c, k)
  BY <1>1, CapsAssumption DEF Verdict, Remaining, AtLeastZero, Smaller
<1> QED  BY <1>2 DEF d

\* What /api/quota advertises is what the next calls of try_consume grant.
THEOREM AdvertisedIsGranted == Spec => []RemainingHonest
<1>1. TypeOK => RemainingHonest
  <2> SUFFICES ASSUME TypeOK, NEW k \in Keys, NEW n \in 0 .. Remaining(Today, k)
               PROVE  Verdict([Today EXCEPT ![k] = @ + n], k) = "granted" <=> n < Remaining(Today, k)
    BY DEF RemainingHonest
  <2>1. Today \in Ledgers /\ n \in Nat
    BY AdminNotIP, RowTypes DEF TypeOK, Today
  <2> QED  BY <2>1, ShownIsGranted
<1> QED  BY <1>1, TypeCorrect, PTL

\* A granted check lowers the numbers of its own side by one at most ..
LEMMA ShownAfterCharge ==
  ASSUME NEW c \in Ledgers, NEW j \in Keys, NEW k \in Keys
  PROVE  LET d == [c EXCEPT ![j] = @ + 1] IN
         \/ Remaining(d, k) = Remaining(c, k)
         \/ SameSide(j, k) /\ Remaining(d, k) = Remaining(c, k) - 1
<1> DEFINE d == [c EXCEPT ![j] = @ + 1]
<1>1. /\ PublicTotal(d) \in Nat /\ PublicTotal(c) \in Nat
      /\ \A q \in Keys : c[q] \in Nat /\ d[q] = IF q = j THEN c[q] + 1 ELSE c[q]
      /\ PublicTotal(d) = IF j = Admin THEN PublicTotal(c) ELSE PublicTotal(c) + 1
  BY TotalOf
<1> HIDE DEF d
<1>2. \/ Remaining(d, k) = Remaining(c, k)
      \/ SameSide(j, k) /\ Remaining(d, k) = Remaining(c, k) - 1
  BY <1>1, AdminNotIP, CapsAssumption DEF Remaining, AtLeastZero, Smaller, SameSide
<1> QED  BY <1>2 DEF d

\* .. and a refund raises them by one at most.
LEMMA ShownAfterRefund ==
  ASSUME NEW c \in Ledgers, NEW j \in Keys, NEW k \in Keys
  PROVE  LET d == [c EXCEPT ![j] = Decremented(@)] IN
         \/ Remaining(d, k) = Remaining(c, k)
         \/ SameSide(j, k) /\ Remaining(d, k) = Remaining(c, k) + 1
<1> DEFINE d == [c EXCEPT ![j] = Decremented(@)]
<1>1. \A q \in Keys : c[q] \in Nat /\ d[q] = IF q = j THEN Decremented(c[q]) ELSE c[q]
  BY DEF Ledgers
<1>2. \A n \in Nat : Decremented(n) \in Nat /\ (n > 0 => Decremented(n) + 1 = n) /\ (n = 0 => Decremented(n) = 0)
  BY DEF Decremented, AtLeastZero
<1>3. d \in Ledgers
  BY <1>1, <1>2 DEF Ledgers
<1> HIDE DEF d
<1>4. CASE c[j] = 0
  <2>1. \A q \in Keys : d[q] = c[q]
    BY <1>1, <1>2, <1>4
  <2>2. d = c
    BY <1>3, <2>1 DEF Ledgers
  <2> QED  BY <2>2 DEF d
<1>5. CASE c[j] > 0
  <2> DEFINE e == [d EXCEPT ![j] = @ + 1]
  <2>1. \A q \in Keys : e[q] = c[q]
    BY <1>1, <1>2, <1>3, <1>5 DEF Ledgers
  <2>2. e = c
    BY <1>3, <2>1 DEF Ledgers
  <2>3. \/ Remaining(e, k) = Remaining(d, k)
        \/ SameSide(j, k) /\ Remaining(e, k) = Remaining(d, k) - 1
    BY <1>3, ShownAfterCharge
  <2>4. Remaining(d, k) \in Int
    <3>1. PublicTotal(d) \in Nat /\ d[k] \in Nat /\ (k = Admin => d[Admin] \in Nat)
      BY <1>3, TotalType DEF Ledgers
    <3> QED  BY <3>1, CapsAssumption DEF Remaining, AtLeastZero, Smaller
  <2> QED  BY <2>2, <2>3, <2>4 DEF d
<1> QED  BY <1>1, <1>4, <1>5

\* Within a day the display of a key moves only with the charges and refunds of
\* its own side, one at a time: the purge, the refusals, the crash and the other
\* side leave it where it is.
THEOREM DisplayMovesWithCharges == Spec => DisplayFollowsCharges
<1> DEFINE Moved(k) ==
      \/ Remaining(Today', k) = Remaining(Today, k)
      \/ Remaining(Today', k) = Remaining(Today, k) - 1 /\ \E j \in Keys :
           SameSide(j, k) /\ net'[j][today] = net[j][today] + 1
      \/ Remaining(Today', k) = Remaining(Today, k) + 1 /\ \E j \in Keys, d \in Days :
           SameSide(j, k) /\ net'[j][d] = net[j][d] - 1
<1>1. ASSUME CapInv, GhostInv, [Next]_vars, today' = today, NEW k \in Keys
      PROVE  Moved(k)
  <2>1. /\ TypeOK /\ view \in Rows /\ db \in Rows /\ net \in Rows /\ today \in Days
        /\ Purged(view) \in Rows /\ Today \in Ledgers
        /\ On(Purged(view), today) = Today
    BY <1>1, AdminNotIP, PurgedCells, PurgedDay, RowTypes DEF CapInv, TypeOK, Today, Purged, Rows
  <2>2. CASE Today' = Today
    BY <2>2
  <2>3. ASSUME NEW j \in Keys, Today' = [Today EXCEPT ![j] = @ + 1], net' = Bump(net, j, today)
        PROVE  Moved(k)
    <3>1. net'[j][today] = net[j][today] + 1
      BY <2>1, <2>3, Cells
    <3> QED  BY <2>1, <2>3, <3>1, ShownAfterCharge
  <2>4. ASSUME NEW ip \in IPs, ConsumeRefuse(ip) \/ ConsumeAdmit(ip)  PROVE Today' = Today
    BY <1>1, <2>1, <2>4 DEF ConsumeRefuse, ConsumeAdmit, Today
  <2>5. ASSUME NEW ip \in IPs, ConsumeInsert(ip)  PROVE Moved(k)
    <3>1. Today' = [Today EXCEPT ![ip] = @ + 1]
      BY <1>1, <2>1, <2>5, AdminNotIP, BumpDay DEF ConsumeInsert, Today
    <3> QED  BY <2>3, <2>5, <3>1, AdminNotIP DEF ConsumeInsert
  <2>6. CASE AdminGrant
    <3>1. Today' = [Today EXCEPT ![Admin] = @ + 1]
      BY <1>1, <2>1, <2>6, AdminNotIP, BumpDay DEF AdminGrant, Today
    <3> QED  BY <2>3, <2>6, <3>1, AdminNotIP DEF AdminGrant
  <2>7. CASE AdminRefuse
    BY <1>1, <2>1, <2>2, <2>7 DEF AdminRefuse, Today
  <2>8. ASSUME NEW j \in Keys, NEW d \in Days, Refund(j, d)  PROVE Moved(k)
    <3>1. Today' = [Today EXCEPT ![j] = Decremented(@)]
      BY <1>1, <2>1, <2>8, DropDay DEF Refund, Today
    <3>2. open[j][d] > 0 /\ open[j][d] <= net[j][d] /\ open[j][d] \in Nat /\ net[j][d] \in Nat
      BY <1>1, <2>1, <2>8, CellTypes DEF Refund, GhostInv, OpenIsNet
    <3>3. net'[j][d] = net[j][d] - 1
      BY <2>1, <2>8, <3>2, Cells DEF Refund
    <3> QED  BY <2>1, <3>1, <3>3, ShownAfterRefund
  <2>9. CASE Restart
    <3>1. Today' = Today
      BY <1>1, <2>1, <2>9, CellTypes, SameDay DEF Restart, Today, CapInv, CrashKeepsCharges
    <3> QED  BY <2>2, <3>1
  <2>10. ASSUME NEW j \in Keys, NEW d \in Days, Settle(j, d)  PROVE Moved(k)
    BY <1>1, <2>2, <2>10 DEF Settle, Today
  <2>11. CASE UNCHANGED vars
    BY <2>2, <2>11 DEF vars, Today
  <2>12. ~Midnight
    BY <1>1, <2>1, DaysType DEF Midnight
  <2> QED  BY <1>1, <2>2, <2>4, <2>5, <2>6, <2>7, <2>8, <2>9, <2>10, <2>11, <2>12 DEF Next
<1>2. CapInv /\ GhostInv /\ [Next]_vars =>
        [today' = today => \A k \in Keys : Moved(k)]_vars
  BY <1>1
<1> QED  BY <1>2, GhostInvariant, PTL DEF Spec, DisplayFollowsCharges

-------------------------------------------------------------------------------
\* ---- the table implements the ledger of one day -----------------------------------

\* The instance computes with the same rules.
LEMMA SameRules ==
  ASSUME NEW c, NEW k, NEW d, NEW n
  PROVE  /\ Ledger!Keys = Keys /\ Ledger!Days = Days
         /\ Ledger!EmptyLedger = EmptyLedger /\ Ledger!NoRows = NoRows
         /\ Ledger!Verdict(c, k) = Verdict(c, k)
         /\ Ledger!Decremented(n) = Decremented(n)
         /\ Ledger!Bump(c, k, d) = Bump(c, k, d) /\ Ledger!Drop(c, k, d) = Drop(c, k, d)
<1>1. Ledger!Keys = Keys /\ Ledger!Days = Days
  BY DEF Ledger!Keys, Keys, Ledger!Days, Days
<1>2. Ledger!EmptyLedger = EmptyLedger /\ Ledger!NoRows = NoRows
  BY <1>1 DEF Ledger!EmptyLedger, EmptyLedger, Ledger!NoRows, NoRows
<1>3. Ledger!Verdict(c, k) = Verdict(c, k)
  <2>1. Ledger!Charges(c) = Charges(c)
    BY DEF Ledger!Charges, Charges
  <2>2. Ledger!Cardinality(Charges(c)) = Cardinality(Charges(c))
    BY DEF Ledger!Cardinality, Cardinality
  <2> QED  BY <2>1, <2>2 DEF Ledger!Verdict, Verdict, Ledger!PublicTotal, PublicTotal
<1>4. \A m : Ledger!Decremented(m) = Decremented(m)
  BY DEF Ledger!Decremented, Decremented, Ledger!AtLeastZero, AtLeastZero
<1>5. Ledger!Bump(c, k, d) = Bump(c, k, d)
  BY DEF Ledger!Bump, Bump
<1>6. Ledger!Drop(c, k, d) = Drop(c, k, d)
  BY <1>4 DEF Ledger!Drop, Drop
<1> QED  BY <1>1, <1>2, <1>3, <1>4, <1>5, <1>6

LEMMA LedgerStep == CapInv /\ TypeOK' /\ [Next]_vars => [Ledger!LedgerNext]_(Ledger!ledgerVars)
<1> SUFFICES ASSUME CapInv, TypeOK', [Next]_vars
             PROVE  Ledger!LedgerNext \/ UNCHANGED <<today, Today, open>>
  BY DEF Ledger!ledgerVars
<1> USE DEF Ledger!LedgerNext
<1>t. /\ TypeOK /\ view \in Rows /\ db \in Rows /\ today \in Days /\ Purged(view) \in Rows /\ Today \in Ledgers
      /\ On(Purged(view), today) = Today
  BY PurgedDay, AdminNotIP, RowTypes DEF CapInv, TypeOK, Purged, Rows, Today, On, Ledgers
<1>1. ASSUME NEW ip \in IPs, ConsumeRefuse(ip) \/ ConsumeAdmit(ip)
      PROVE  UNCHANGED <<today, Today, open>>
  BY <1>1, <1>t DEF ConsumeRefuse, ConsumeAdmit, Today
<1>2. ASSUME NEW ip \in IPs, ConsumeInsert(ip)  PROVE Ledger!Grant(ip)
  <2>1. mutex = ip /\ mutex # Free /\ ip \in Keys /\ ip # Admin
    BY <1>2, AdminNotIP DEF ConsumeInsert
  <2>2. Today[ip] < PerIp /\ PublicTotal(Today) < GlobalCap
    BY <1>t, <2>1, RowTypes DEF CapInv, Room, Today
  <2>3. Today[ip] \in Nat /\ PublicTotal(Today) \in Nat
    BY <1>t, <2>1, TotalType DEF Ledgers
  <2>4. Verdict(Today, ip) = "granted"
    BY <2>1, <2>2, <2>3, CapsAssumption DEF Verdict
  <2>5. Today' = [Today EXCEPT ![ip] = @ + 1]
    BY <1>2, <1>t, <2>1, BumpDay DEF ConsumeInsert, Today
  <2> QED  BY <1>2, <2>4, <2>5, SameRules DEF Ledger!Grant, ConsumeInsert
<1>3. ASSUME AdminGrant  PROVE Ledger!Grant(Admin)
  <2>1. Today' = [Today EXCEPT ![Admin] = @ + 1]
    BY <1>3, <1>t, AdminNotIP, BumpDay DEF AdminGrant, Today
  <2> QED  BY <1>3, <2>1, SameRules DEF Ledger!Grant, AdminGrant
<1>4. ASSUME AdminRefuse  PROVE UNCHANGED <<today, Today, open>>
  BY <1>4, <1>t DEF AdminRefuse, Today
<1>5. ASSUME NEW k \in Keys, NEW d \in Days, Refund(k, d)  PROVE Ledger!GiveBack(k, d)
  <2>1. Today' = [Today EXCEPT ![k] = Decremented(@)]
    BY <1>5, <1>t, DropDay DEF Refund, Today
  <2> QED  BY <1>5, <2>1, SameRules DEF Ledger!GiveBack, Refund
<1>6. ASSUME NEW k \in Keys, NEW d \in Days, Settle(k, d)  PROVE Ledger!Keep(k, d)
  BY <1>6, SameRules DEF Ledger!Keep, Settle, Today
<1>7. ASSUME Midnight  PROVE Ledger!NewDay
  <2>1. today' = today + 1 /\ today' \in Days /\ today' > today /\ view' = view
    BY <1>7, <1>t, DaysType DEF Midnight, TypeOK
  <2>2. Today' = EmptyLedger
    BY <2>1 DEF CapInv, NothingAhead, Today, On, EmptyLedger
  <2> QED  BY <1>7, <2>2, SameRules DEF Ledger!NewDay, Midnight
<1>8. ASSUME Restart  PROVE Ledger!Crash
  <2>1. \A k \in Keys : db[k][today] = view[k][today]
    BY <1>t, DaysType DEF CapInv, CrashKeepsCharges
  <2>2. Today' = Today
    BY <1>8, <2>1, SameDay DEF Restart, Today
  <2> QED  BY <1>8, <2>2, SameRules DEF Ledger!Crash, Restart
<1>9. CASE UNCHANGED vars
  BY <1>9 DEF vars, Today
<1> QED  BY <1>1, <1>2, <1>3, <1>4, <1>5, <1>6, <1>7, <1>8, <1>9, AdminNotIP, SameRules DEF Next

\* Whatever midnight, crashes and uncommitted purges do to the table, the request
\* handler sees a ledger of one day that grants exactly under the caps.
THEOREM TableImplementsLedger == Spec => ImplementsLedger
<1>1. Init => Ledger!LedgerInit
  <2>1. On(NoRows, 0) = EmptyLedger
    BY DaysType DEF On, NoRows, EmptyLedger
  <2> QED  BY <2>1, SameRules DEF Init, Ledger!LedgerInit, Today
<1> QED  BY <1>1, CapInvariant, TypeCorrect, LedgerStep, PTL
         DEF Spec, ImplementsLedger, Ledger!LedgerSpec
===============================================================================
