--------------------------- MODULE QuotaRulesProofs ---------------------------
(***************************************************************************)
(* Lemmas about the arithmetic of QuotaRules.tla: how the public total     *)
(* reacts to a change of one row, and what a verdict says about the caps.  *)
(***************************************************************************)
EXTENDS QuotaRules, FiniteSetTheorems, TLAPS

\* Membership in the set of public checks of a ledger.
LEMMA ChargesMember ==
  ASSUME NEW c \in Ledgers, NEW p
  PROVE  p \in Charges(c) <=> \E ip \in IPs, n \in Nat : 1 <= n /\ n <= c[ip] /\ p = <<ip, n>>
<1>1. ASSUME p \in Charges(c)
      PROVE  \E ip \in IPs, n \in Nat : 1 <= n /\ n <= c[ip] /\ p = <<ip, n>>
  <2>1. PICK ip \in IPs : p \in {ip} \X (1 .. c[ip])  BY <1>1 DEF Charges
  <2>2. c[ip] \in Nat  BY DEF Ledgers, Keys
  <2>3. PICK n \in 1 .. c[ip] : p = <<ip, n>>  BY <2>1
  <2>4. n \in Nat /\ 1 <= n /\ n <= c[ip]  BY <2>2
  <2> QED  BY <2>3, <2>4
<1>2. ASSUME NEW ip \in IPs, NEW n \in Nat, 1 <= n, n <= c[ip], p = <<ip, n>>
      PROVE  p \in Charges(c)
  <2>1. c[ip] \in Nat  BY DEF Ledgers, Keys
  <2>2. n \in 1 .. c[ip]  BY <1>2, <2>1
  <2>3. p \in {ip} \X (1 .. c[ip])  BY <1>2, <2>2
  <2> QED  BY <2>3 DEF Charges
<1> QED  BY <1>1, <1>2

\* The public checks of a ledger are finitely many, so the total is a number.
LEMMA TotalType ==
  ASSUME NEW c \in Ledgers
  PROVE  IsFiniteSet(Charges(c)) /\ PublicTotal(c) \in Nat
<1> DEFINE Of == [ip \in IPs |-> {ip} \X (1 .. c[ip])]
           Parts == { {ip} \X (1 .. c[ip]) : ip \in IPs }
<1>1. Of \in Surjection(IPs, Parts)
  BY DEF Surjection
<1>2. IsFiniteSet(Parts)
  BY <1>1, FS_Surjection, IPsAssumption
<1>3. ASSUME NEW ip \in IPs  PROVE IsFiniteSet({ip} \X (1 .. c[ip]))
  <2>1. c[ip] \in Nat  BY DEF Ledgers, Keys
  <2>2. IsFiniteSet(1 .. c[ip])  BY <2>1, FS_Interval
  <2>3. IsFiniteSet({ip})  BY FS_Singleton
  <2> QED  BY <2>2, <2>3, FS_Product
<1>4. \A P \in Parts : IsFiniteSet(P)
  BY <1>3
<1>5. IsFiniteSet(UNION Parts)
  BY <1>2, <1>4, FS_UNION
<1>6. IsFiniteSet(Charges(c))
  BY <1>5 DEF Charges
<1> QED  BY <1>6, FS_CardinalityType DEF PublicTotal

\* The total is monotone in the visitors' rows; the admin row does not matter.
LEMMA TotalMonotone ==
  ASSUME NEW c \in Ledgers, NEW d \in Ledgers,
         \A ip \in IPs : c[ip] <= d[ip]
  PROVE  PublicTotal(c) <= PublicTotal(d)
<1>1. Charges(c) \subseteq Charges(d)
  <2>1. SUFFICES ASSUME NEW p \in Charges(c)  PROVE p \in Charges(d)
    OBVIOUS
  <2>2. PICK ip \in IPs, n \in Nat : 1 <= n /\ n <= c[ip] /\ p = <<ip, n>>
    BY <2>1, ChargesMember
  <2>3. c[ip] \in Nat /\ d[ip] \in Nat /\ c[ip] <= d[ip]
    BY DEF Ledgers, Keys
  <2>4. 1 <= n /\ n <= d[ip]
    BY <2>2, <2>3
  <2> QED  BY <2>2, <2>4, ChargesMember
<1>2. IsFiniteSet(Charges(d))
  BY TotalType
<1> QED  BY <1>1, <1>2, FS_Subset DEF PublicTotal

\* Ledgers that agree on the visitors have the same total.
LEMMA TotalSame ==
  ASSUME NEW c \in Ledgers, NEW d \in Ledgers,
         \A ip \in IPs : c[ip] = d[ip]
  PROVE  PublicTotal(c) = PublicTotal(d)
<1>1. \A ip \in IPs : c[ip] \in Nat /\ d[ip] \in Nat
  BY DEF Ledgers, Keys
<1>2. PublicTotal(c) <= PublicTotal(d) /\ PublicTotal(d) <= PublicTotal(c)
  BY <1>1, TotalMonotone
<1> QED  BY <1>2, TotalType

LEMMA EmptyTotal ==
  EmptyLedger \in Ledgers /\ PublicTotal(EmptyLedger) = 0
<1>1. EmptyLedger \in Ledgers
  BY DEF EmptyLedger, Ledgers
<1>2. Charges(EmptyLedger) = {}
  <2>1. SUFFICES ASSUME NEW p \in Charges(EmptyLedger)  PROVE FALSE
    OBVIOUS
  <2>2. PICK ip \in IPs, n \in Nat : 1 <= n /\ n <= EmptyLedger[ip] /\ p = <<ip, n>>
    BY <1>1, <2>1, ChargesMember
  <2> QED  BY <2>2 DEF EmptyLedger, Keys
<1> QED  BY <1>1, <1>2, FS_EmptySet DEF PublicTotal

\* n more checks of a visitor are n more in the total.
LEMMA TotalRaised ==
  ASSUME NEW c \in Ledgers, NEW ip \in IPs, NEW n \in Nat
  PROVE  LET d == [c EXCEPT ![ip] = @ + n]
         IN  d \in Ledgers /\ PublicTotal(d) = PublicTotal(c) + n
<1> DEFINE d == [c EXCEPT ![ip] = @ + n]
           new == {ip} \X (c[ip] + 1 .. c[ip] + n)
<1>1. ip \in Keys /\ c[ip] \in Nat /\ d[ip] = c[ip] + n /\ \A k \in Keys : k # ip => d[k] = c[k]
  BY DEF Ledgers, Keys
<1>2. d \in Ledgers
  BY <1>1 DEF Ledgers
<1> HIDE DEF d
<1>3. Charges(d) = Charges(c) \cup new
  <2>1. ASSUME NEW p \in Charges(d)  PROVE p \in Charges(c) \cup new
    <3>1. PICK q \in IPs, m \in Nat : 1 <= m /\ m <= d[q] /\ p = <<q, m>>
      BY <1>2, <2>1, ChargesMember
    <3>2. CASE q = ip /\ m > c[ip]
      BY <1>1, <3>1, <3>2
    <3>3. CASE ~(q = ip /\ m > c[ip])
      <4>1. 1 <= m /\ m <= c[q]
        BY <1>1, <3>1, <3>3 DEF Keys
      <4> QED  BY <3>1, <4>1, ChargesMember
    <3> QED  BY <3>2, <3>3
  <2>2. ASSUME NEW p \in Charges(c)  PROVE p \in Charges(d)
    <3>1. PICK q \in IPs, m \in Nat : 1 <= m /\ m <= c[q] /\ p = <<q, m>>
      BY <2>2, ChargesMember
    <3>2. 1 <= m /\ m <= d[q]
      <4>1. CASE q = ip  BY <1>1, <3>1, <4>1
      <4>2. CASE q # ip
        <5>1. d[q] = c[q]  BY <1>1, <4>2 DEF Keys
        <5> QED  BY <5>1, <3>1
      <4> QED  BY <4>1, <4>2
    <3> QED  BY <1>2, <3>1, <3>2, ChargesMember
  <2>3. ASSUME NEW p \in new  PROVE p \in Charges(d)
    <3>1. PICK m \in c[ip] + 1 .. c[ip] + n : p = <<ip, m>>
      BY <2>3
    <3>2. m \in Nat /\ 1 <= m /\ m <= d[ip]
      BY <1>1, <3>1
    <3> QED  BY <1>2, <3>1, <3>2, ChargesMember
  <2> QED  BY <2>1, <2>2, <2>3
<1>4. Charges(c) \cap new = {}
  <2>1. SUFFICES ASSUME NEW p \in Charges(c), p \in new  PROVE FALSE
    OBVIOUS
  <2>2. PICK q \in IPs, m \in Nat : 1 <= m /\ m <= c[q] /\ p = <<q, m>>
    BY <2>1, ChargesMember
  <2>3. PICK l \in c[ip] + 1 .. c[ip] + n : p = <<ip, l>>
    BY <2>1
  <2>4. q = ip /\ m = l
    BY <2>2, <2>3
  <2> QED  BY <1>1, <2>2, <2>3, <2>4
<1>5. IsFiniteSet(new) /\ Cardinality(new) = n
  <2>1. /\ IsFiniteSet(c[ip] + 1 .. c[ip] + n)
        /\ Cardinality(c[ip] + 1 .. c[ip] + n) = n
    <3> DEFINE a == c[ip] + 1
               b == c[ip] + n
    <3>1. a \in Int /\ b \in Int /\ n = IF a > b THEN 0 ELSE b - a + 1
      BY <1>1
    <3> HIDE DEF a, b
    <3>2. IsFiniteSet(a .. b) /\ Cardinality(a .. b) = n
      BY <3>1, FS_Interval
    <3> QED  BY <3>2 DEF a, b
  <2>2. IsFiniteSet({ip}) /\ Cardinality({ip}) = 1
    BY FS_Singleton
  <2> HIDE DEF new
  <2>3. IsFiniteSet(new) /\ Cardinality(new) = Cardinality({ip}) * Cardinality(c[ip] + 1 .. c[ip] + n)
    BY <2>1, <2>2, FS_Product DEF new
  <2> QED  BY <2>1, <2>2, <2>3
<1>6. IsFiniteSet(Charges(c)) /\ Cardinality(Charges(c)) \in Nat
  BY TotalType DEF PublicTotal
<1>7. Cardinality(Charges(d)) = Cardinality(Charges(c)) + n
  <2> HIDE DEF new
  <2>1. Cardinality(Charges(d)) = Cardinality(Charges(c)) + Cardinality(new) - Cardinality({})
    BY <1>3, <1>4, <1>5, <1>6, FS_Union
  <2> QED  BY <1>5, <1>6, <2>1, FS_EmptySet
<1> QED  BY <1>2, <1>7 DEF PublicTotal, d

\* One more check of a visitor is one more in the total.
LEMMA TotalBump ==
  ASSUME NEW c \in Ledgers, NEW ip \in IPs
  PROVE  LET d == [c EXCEPT ![ip] = @ + 1]
         IN  d \in Ledgers /\ PublicTotal(d) = PublicTotal(c) + 1
BY TotalRaised

\* The same with the admin row, which the total does not see.
LEMMA TotalOf ==
  ASSUME NEW c \in Ledgers, NEW k \in Keys, NEW n \in Nat
  PROVE  LET d == [c EXCEPT ![k] = @ + n]
         IN  /\ d \in Ledgers /\ PublicTotal(d) \in Nat /\ PublicTotal(c) \in Nat
             /\ \A q \in Keys : c[q] \in Nat /\ d[q] = IF q = k THEN c[q] + n ELSE c[q]
             /\ PublicTotal(d) = IF k = Admin THEN PublicTotal(c) ELSE PublicTotal(c) + n
<1> DEFINE d == [c EXCEPT ![k] = @ + n]
<1>1. \A q \in Keys : c[q] \in Nat /\ d[q] = IF q = k THEN c[q] + n ELSE c[q]
  BY DEF Ledgers
<1>2. d \in Ledgers
  BY <1>1 DEF Ledgers
<1>3. PublicTotal(d) \in Nat /\ PublicTotal(c) \in Nat
  BY <1>2, TotalType
<1>4. CASE k = Admin
  <2>1. \A ip \in IPs : c[ip] = d[ip]
    BY <1>1, <1>4, IPsAssumption DEF Keys
  <2>2. PublicTotal(d) = PublicTotal(c)
    BY <1>2, <2>1, TotalSame
  <2> QED  BY <1>1, <1>2, <1>3, <1>4, <2>2
<1>5. CASE k # Admin
  <2>1. k \in IPs
    BY <1>5 DEF Keys
  <2>2. PublicTotal(d) = PublicTotal(c) + n
    BY <2>1, TotalRaised
  <2> QED  BY <1>1, <1>2, <1>3, <1>5, <2>2
<1> QED  BY <1>4, <1>5
===============================================================================
