----------------------------- MODULE DiagnosisLemmas -----------------------------
(***************************************************************************)
(* What the operators of a diagnosis compute, for every input: the list    *)
(* comprehensions and the stable sort of lint.py, the collapse of missing  *)
(* sections, the merge of suggestions, the promotion of headings, the      *)
(* lines of a Word file, the marks of the page and the source with them.   *)
(*                                                                         *)
(* They are loops, written as recursive functions.  The argument is the    *)
(* same for each: every turn maps a set X of results into itself, so a run *)
(* of the loop exists (LoopRuns), so the function is that run (LoopUnique),*)
(* and what holds of it holds by induction over its turns (InductionTo).   *)
(* Induction is that a set of numbers that is not empty has a least one.   *)
(***************************************************************************)
EXTENDS Diagnosis, FiniteSetTheorems, SequenceTheorems,
        NaturalsInduction, WellFoundedInduction, TLAPS

\* Every set of natural numbers that is not empty has a least element, ..
LEMMA LeastNumber ==
  ASSUME NEW T \in SUBSET Nat, T # {}
  PROVE  \E m \in T : \A k \in T : m <= k
<1> DEFINE Less == { p \in Nat \X Nat : p[1] < p[2] }
<1>1. IsWellFoundedOn(Less, Nat)
  BY NatLessThanWellFounded DEF OpToRel
<1>2. PICK m \in T : \A k \in T : ~(<<k, m>> \in Less)
  <2> HIDE DEF Less
  <2> QED  BY <1>1, WFMin, Zenon
<1>3. ASSUME NEW k \in T  PROVE m <= k
  <2> DEFINE p == <<k, m>>
  <2>1. p \in Nat \X Nat /\ p[1] = k /\ p[2] = m
    OBVIOUS
  <2>2. k < m => p \in Less
    BY <2>1
  <2> QED  BY <1>2, <2>2
<1> QED  BY <1>3

\* .. which is induction with a set for the formula.
LEMMA Induction ==
  ASSUME NEW S \in SUBSET Nat, 0 \in S, \A k \in S : k + 1 \in S
  PROVE  \A k \in Nat : k \in S
<1> DEFINE T == Nat \ S
<1> SUFFICES ASSUME T # {}  PROVE FALSE
  OBVIOUS
<1>1. PICK m \in T : \A k \in T : m <= k
  BY LeastNumber, Zenon
<1>2. m # 0 /\ m - 1 \in S
  BY <1>1
<1> QED  BY <1>1, <1>2

\* The same up to a bound.
LEMMA InductionTo ==
  ASSUME NEW n \in Nat, NEW S, 0 \in S, \A k \in 1 .. n : k - 1 \in S => k \in S
  PROVE  \A k \in 0 .. n : k \in S
<1> DEFINE T == { k \in Nat : k <= n => k \in S }
<1>1. 0 \in T
  OBVIOUS
<1>2. \A k \in T : k + 1 \in T
  <2> SUFFICES ASSUME NEW k \in T, k + 1 <= n  PROVE k + 1 \in S
    OBVIOUS
  <2>1. k \in S /\ k + 1 \in 1 .. n /\ (k + 1) - 1 = k
    OBVIOUS
  <2> QED  BY <2>1, Zenon
<1>3. \A k \in Nat : k \in T
  <2> HIDE DEF T
  <2>1. T \in SUBSET Nat
    BY DEF T
  <2> QED  BY <1>1, <1>2, <2>1, Induction
<1> QED  BY <1>3

\* The runs of a loop over 1 .. n whose k-th turn is the function step[k].
Loops(n, X, base, step) ==
  { g \in [0 .. n -> X] : g[0] = base /\ \A k \in 1 .. n : g[k] = step[k][g[k - 1]] }

LEMMA LoopRuns ==
  ASSUME NEW n \in Nat, NEW X, NEW base \in X, NEW step \in [1 .. n -> [X -> X]]
  PROVE  \E g : g \in Loops(n, X, base, step)
<1> DEFINE S == { m \in 0 .. n : \E g : g \in Loops(m, X, base, step) }
<1>1. 0 \in S
  <2> DEFINE g == [k \in 0 .. 0 |-> base]
  <2>1. g \in Loops(0, X, base, step)
    BY DEF Loops
  <2> QED  BY <2>1
<1>2. \A m \in 1 .. n : m - 1 \in S => m \in S
  <2> SUFFICES ASSUME NEW m \in 1 .. n, m - 1 \in S  PROVE m \in S
    OBVIOUS
  <2>1. PICK g : g \in Loops(m - 1, X, base, step)
    OBVIOUS
  <2> DEFINE h == [k \in 0 .. m |-> IF k = m THEN step[m][g[m - 1]] ELSE g[k]]
  <2>2. /\ g \in [0 .. m - 1 -> X] /\ g[0] = base
        /\ \A k \in 1 .. m - 1 : g[k] = step[k][g[k - 1]]
    BY <2>1 DEF Loops
  <2>3. g[m - 1] \in X /\ step[m][g[m - 1]] \in X
    BY <2>2
  <2>4. h \in [0 .. m -> X] /\ h[0] = base
    BY <2>2, <2>3
  <2>5. ASSUME NEW k \in 1 .. m  PROVE h[k] = step[k][h[k - 1]]
    <3>1. h[k - 1] = g[k - 1] /\ k - 1 \in 0 .. m
      OBVIOUS
    <3> QED  BY <2>2, <3>1
  <2>6. h \in Loops(m, X, base, step)
    <3> HIDE DEF h
    <3> QED  BY <2>4, <2>5 DEF Loops
  <2> QED  BY <2>6
<1>3. \A m \in 0 .. n : m \in S
  <2> HIDE DEF S
  <2> QED  BY <1>1, <1>2, InductionTo
<1> QED  BY <1>3

\* .. and what follows the same turns is that run.
LEMMA LoopUnique ==
  ASSUME NEW n \in Nat, NEW X, NEW base, NEW step, NEW g \in Loops(n, X, base, step), NEW up,
         up[0] = base, \A k \in 1 .. n : up[k - 1] \in X => up[k] = step[k][up[k - 1]]
  PROVE  up[n] = g[n]
<1> DEFINE T == { k \in 0 .. n : up[k] = g[k] }
<1>1. g \in [0 .. n -> X] /\ g[0] = base /\ \A k \in 1 .. n : g[k] = step[k][g[k - 1]]
  BY DEF Loops
<1>2. 0 \in T
  BY <1>1
<1>3. ASSUME NEW k \in 1 .. n, k - 1 \in T  PROVE k \in T
  <2>1. k \in 0 .. n /\ k - 1 \in 0 .. n /\ up[k - 1] = g[k - 1]
    BY <1>3
  <2> QED  BY <1>1, <2>1
<1>4. \A k \in 0 .. n : k \in T
  <2> HIDE DEF T
  <2> QED  BY <1>2, <1>3, InductionTo
<1> QED  BY <1>4
-------------------------------------------------------------------------------
\* What sequences are made of.
LEMMA AppendAdds ==
  ASSUME NEW S, NEW s \in Seq(S), NEW e \in S
  PROVE  ToSet(Append(s, e)) = ToSet(s) \cup {e}
<1>1. /\ Append(s, e) \in Seq(S) /\ Len(Append(s, e)) = Len(s) + 1 /\ Len(s) \in Nat
      /\ \A i \in 1 .. Len(s) : Append(s, e)[i] = s[i]
      /\ Append(s, e)[Len(s) + 1] = e
      /\ DOMAIN s = 1 .. Len(s) /\ DOMAIN Append(s, e) = 1 .. Len(s) + 1
  OBVIOUS
<1>2. 1 .. Len(s) + 1 = (1 .. Len(s)) \cup {Len(s) + 1}
  BY <1>1
<1> QED  BY <1>1, <1>2 DEF ToSet

LEMMA ConcatAdds ==
  ASSUME NEW S, NEW s \in Seq(S), NEW t \in Seq(S)
  PROVE  ToSet(s \o t) = ToSet(s) \cup ToSet(t)
<1>1. /\ Len(s) \in Nat /\ Len(t) \in Nat /\ s \o t \in Seq(S) /\ Len(s \o t) = Len(s) + Len(t)
      /\ \A i \in 1 .. Len(s) + Len(t) : (s \o t)[i] = IF i <= Len(s) THEN s[i] ELSE t[i - Len(s)]
      /\ DOMAIN s = 1 .. Len(s) /\ DOMAIN t = 1 .. Len(t) /\ DOMAIN (s \o t) = 1 .. Len(s) + Len(t)
  BY ConcatProperties
<1>2. ASSUME NEW i \in DOMAIN (s \o t)  PROVE (s \o t)[i] \in ToSet(s) \cup ToSet(t)
  <2>1. CASE i <= Len(s)
    BY <1>1, <2>1 DEF ToSet
  <2>2. CASE i > Len(s)
    <3>1. i - Len(s) \in DOMAIN t /\ (s \o t)[i] = t[i - Len(s)]
      BY <1>1, <2>2
    <3> QED  BY <3>1 DEF ToSet
  <2> QED  BY <1>1, <2>1, <2>2
<1>3. ASSUME NEW i \in DOMAIN s  PROVE s[i] \in ToSet(s \o t)
  <2>1. i \in DOMAIN (s \o t) /\ (s \o t)[i] = s[i]
    BY <1>1
  <2> QED  BY <2>1 DEF ToSet
<1>4. ASSUME NEW i \in DOMAIN t  PROVE t[i] \in ToSet(s \o t)
  <2>1. i + Len(s) \in DOMAIN (s \o t) /\ (s \o t)[i + Len(s)] = t[i]
    BY <1>1
  <2> QED  BY <2>1 DEF ToSet
<1> QED  BY <1>2, <1>3, <1>4 DEF ToSet

LEMMA ConcatAppend ==
  ASSUME NEW S, NEW s \in Seq(S), NEW t \in Seq(S), NEW e \in S
  PROVE  s \o Append(t, e) = Append(s \o t, e)
<1>1. <<e>> \in Seq(S) /\ s \o t \in Seq(S)
  OBVIOUS
<1>2. Append(t, e) = t \o <<e>> /\ Append(s \o t, e) = (s \o t) \o <<e>>
  BY <1>1, AppendIsConcat
<1> QED  BY <1>1, <1>2, ConcatAssociative
-------------------------------------------------------------------------------
\* Picked goes through the positions from the first to the last.
PickedTurns(g, S, fs, K) ==
  /\ g \in [0 .. Len(fs) -> Seq(S)] /\ g[0] = <<>> /\ Picked(fs, K) = g[Len(fs)]
  /\ \A k \in 1 .. Len(fs) : g[k] = IF k \in K THEN Append(g[k - 1], fs[k]) ELSE g[k - 1]

LEMMA PickedLoop ==
  ASSUME NEW S, NEW fs \in Seq(S), NEW K
  PROVE  \E g : PickedTurns(g, S, fs, K)
<1> DEFINE n == Len(fs)
           X == Seq(S)
           Turn(k, s) == IF k \in K THEN Append(s, fs[k]) ELSE s
           step == [k \in 1 .. n |-> [s \in X |-> Turn(k, s)]]
           Body(f) == [k \in 0 .. n |-> IF k = 0 THEN <<>> ELSE Turn(k, f[k - 1])]
           up == CHOOSE f : f = Body(f)
<1>1. n \in Nat /\ <<>> \in X
  OBVIOUS
<1>2. /\ step \in [1 .. n -> [X -> X]]
      /\ \A k \in 1 .. n, s \in X : step[k][s] = Turn(k, s)
  OBVIOUS
<1>3. Picked(fs, K) = up[n]
  BY DEF Picked
<1> HIDE DEF n, X, step, Turn
<1>4. PICK g : g \in Loops(n, X, <<>>, step)
  BY <1>1, <1>2, LoopRuns
<1>5. g \in [0 .. n -> X] /\ g[0] = <<>> /\ \A k \in 1 .. n : g[k] = Turn(k, g[k - 1])
  <2>1. g \in [0 .. n -> X] /\ g[0] = <<>> /\ \A k \in 1 .. n : g[k] = step[k][g[k - 1]]
    BY <1>4 DEF Loops
  <2>2. \A k \in 1 .. n : g[k - 1] \in X
    BY <1>1, <2>1
  <2> QED  BY <1>2, <2>1, <2>2
<1>6. g = Body(g)
  <2>1. \A k \in 0 .. n : k = 0 \/ k \in 1 .. n
    BY <1>1
  <2> QED  BY <1>5, <2>1
<1>7. up = Body(up)
  <2> HIDE DEF Body
  <2> QED  BY <1>6
<1>8. up[n] = g[n]
  <2> HIDE DEF up
  <2>1. up[0] = <<>> /\ \A k \in 1 .. n : up[k - 1] \in X => up[k] = step[k][up[k - 1]]
    BY <1>1, <1>2, <1>7
  <2> QED  BY <1>1, <1>4, <2>1, LoopUnique
<1> QED  BY <1>3, <1>5, <1>8 DEF n, X, Turn, PickedTurns

\* What a list comprehension leaves: exactly the elements at these positions.
LEMMA PickedIs ==
  ASSUME NEW S, NEW fs \in Seq(S), NEW K \in SUBSET DOMAIN fs
  PROVE  /\ Picked(fs, K) \in Seq(S)
         /\ ToSet(Picked(fs, K)) = { fs[k] : k \in K }
         /\ Len(Picked(fs, K)) = Cardinality(K)
<1> DEFINE n == Len(fs)
           Upto(k) == { j \in K : j <= k }
<1>1. n \in Nat /\ DOMAIN fs = 1 .. n /\ \A k \in 1 .. n : fs[k] \in S
  OBVIOUS
<1>0. PICK g : PickedTurns(g, S, fs, K)
  BY PickedLoop, Zenon
<1>2. /\ g \in [0 .. n -> Seq(S)] /\ g[0] = <<>> /\ Picked(fs, K) = g[n]
      /\ \A k \in 1 .. n : g[k] = IF k \in K THEN Append(g[k - 1], fs[k]) ELSE g[k - 1]
  BY <1>0 DEF PickedTurns
<1> DEFINE T == { m \in 0 .. n : /\ ToSet(g[m]) = { fs[k] : k \in Upto(m) }
                                /\ IsFiniteSet(Upto(m)) /\ Len(g[m]) = Cardinality(Upto(m)) }
<1> HIDE DEF n
<1>3. 0 \in T
  <2>1. Upto(0) = {}
    BY <1>1
  <2>2. ToSet(<<>>) = {} /\ Len(<<>>) = 0
    BY DEF ToSet
  <2>3. IsFiniteSet(Upto(0)) /\ Cardinality(Upto(0)) = 0
    BY <2>1, FS_EmptySet, Zenon
  <2>4. { fs[k] : k \in Upto(0) } = {}
    BY <2>1
  <2> QED  BY <1>1, <1>2, <2>2, <2>3, <2>4
<1>4. ASSUME NEW m \in 1 .. n, m - 1 \in T  PROVE m \in T
  <2>1. /\ ToSet(g[m - 1]) = { fs[k] : k \in Upto(m - 1) }
        /\ IsFiniteSet(Upto(m - 1)) /\ Len(g[m - 1]) = Cardinality(Upto(m - 1))
    BY <1>4
  <2>2. m \in 0 .. n /\ m - 1 \in 0 .. n /\ fs[m] \in S /\ g[m - 1] \in Seq(S) /\ K \in SUBSET (1 .. n)
    BY <1>1, <1>2
  <2>3. CASE m \notin K
    <3>1. Upto(m) = Upto(m - 1)
      BY <2>2, <2>3
    <3>2. g[m] = g[m - 1]
      BY <1>2, <2>3
    <3> QED  BY <2>1, <2>2, <3>1, <3>2
  <2>4. CASE m \in K
    <3>1. Upto(m) = Upto(m - 1) \cup {m} /\ m \notin Upto(m - 1)
      BY <2>2, <2>4
    <3>2. g[m] = Append(g[m - 1], fs[m])
      BY <1>2, <2>4
    <3>3. IsFiniteSet(Upto(m)) /\ Cardinality(Upto(m)) = Cardinality(Upto(m - 1)) + 1
      <4> HIDE DEF Upto
      <4> QED  BY <2>1, <3>1, FS_AddElement
    <3>4. ToSet(g[m]) = ToSet(g[m - 1]) \cup {fs[m]}
      BY <2>2, <3>2, AppendAdds
    <3>5. Len(g[m]) = Len(g[m - 1]) + 1
      BY <2>2, <3>2
    <3>6. { fs[k] : k \in Upto(m) } = { fs[k] : k \in Upto(m - 1) } \cup {fs[m]}
      BY <3>1
    <3> QED  BY <2>1, <2>2, <3>3, <3>4, <3>5, <3>6
  <2> QED  BY <2>3, <2>4
<1>5. n \in T
  <2> HIDE DEF T
  <2>1. \A m \in 0 .. n : m \in T
    BY <1>1, <1>3, <1>4, InductionTo
  <2> QED  BY <1>1, <2>1
<1>6. Upto(n) = K
  BY <1>1
<1> QED  BY <1>1, <1>2, <1>5, <1>6

\* One element more at the end.
LEMMA PickedAppend ==
  ASSUME NEW S, NEW fs \in Seq(S), NEW f \in S, NEW K, NEW L,
         \A k \in 1 .. Len(fs) : k \in K <=> k \in L
  PROVE  Picked(Append(fs, f), K) =
           IF Len(fs) + 1 \in K THEN Append(Picked(fs, L), f) ELSE Picked(fs, L)
<1> DEFINE n == Len(fs)
           fsf == Append(fs, f)
<1>1. /\ n \in Nat /\ fsf \in Seq(S) /\ Len(fsf) = n + 1 /\ fsf[n + 1] = f
      /\ \A k \in 1 .. n : fsf[k] = fs[k]
  OBVIOUS
<1> HIDE DEF fsf
<1>2. PICK g : PickedTurns(g, S, fsf, K)
  BY <1>1, PickedLoop, Zenon
<1>3. PICK h : PickedTurns(h, S, fs, L)
  BY PickedLoop, Zenon
<1>4. /\ g[0] = <<>> /\ Picked(fsf, K) = g[n + 1]
      /\ \A k \in 1 .. n + 1 : g[k] = IF k \in K THEN Append(g[k - 1], fsf[k]) ELSE g[k - 1]
  BY <1>1, <1>2 DEF PickedTurns
<1>5. /\ h[0] = <<>> /\ Picked(fs, L) = h[n]
      /\ \A k \in 1 .. n : h[k] = IF k \in L THEN Append(h[k - 1], fs[k]) ELSE h[k - 1]
  BY <1>3 DEF PickedTurns
<1> HIDE DEF n
<1>6. g[n] = h[n]
  <2> DEFINE T == { k \in 0 .. n : g[k] = h[k] }
  <2>1. 0 \in T
    BY <1>1, <1>4, <1>5
  <2>2. ASSUME NEW k \in 1 .. n, k - 1 \in T  PROVE k \in T
    <3>1. k \in 1 .. n + 1 /\ k \in 0 .. n /\ g[k - 1] = h[k - 1] /\ (k \in K <=> k \in L)
      BY <1>1, <2>2 DEF n
    <3> QED  BY <1>1, <1>4, <1>5, <3>1
  <2>3. \A k \in 0 .. n : k \in T
    <3> HIDE DEF T
    <3> QED  BY <1>1, <2>1, <2>2, InductionTo
  <2> QED  BY <1>1, <2>3
<1>7. g[n + 1] = IF n + 1 \in K THEN Append(g[n], f) ELSE g[n]
  <2>1. n + 1 \in 1 .. n + 1 /\ (n + 1) - 1 = n
    BY <1>1
  <2> QED  BY <1>1, <1>4, <2>1
<1> QED  BY <1>4, <1>5, <1>6, <1>7 DEF n, fsf

\* Induction over sequences, with a set for the formula again.
LEMMA SequenceInduction ==
  ASSUME NEW S, NEW Q, <<>> \in Q, \A s \in Seq(S), e \in S : s \in Q => Append(s, e) \in Q
  PROVE  \A s \in Seq(S) : s \in Q
<1> DEFINE T == { n \in Nat : \A s \in Seq(S) : Len(s) = n => s \in Q }
<1>1. 0 \in T
  <2>1. \A s \in Seq(S) : Len(s) = 0 => s = <<>>
    OBVIOUS
  <2> QED  BY <2>1
<1>2. ASSUME NEW n \in T  PROVE n + 1 \in T
  <2> SUFFICES ASSUME NEW s \in Seq(S), Len(s) = n + 1  PROVE s \in Q
    OBVIOUS
  <2>1. s # <<>>
    OBVIOUS
  <2>2. PICK r \in Seq(S), e \in S : s = Append(r, e)
    BY <2>1, SequenceEmptyOrAppend
  <2>3. Len(r) = n
    BY <2>2
  <2> QED  BY <2>2, <2>3
<1>3. \A n \in Nat : n \in T
  <2> HIDE DEF T
  <2>1. T \in SUBSET Nat
    BY DEF T
  <2> QED  BY <1>1, <1>2, <2>1, Induction
<1> QED  BY <1>3
-------------------------------------------------------------------------------
Checkers == {"rule", "ai", "missing-section", "profile-mismatch"}
Ids == Checkers \X (Nat \cup Sections)
Tokens == TextLines \cup {Elsewhere}
Quotes == Seq(Tokens) \ {<<>>}
FindingSet == [id : Ids, severity : Severities, quotes : Seq(Quotes), advice : Ids \cup {Own}]

LEMMA FindingOf ==
  ASSUME NEW fs \in Seq(FindingSet), NEW f \in ToSet(fs)
  PROVE  f \in FindingSet /\ f.id \in Ids /\ f.severity \in Severities
<1>1. f \in FindingSet
  BY DEF ToSet
<1> QED  BY <1>1 DEF FindingSet

\* The list comprehensions of the code, one more finding at the end.
LEMMA FromEmpty ==
  /\ \A c : From(<<>>, c) = <<>> /\ Without(<<>>, c) = <<>>
  /\ \A s : OfSeverity(<<>>, s) = <<>>
<1>1. \A K : Picked(<<>>, K) = <<>>
  <2> SUFFICES ASSUME NEW K  PROVE Picked(<<>>, K) = <<>>
    OBVIOUS
  <2>1. <<>> \in Seq({})
    OBVIOUS
  <2>2. PICK g : PickedTurns(g, {}, <<>>, K)
    BY <2>1, PickedLoop, Zenon
  <2> QED  BY <2>2 DEF PickedTurns
<1> QED  BY <1>1 DEF From, OfSeverity, Without

LEMMA FromAppend ==
  ASSUME NEW fs \in Seq(FindingSet), NEW f \in FindingSet, NEW c
  PROVE  /\ From(Append(fs, f), c) = IF Checker(f) \in c THEN Append(From(fs, c), f) ELSE From(fs, c)
         /\ Without(Append(fs, f), c) = IF Checker(f) # c THEN Append(Without(fs, c), f) ELSE Without(fs, c)
<1> DEFINE n == Len(fs)
           fsf == Append(fs, f)
<1>1. /\ n \in Nat /\ DOMAIN fs = 1 .. n /\ DOMAIN fsf = 1 .. n + 1 /\ fsf[n + 1] = f
      /\ \A k \in 1 .. n : fsf[k] = fs[k]
  OBVIOUS
<1> HIDE DEF fsf
<1>2. From(fsf, c) = IF Checker(f) \in c THEN Append(From(fs, c), f) ELSE From(fs, c)
  <2> DEFINE K == { k \in DOMAIN fsf : Checker(fsf[k]) \in c }
             L == { k \in DOMAIN fs : Checker(fs[k]) \in c }
  <2>1. (\A k \in 1 .. n : k \in K <=> k \in L) /\ (n + 1 \in K <=> Checker(f) \in c)
    BY <1>1
  <2> HIDE DEF K, L
  <2>2. Picked(Append(fs, f), K) = IF n + 1 \in K THEN Append(Picked(fs, L), f) ELSE Picked(fs, L)
    BY <2>1, PickedAppend
  <2> QED  BY <2>1, <2>2 DEF From, K, L, fsf
<1>3. Without(fsf, c) = IF Checker(f) # c THEN Append(Without(fs, c), f) ELSE Without(fs, c)
  <2> DEFINE K == { k \in DOMAIN fsf : Checker(fsf[k]) # c }
             L == { k \in DOMAIN fs : Checker(fs[k]) # c }
  <2>1. (\A k \in 1 .. n : k \in K <=> k \in L) /\ (n + 1 \in K <=> Checker(f) # c)
    BY <1>1
  <2> HIDE DEF K, L
  <2>2. Picked(Append(fs, f), K) = IF n + 1 \in K THEN Append(Picked(fs, L), f) ELSE Picked(fs, L)
    BY <2>1, PickedAppend
  <2> QED  BY <2>1, <2>2 DEF Without, K, L, fsf
<1> QED  BY <1>2, <1>3 DEF fsf

LEMMA OfSeverityAppend ==
  ASSUME NEW fs \in Seq(FindingSet), NEW f \in FindingSet, NEW s
  PROVE  OfSeverity(Append(fs, f), s) =
           IF f.severity = s THEN Append(OfSeverity(fs, s), f) ELSE OfSeverity(fs, s)
<1> DEFINE n == Len(fs)
           fsf == Append(fs, f)
<1>1. /\ n \in Nat /\ DOMAIN fs = 1 .. n /\ DOMAIN fsf = 1 .. n + 1 /\ fsf[n + 1] = f
      /\ \A k \in 1 .. n : fsf[k] = fs[k]
  OBVIOUS
<1> HIDE DEF fsf
<1> DEFINE K == { k \in DOMAIN fsf : fsf[k].severity = s }
           L == { k \in DOMAIN fs : fs[k].severity = s }
<1>2. (\A k \in 1 .. n : k \in K <=> k \in L) /\ (n + 1 \in K <=> f.severity = s)
  BY <1>1
<1> HIDE DEF K, L
<1>3. Picked(Append(fs, f), K) = IF n + 1 \in K THEN Append(Picked(fs, L), f) ELSE Picked(fs, L)
  BY <1>2, PickedAppend
<1> QED  BY <1>2, <1>3 DEF OfSeverity, K, L, fsf

\* What they select.
LEMMA FromIs ==
  ASSUME NEW fs \in Seq(FindingSet), NEW c
  PROVE  /\ From(fs, c) \in Seq(FindingSet)
         /\ ToSet(From(fs, c)) = { f \in ToSet(fs) : Checker(f) \in c }
         /\ Without(fs, c) \in Seq(FindingSet)
         /\ ToSet(Without(fs, c)) = { f \in ToSet(fs) : Checker(f) # c }
<1>1. /\ From(fs, c) \in Seq(FindingSet)
      /\ ToSet(From(fs, c)) = { f \in ToSet(fs) : Checker(f) \in c }
  <2> DEFINE K == { k \in DOMAIN fs : Checker(fs[k]) \in c }
  <2>1. K \in SUBSET DOMAIN fs
    OBVIOUS
  <2>2. { fs[k] : k \in K } = { f \in ToSet(fs) : Checker(f) \in c }
    BY DEF ToSet
  <2> HIDE DEF K
  <2>3. Picked(fs, K) \in Seq(FindingSet) /\ ToSet(Picked(fs, K)) = { fs[k] : k \in K }
    BY <2>1, PickedIs
  <2> QED  BY <2>2, <2>3 DEF From, K
<1>2. /\ Without(fs, c) \in Seq(FindingSet)
      /\ ToSet(Without(fs, c)) = { f \in ToSet(fs) : Checker(f) # c }
  <2> DEFINE K == { k \in DOMAIN fs : Checker(fs[k]) # c }
  <2>1. K \in SUBSET DOMAIN fs
    OBVIOUS
  <2>2. { fs[k] : k \in K } = { f \in ToSet(fs) : Checker(f) # c }
    BY DEF ToSet
  <2> HIDE DEF K
  <2>3. Picked(fs, K) \in Seq(FindingSet) /\ ToSet(Picked(fs, K)) = { fs[k] : k \in K }
    BY <2>1, PickedIs
  <2> QED  BY <2>2, <2>3 DEF Without, K
<1> QED  BY <1>1, <1>2

LEMMA OfSeverityIs ==
  ASSUME NEW fs \in Seq(FindingSet), NEW s
  PROVE  /\ OfSeverity(fs, s) \in Seq(FindingSet)
         /\ ToSet(OfSeverity(fs, s)) = { f \in ToSet(fs) : f.severity = s }
<1> DEFINE K == { k \in DOMAIN fs : fs[k].severity = s }
<1>1. K \in SUBSET DOMAIN fs
  OBVIOUS
<1>2. { fs[k] : k \in K } = { f \in ToSet(fs) : f.severity = s }
  BY DEF ToSet
<1> HIDE DEF K
<1>3. Picked(fs, K) \in Seq(FindingSet) /\ ToSet(Picked(fs, K)) = { fs[k] : k \in K }
  BY <1>1, PickedIs
<1> QED  BY <1>2, <1>3 DEF OfSeverity, K

LEMMA FromConcat ==
  ASSUME NEW fs \in Seq(FindingSet), NEW c
  PROVE  \A gs \in Seq(FindingSet) : From(fs \o gs, c) = From(fs, c) \o From(gs, c)
<1> DEFINE Q == { gs \in Seq(FindingSet) : From(fs \o gs, c) = From(fs, c) \o From(gs, c) }
<1>1. <<>> \in Q
  <2>1. From(fs, c) \in Seq(FindingSet) /\ From(<<>>, c) = <<>> /\ <<>> \in Seq(FindingSet)
    BY FromIs, FromEmpty
  <2>2. fs \o <<>> = fs /\ From(fs, c) \o <<>> = From(fs, c)
    BY <2>1, ConcatEmptySeq
  <2> QED  BY <2>1, <2>2
<1>2. ASSUME NEW gs \in Seq(FindingSet), NEW g \in FindingSet, gs \in Q
      PROVE  Append(gs, g) \in Q
  <2>1. /\ From(fs, c) \in Seq(FindingSet) /\ From(gs, c) \in Seq(FindingSet)
        /\ fs \o gs \in Seq(FindingSet) /\ Append(gs, g) \in Seq(FindingSet)
    BY FromIs
  <2>2. fs \o Append(gs, g) = Append(fs \o gs, g)
    BY ConcatAppend
  <2>3. From(fs, c) \o Append(From(gs, c), g) = Append(From(fs, c) \o From(gs, c), g)
    BY <2>1, ConcatAppend
  <2>4. From(Append(fs \o gs, g), c) =
          IF Checker(g) \in c THEN Append(From(fs \o gs, c), g) ELSE From(fs \o gs, c)
    BY <2>1, FromAppend
  <2>5. From(Append(gs, g), c) = IF Checker(g) \in c THEN Append(From(gs, c), g) ELSE From(gs, c)
    BY FromAppend
  <2> QED  BY <1>2, <2>1, <2>2, <2>3, <2>4, <2>5
<1>3. \A gs \in Seq(FindingSet) : gs \in Q
  <2> HIDE DEF Q
  <2> QED  BY <1>1, <1>2, SequenceInduction
<1> QED  BY <1>3

LEMMA FromOfSeverity ==
  ASSUME NEW c, NEW s
  PROVE  \A fs \in Seq(FindingSet) : From(OfSeverity(fs, s), c) = OfSeverity(From(fs, c), s)
<1> DEFINE Q == { fs \in Seq(FindingSet) : From(OfSeverity(fs, s), c) = OfSeverity(From(fs, c), s) }
<1>1. <<>> \in Q
  BY FromEmpty
<1>2. ASSUME NEW fs \in Seq(FindingSet), NEW f \in FindingSet, fs \in Q
      PROVE  Append(fs, f) \in Q
  <2>1. /\ From(fs, c) \in Seq(FindingSet) /\ OfSeverity(fs, s) \in Seq(FindingSet)
        /\ Append(fs, f) \in Seq(FindingSet)
    BY FromIs, OfSeverityIs
  <2>2. /\ From(Append(fs, f), c) = IF Checker(f) \in c THEN Append(From(fs, c), f) ELSE From(fs, c)
        /\ OfSeverity(Append(fs, f), s) =
             IF f.severity = s THEN Append(OfSeverity(fs, s), f) ELSE OfSeverity(fs, s)
    BY FromAppend, OfSeverityAppend
  <2>3. From(Append(OfSeverity(fs, s), f), c) =
          IF Checker(f) \in c THEN Append(From(OfSeverity(fs, s), c), f) ELSE From(OfSeverity(fs, s), c)
    BY <2>1, FromAppend, OfSeverityAppend
  <2>4. OfSeverity(Append(From(fs, c), f), s) =
          IF f.severity = s THEN Append(OfSeverity(From(fs, c), s), f) ELSE OfSeverity(From(fs, c), s)
    BY <2>1, FromAppend, OfSeverityAppend
  <2> DEFINE fsf == Append(fs, f)
             x == OfSeverity(fs, s)
             y == From(fs, c)
  <2>5. From(x, c) = OfSeverity(y, s)
    BY <1>2
  <2> HIDE DEF fsf, x, y
  <2>6. From(OfSeverity(fsf, s), c) = OfSeverity(From(fsf, c), s)
    <3>1. CASE Checker(f) \in c /\ f.severity = s
      BY <2>2, <2>3, <2>4, <2>5, <3>1 DEF fsf, x, y
    <3>2. CASE Checker(f) \in c /\ f.severity # s
      BY <2>2, <2>3, <2>4, <2>5, <3>2 DEF fsf, x, y
    <3>3. CASE Checker(f) \notin c
      BY <2>2, <2>3, <2>4, <2>5, <3>3 DEF fsf, x, y
    <3> QED  BY <3>1, <3>2, <3>3
  <2> QED  BY <2>1, <2>6 DEF fsf
<1>3. \A fs \in Seq(FindingSet) : fs \in Q
  <2> HIDE DEF Q
  <2> QED  BY <1>1, <1>2, SequenceInduction
<1> QED  BY <1>3

\* Sorting leaves the findings of a checker in the order a sort of them alone has.
LEMMA FromBySeverity ==
  ASSUME NEW fs \in Seq(FindingSet), NEW c
  PROVE  From(BySeverity(fs), c) = BySeverity(From(fs, c))
<1> DEFINE x == OfSeverity(fs, "critical")
           y == OfSeverity(fs, "warning")
           z == OfSeverity(fs, "info")
<1>1. x \in Seq(FindingSet) /\ y \in Seq(FindingSet) /\ z \in Seq(FindingSet) /\ x \o y \in Seq(FindingSet)
  BY OfSeverityIs
<1>2. /\ From(x, c) = OfSeverity(From(fs, c), "critical")
      /\ From(y, c) = OfSeverity(From(fs, c), "warning")
      /\ From(z, c) = OfSeverity(From(fs, c), "info")
  BY FromOfSeverity
<1> HIDE DEF x, y, z
<1>3. From((x \o y) \o z, c) = From(x \o y, c) \o From(z, c) /\ From(x \o y, c) = From(x, c) \o From(y, c)
  BY <1>1, FromConcat
<1>4. BySeverity(fs) = (x \o y) \o z
  BY DEF BySeverity, x, y, z
<1> QED  BY <1>2, <1>3, <1>4 DEF BySeverity

LEMMA OfSeverityConcat ==
  ASSUME NEW fs \in Seq(FindingSet), NEW s
  PROVE  \A gs \in Seq(FindingSet) : OfSeverity(fs \o gs, s) = OfSeverity(fs, s) \o OfSeverity(gs, s)
<1> DEFINE Q == { gs \in Seq(FindingSet) : OfSeverity(fs \o gs, s) = OfSeverity(fs, s) \o OfSeverity(gs, s) }
<1>1. <<>> \in Q
  <2>1. OfSeverity(fs, s) \in Seq(FindingSet) /\ OfSeverity(<<>>, s) = <<>> /\ <<>> \in Seq(FindingSet)
    BY OfSeverityIs, FromEmpty
  <2>2. fs \o <<>> = fs /\ OfSeverity(fs, s) \o <<>> = OfSeverity(fs, s)
    BY <2>1, ConcatEmptySeq
  <2> QED  BY <2>1, <2>2
<1>2. ASSUME NEW gs \in Seq(FindingSet), NEW g \in FindingSet, gs \in Q
      PROVE  Append(gs, g) \in Q
  <2>1. /\ OfSeverity(fs, s) \in Seq(FindingSet) /\ OfSeverity(gs, s) \in Seq(FindingSet)
        /\ fs \o gs \in Seq(FindingSet) /\ Append(gs, g) \in Seq(FindingSet)
    BY OfSeverityIs
  <2>2. fs \o Append(gs, g) = Append(fs \o gs, g)
    BY ConcatAppend
  <2>3. OfSeverity(fs, s) \o Append(OfSeverity(gs, s), g) = Append(OfSeverity(fs, s) \o OfSeverity(gs, s), g)
    BY <2>1, ConcatAppend
  <2>4. OfSeverity(Append(fs \o gs, g), s) =
          IF g.severity = s THEN Append(OfSeverity(fs \o gs, s), g) ELSE OfSeverity(fs \o gs, s)
    BY <2>1, OfSeverityAppend
  <2>5. OfSeverity(Append(gs, g), s) =
          IF g.severity = s THEN Append(OfSeverity(gs, s), g) ELSE OfSeverity(gs, s)
    BY OfSeverityAppend
  <2> QED  BY <1>2, <2>1, <2>2, <2>3, <2>4, <2>5
<1>3. \A gs \in Seq(FindingSet) : gs \in Q
  <2> HIDE DEF Q
  <2> QED  BY <1>1, <1>2, SequenceInduction
<1> QED  BY <1>3

\* A sequence without elements is empty.
LEMMA EmptyIs ==
  ASSUME NEW S, NEW s \in Seq(S)
  PROVE  ToSet(s) = {} <=> s = <<>>
<1>1. Len(s) \in Nat /\ DOMAIN s = 1 .. Len(s) /\ (s = <<>> <=> Len(s) = 0)
  OBVIOUS
<1>2. Len(s) # 0 => s[1] \in ToSet(s)
  BY <1>1 DEF ToSet
<1>3. Len(s) = 0 => ToSet(s) = {}
  BY <1>1 DEF ToSet
<1> QED  BY <1>1, <1>2, <1>3

\* What all elements pass leaves the sequence as it is.
LEMMA OfSeverityAll ==
  ASSUME NEW s
  PROVE  \A fs \in Seq(FindingSet) : OfSeverity(OfSeverity(fs, s), s) = OfSeverity(fs, s)
<1> DEFINE Q == { fs \in Seq(FindingSet) : OfSeverity(OfSeverity(fs, s), s) = OfSeverity(fs, s) }
<1>1. <<>> \in Q
  BY FromEmpty
<1>2. ASSUME NEW fs \in Seq(FindingSet), NEW f \in FindingSet, fs \in Q
      PROVE  Append(fs, f) \in Q
  <2>1. OfSeverity(fs, s) \in Seq(FindingSet) /\ Append(fs, f) \in Seq(FindingSet)
    BY OfSeverityIs
  <2>2. OfSeverity(Append(fs, f), s) =
          IF f.severity = s THEN Append(OfSeverity(fs, s), f) ELSE OfSeverity(fs, s)
    BY OfSeverityAppend
  <2>3. OfSeverity(Append(OfSeverity(fs, s), f), s) =
          IF f.severity = s THEN Append(OfSeverity(OfSeverity(fs, s), s), f)
                            ELSE OfSeverity(OfSeverity(fs, s), s)
    BY <2>1, OfSeverityAppend
  <2>4. CASE f.severity = s
    BY <1>2, <2>1, <2>2, <2>3, <2>4
  <2>5. CASE f.severity # s
    BY <1>2, <2>1, <2>2, <2>5
  <2> QED  BY <2>4, <2>5
<1>3. \A fs \in Seq(FindingSet) : fs \in Q
  <2> HIDE DEF Q
  <2> QED  BY <1>1, <1>2, SequenceInduction
<1> QED  BY <1>3

LEMMA OfSeverityOther ==
  ASSUME NEW fs \in Seq(FindingSet), NEW s, NEW t, s # t
  PROVE  OfSeverity(OfSeverity(fs, s), t) = <<>>
<1> DEFINE x == OfSeverity(fs, s)
<1>1. x \in Seq(FindingSet) /\ \A f \in ToSet(x) : f.severity = s
  BY OfSeverityIs
<1> HIDE DEF x
<1>2. OfSeverity(x, t) \in Seq(FindingSet) /\ ToSet(OfSeverity(x, t)) = {}
  <2>1. /\ OfSeverity(x, t) \in Seq(FindingSet)
        /\ ToSet(OfSeverity(x, t)) = { f \in ToSet(x) : f.severity = t }
    BY <1>1, OfSeverityIs, Zenon
  <2> QED  BY <1>1, <2>1
<1> QED  BY <1>2, EmptyIs DEF x

InOrder(fs) ==
  \A i, j \in DOMAIN fs : i < j => Rank[fs[i].severity] <= Rank[fs[j].severity]

\* A sort: the same findings, the critical first, and sorting again moves nothing.
LEMMA BySeverityIs ==
  ASSUME NEW fs \in Seq(FindingSet)
  PROVE  /\ BySeverity(fs) \in Seq(FindingSet)
         /\ ToSet(BySeverity(fs)) = ToSet(fs)
         /\ InOrder(BySeverity(fs))
         /\ BySeverity(BySeverity(fs)) = BySeverity(fs)
<1> DEFINE x == OfSeverity(fs, "critical")
           y == OfSeverity(fs, "warning")
           z == OfSeverity(fs, "info")
           xyz == (x \o y) \o z
<1>1. /\ x \in Seq(FindingSet) /\ ToSet(x) = { f \in ToSet(fs) : f.severity = "critical" }
      /\ y \in Seq(FindingSet) /\ ToSet(y) = { f \in ToSet(fs) : f.severity = "warning" }
      /\ z \in Seq(FindingSet) /\ ToSet(z) = { f \in ToSet(fs) : f.severity = "info" }
  BY OfSeverityIs
<1>2. /\ OfSeverity(x, "critical") = x /\ OfSeverity(x, "warning") = <<>> /\ OfSeverity(x, "info") = <<>>
      /\ OfSeverity(y, "critical") = <<>> /\ OfSeverity(y, "warning") = y /\ OfSeverity(y, "info") = <<>>
      /\ OfSeverity(z, "critical") = <<>> /\ OfSeverity(z, "warning") = <<>> /\ OfSeverity(z, "info") = z
  BY OfSeverityAll, OfSeverityOther
<1>3. BySeverity(fs) = xyz
  BY DEF BySeverity
<1> HIDE DEF x, y, z
<1>4. x \o y \in Seq(FindingSet) /\ xyz \in Seq(FindingSet)
  BY <1>1
<1>5. ToSet(xyz) = ToSet(fs)
  <2>1. ToSet(x \o y) = ToSet(x) \cup ToSet(y)
    BY <1>1, ConcatAdds
  <2>2. ToSet(xyz) = ToSet(x \o y) \cup ToSet(z)
    <3> DEFINE xy == x \o y
    <3>1. xy \in Seq(FindingSet) /\ z \in Seq(FindingSet)
      BY <1>1, <1>4
    <3> HIDE DEF xy
    <3>2. ToSet(xy \o z) = ToSet(xy) \cup ToSet(z)
      BY <3>1, ConcatAdds
    <3> QED  BY <3>2 DEF xy
  <2>3. \A f \in ToSet(fs) : f.severity \in {"critical", "warning", "info"}
    BY FindingOf DEF Severities
  <2> QED  BY <1>1, <2>1, <2>2, <2>3
<1>6. InOrder(xyz)
  <2>1. /\ \A i \in DOMAIN x : x[i].severity = "critical"
        /\ \A i \in DOMAIN y : y[i].severity = "warning"
        /\ \A i \in DOMAIN z : z[i].severity = "info"
    BY <1>1 DEF ToSet
  <2> DEFINE a == Len(x)
             b == Len(x) + Len(y)
  <2>2. /\ a \in Nat /\ b \in Nat /\ a <= b /\ DOMAIN x = 1 .. a /\ DOMAIN y = 1 .. b - a
        /\ Len(x \o y) = b /\ Len(xyz) = b + Len(z) /\ DOMAIN z = 1 .. Len(z)
        /\ DOMAIN xyz = 1 .. b + Len(z) /\ Len(z) \in Nat
    BY <1>1, <1>4
  <2>3. /\ \A i \in 1 .. b : (x \o y)[i] = IF i <= a THEN x[i] ELSE y[i - a]
        /\ \A i \in 1 .. b + Len(z) : xyz[i] = IF i <= b THEN (x \o y)[i] ELSE z[i - b]
    BY <1>1, <1>4, ConcatProperties
  <2> HIDE DEF a, b, xyz
  <2>4. \A i \in DOMAIN xyz :
          xyz[i].severity = IF i <= a THEN "critical" ELSE IF i <= b THEN "warning" ELSE "info"
    <3> SUFFICES ASSUME NEW i \in 1 .. b + Len(z)
                 PROVE  xyz[i].severity =
                          IF i <= a THEN "critical" ELSE IF i <= b THEN "warning" ELSE "info"
      BY <2>2
    <3>1. CASE i <= a
      <4>1. i \in 1 .. b /\ i \in DOMAIN x /\ xyz[i] = x[i]
        BY <2>2, <2>3, <3>1
      <4> QED  BY <2>1, <3>1, <4>1
    <3>2. CASE ~(i <= a) /\ i <= b
      <4>1. i - a \in 1 .. b - a /\ i \in 1 .. b
        BY <2>2, <3>2
      <4>2. xyz[i] = y[i - a]
        BY <2>3, <3>2, <4>1
      <4> QED  BY <2>1, <2>2, <3>2, <4>1, <4>2
    <3>3. CASE ~(i <= b)
      <4>1. i - b \in DOMAIN z /\ xyz[i] = z[i - b] /\ ~(i <= a)
        BY <2>2, <2>3, <3>3
      <4> QED  BY <2>1, <3>3, <4>1
    <3> QED  BY <3>1, <3>2, <3>3
  <2>5. Rank["critical"] = 0 /\ Rank["warning"] = 1 /\ Rank["info"] = 2
    BY DEF Rank
  <2>6. ASSUME NEW i \in DOMAIN xyz, NEW j \in DOMAIN xyz, i < j
        PROVE  Rank[xyz[i].severity] <= Rank[xyz[j].severity]
    <3>1. i \in Nat /\ j \in Nat
      BY <2>2
    <3> QED  BY <2>2, <2>4, <2>5, <2>6, <3>1
  <2> QED  BY <2>6 DEF InOrder
<1>7. BySeverity(xyz) = xyz
  <2>1. \A s : OfSeverity(xyz, s) = (OfSeverity(x, s) \o OfSeverity(y, s)) \o OfSeverity(z, s)
    <3>1. \A s : OfSeverity(xyz, s) = OfSeverity(x \o y, s) \o OfSeverity(z, s)
      BY <1>1, <1>4, OfSeverityConcat, Zenon
    <3>2. \A s : OfSeverity(x \o y, s) = OfSeverity(x, s) \o OfSeverity(y, s)
      BY <1>1, OfSeverityConcat, Zenon
    <3> QED  BY <3>1, <3>2, Zenon
  <2>2. x \o <<>> = x /\ <<>> \o y = y /\ <<>> \o z = z /\ y \o <<>> = y /\ <<>> \o <<>> = <<>>
    BY <1>1, ConcatEmptySeq
  <2>3. OfSeverity(xyz, "critical") = x /\ OfSeverity(xyz, "warning") = y /\ OfSeverity(xyz, "info") = z
    BY <1>2, <2>1, <2>2
  <2> QED  BY <2>3 DEF BySeverity
<1> QED  BY <1>3, <1>4, <1>5, <1>6, <1>7
-------------------------------------------------------------------------------
\* One finding for each section of the profile without a heading.
MissingFor(s) == Finding("missing-section", s, "critical", <<>>)

LEMMA MissingIs ==
  ASSUME NEW txt
  PROVE  /\ Missing(txt) \in Seq(FindingSet)
         /\ ToSet(Missing(txt)) = { MissingFor(s) : s \in Sections \ Matched(txt) }
<1> DEFINE M == Sections \ Matched(txt)
           n == Cardinality(M)
           order == SetToSeq(M)
<1>1. IsFiniteSet(M)
  BY SectionsAssumption, FS_Difference
<1>2. n \in Nat /\ ExistsBijection(1 .. n, M)
  BY <1>1, FS_CardinalityType
<1>3. order \in [1 .. n -> M] /\ \A i, j \in 1 .. n : order[i] = order[j] => i = j
  <2>1. PICK f \in [1 .. n -> M] : IsInjective(f)
    <3>1. PICK f \in Bijection(1 .. n, M) : TRUE
      BY <1>2 DEF ExistsBijection
    <3>2. f \in [1 .. n -> M] /\ \A i, j \in 1 .. n : f[i] = f[j] => i = j
      BY <3>1 DEF Bijection, Injection, IsInjective
    <3> QED  BY <3>2 DEF IsInjective
  <2>2. order \in [1 .. n -> M] /\ IsInjective(order)
    BY <2>1 DEF SetToSeq
  <2> QED  BY <2>2 DEF IsInjective
<1> HIDE DEF M, n, order
<1>4. \A s \in M : \E i \in 1 .. n : order[i] = s
  <2>1. order \in Injection(1 .. n, M)
    BY <1>3 DEF Injection, IsInjective
  <2>2. Cardinality(1 .. n) = n
    BY <1>2, FS_Interval
  <2>3. order \in Surjection(1 .. n, M)
    BY <1>1, <2>1, <2>2, FS_Injection DEF n
  <2> QED  BY <2>3 DEF Surjection
<1>5. Missing(txt) = [k \in 1 .. n |-> MissingFor(order[k])]
  BY DEF Missing, MissingFor, M, n, order
<1>6. \A s \in M : MissingFor(s) \in FindingSet
  BY DEF M, MissingFor, Finding, FindingSet, Ids, Checkers, Severities, Own
<1>7. Missing(txt) \in Seq(FindingSet)
  BY <1>2, <1>3, <1>5, <1>6
<1>8. ToSet(Missing(txt)) = { MissingFor(s) : s \in M }
  BY <1>3, <1>4, <1>5 DEF ToSet
<1> QED  BY <1>7, <1>8 DEF M

\* What nothing was found by selects nothing, and what everything was found by all.
LEMMA FromNone ==
  ASSUME NEW fs \in Seq(FindingSet), NEW c, \A f \in ToSet(fs) : Checker(f) \notin c
  PROVE  From(fs, c) = <<>>
<1>1. From(fs, c) \in Seq(FindingSet) /\ ToSet(From(fs, c)) = {}
  BY FromIs
<1> QED  BY <1>1, EmptyIs

LEMMA FromAll ==
  ASSUME NEW c
  PROVE  \A fs \in Seq(FindingSet) : (\A f \in ToSet(fs) : Checker(f) \in c) => From(fs, c) = fs
<1> DEFINE Q == { fs \in Seq(FindingSet) : (\A f \in ToSet(fs) : Checker(f) \in c) => From(fs, c) = fs }
<1>1. <<>> \in Q
  BY FromEmpty
<1>2. ASSUME NEW fs \in Seq(FindingSet), NEW f \in FindingSet, fs \in Q
      PROVE  Append(fs, f) \in Q
  <2>1. ToSet(Append(fs, f)) = ToSet(fs) \cup {f} /\ Append(fs, f) \in Seq(FindingSet)
    BY AppendAdds
  <2>2. From(Append(fs, f), c) = IF Checker(f) \in c THEN Append(From(fs, c), f) ELSE From(fs, c)
    BY FromAppend
  <2> QED  BY <1>2, <2>1, <2>2
<1>3. \A fs \in Seq(FindingSet) : fs \in Q
  <2> HIDE DEF Q
  <2> QED  BY <1>1, <1>2, SequenceInduction
<1> QED  BY <1>3

\* Leaving out the findings of one checker leaves those of the others alone.
LEMMA FromWithout ==
  ASSUME NEW c, NEW checker, checker \notin c
  PROVE  \A fs \in Seq(FindingSet) : From(Without(fs, checker), c) = From(fs, c)
<1> DEFINE Q == { fs \in Seq(FindingSet) : From(Without(fs, checker), c) = From(fs, c) }
<1>1. <<>> \in Q
  BY FromEmpty
<1>2. ASSUME NEW fs \in Seq(FindingSet), NEW f \in FindingSet, fs \in Q
      PROVE  Append(fs, f) \in Q
  <2>1. Without(fs, checker) \in Seq(FindingSet) /\ Append(fs, f) \in Seq(FindingSet)
    BY FromIs
  <2>2. /\ From(Append(fs, f), c) = IF Checker(f) \in c THEN Append(From(fs, c), f) ELSE From(fs, c)
        /\ Without(Append(fs, f), checker) =
             IF Checker(f) # checker THEN Append(Without(fs, checker), f) ELSE Without(fs, checker)
    BY FromAppend
  <2>3. From(Append(Without(fs, checker), f), c) =
          IF Checker(f) \in c THEN Append(From(Without(fs, checker), c), f)
                              ELSE From(Without(fs, checker), c)
    BY <2>1, FromAppend
  <2>4. CASE Checker(f) = checker
    BY <1>2, <2>1, <2>2, <2>4
  <2>5. CASE Checker(f) # checker
    <3>1. From(Without(Append(fs, f), checker), c) = From(Append(Without(fs, checker), f), c)
      BY <2>2, <2>5
    <3>2. From(Without(fs, checker), c) = From(fs, c)
      BY <1>2
    <3> QED  BY <2>1, <2>2, <2>3, <3>1, <3>2
  <2> QED  BY <2>4, <2>5
<1>3. \A fs \in Seq(FindingSet) : fs \in Q
  <2> HIDE DEF Q
  <2> QED  BY <1>1, <1>2, SequenceInduction
<1> QED  BY <1>3

\* What the checkers of the engine found, beside the missing sections.
Others == { fs \in Seq(FindingSet) :
              \A f \in ToSet(fs) : Checker(f) \in {"rule", "ai"} /\ f.advice = Own }

LEMMA NoticeIs ==
  /\ Notice \in FindingSet /\ Checker(Notice) = "profile-mismatch"
  /\ Notice.severity = "info" /\ Notice.advice = Own
BY DEF Notice, Finding, FindingSet, Ids, Checkers, Severities, Own, Checker

LEMMA RunChecksIs ==
  ASSUME NEW txt, NEW others \in Others
  PROVE  /\ RunChecks(txt, others) \in Seq(FindingSet)
         /\ InOrder(RunChecks(txt, others))
         /\ From(RunChecks(txt, others), {"rule"}) = BySeverity(From(others, {"rule"}))
         /\ ToSet(From(RunChecks(txt, others), {"missing-section"})) =
              { MissingFor(s) : s \in Sections \ Matched(txt) }
         /\ From(RunChecks(txt, others), {"profile-mismatch"}) = <<>>
         /\ \A f \in ToSet(RunChecks(txt, others)) : f.advice = Own
<1> DEFINE ms == Missing(txt)
           all == ms \o others
<1>1. /\ ms \in Seq(FindingSet) /\ others \in Seq(FindingSet)
      /\ ToSet(ms) = { MissingFor(s) : s \in Sections \ Matched(txt) }
      /\ \A f \in ToSet(others) : Checker(f) \in {"rule", "ai"} /\ f.advice = Own
  BY MissingIs DEF Others
<1>2. \A f \in ToSet(ms) : Checker(f) = "missing-section" /\ f.advice = Own
  BY <1>1 DEF MissingFor, Finding, Checker
<1> HIDE DEF ms
<1>3. all \in Seq(FindingSet) /\ ToSet(all) = ToSet(ms) \cup ToSet(others)
  BY <1>1, ConcatAdds
<1>4. From(all, {"rule"}) = From(others, {"rule"})
  <2>1. From(all, {"rule"}) = From(ms, {"rule"}) \o From(others, {"rule"})
    BY <1>1, FromConcat
  <2>2. From(ms, {"rule"}) = <<>>
    BY <1>1, <1>2, FromNone
  <2>3. From(others, {"rule"}) \in Seq(FindingSet)
    BY <1>1, FromIs
  <2> QED  BY <2>1, <2>2, <2>3, ConcatEmptySeq
<1> HIDE DEF all
<1>5. RunChecks(txt, others) = BySeverity(all)
  BY DEF RunChecks, all, ms
<1>6. /\ BySeverity(all) \in Seq(FindingSet) /\ InOrder(BySeverity(all))
      /\ ToSet(BySeverity(all)) = ToSet(all)
  BY <1>3, BySeverityIs
<1>7. From(BySeverity(all), {"rule"}) = BySeverity(From(others, {"rule"}))
  BY <1>3, <1>4, FromBySeverity
<1>8. ToSet(From(BySeverity(all), {"missing-section"})) = ToSet(ms)
  <2>1. ToSet(From(BySeverity(all), {"missing-section"})) =
          { f \in ToSet(all) : Checker(f) \in {"missing-section"} }
    BY <1>6, FromIs
  <2> QED  BY <1>1, <1>2, <1>3, <2>1
<1>9. From(BySeverity(all), {"profile-mismatch"}) = <<>>
  <2>1. \A f \in ToSet(BySeverity(all)) : Checker(f) \notin {"profile-mismatch"}
    BY <1>1, <1>2, <1>3, <1>6
  <2> QED  BY <1>6, <2>1, FromNone
<1>10. \A f \in ToSet(BySeverity(all)) : f.advice = Own
  BY <1>1, <1>2, <1>3, <1>6
<1> QED  BY <1>1, <1>5, <1>6, <1>7, <1>8, <1>9, <1>10

\* The verdict on the form, on a text whose headings match the sections of found.
Verdict(fs, found) ==
  LET pile == { f.id[2] : f \in ToSet(From(fs, {"missing-section"})) }
      notices == From(fs, {"profile-mismatch"})
  IN  IF found = {} THEN pile = {} /\ Len(notices) = 1
                    ELSE pile = Sections \ found /\ notices = <<>>

\* The collapse exchanges the pile for one notice exactly when no section matches.
LEMMA CollapsedIs ==
  ASSUME NEW txt, NEW others \in Others
  PROVE  LET fs == Collapsed(RunChecks(txt, others), txt) IN
         /\ fs \in Seq(FindingSet) /\ InOrder(fs)
         /\ From(fs, {"rule"}) = BySeverity(From(others, {"rule"}))
         /\ Verdict(fs, Matched(txt))
         /\ \A f \in ToSet(fs) : f.advice = Own
<1> DEFINE run == RunChecks(txt, others)
           fs == Collapsed(run, txt)
           pile == { f.id[2] : f \in ToSet(From(fs, {"missing-section"})) }
<1>1. /\ run \in Seq(FindingSet) /\ InOrder(run)
      /\ From(run, {"rule"}) = BySeverity(From(others, {"rule"}))
      /\ ToSet(From(run, {"missing-section"})) = { MissingFor(s) : s \in Sections \ Matched(txt) }
      /\ From(run, {"profile-mismatch"}) = <<>>
      /\ \A f \in ToSet(run) : f.advice = Own
  BY RunChecksIs
<1>2. { MissingFor(s).id[2] : s \in Sections \ Matched(txt) } = Sections \ Matched(txt)
  BY DEF MissingFor, Finding
<1>3. Matched(txt) = {} => From(run, {"missing-section"}) # <<>>
  <2> SUFFICES ASSUME Matched(txt) = {}, From(run, {"missing-section"}) = <<>>  PROVE FALSE
    OBVIOUS
  <2>1. PICK s \in Sections : TRUE
    BY SectionsAssumption
  <2>2. MissingFor(s) \in ToSet(From(run, {"missing-section"}))
    BY <1>1, <2>1
  <2> QED  BY <2>2 DEF ToSet
<1> HIDE DEF run
<1>4. CASE Matched(txt) # {}
  <2>1. fs = run
    BY <1>4 DEF Collapsed
  <2>2. { f.id[2] : f \in ToSet(From(run, {"missing-section"})) } = Sections \ Matched(txt)
    BY <1>1, <1>2
  <2>3. Verdict(run, Matched(txt))
    BY <1>1, <1>4, <2>2 DEF Verdict
  <2> QED  BY <1>1, <2>1, <2>3 DEF run
<1>5. CASE Matched(txt) = {}
  <2> DEFINE rest == Without(run, "missing-section")
             both == Append(rest, Notice)
  <2>1. fs = BySeverity(both)
    BY <1>3, <1>5 DEF Collapsed
  <2>2. /\ rest \in Seq(FindingSet)
        /\ ToSet(rest) = { f \in ToSet(run) : Checker(f) # "missing-section" }
    BY <1>1, FromIs
  <2>3. both \in Seq(FindingSet) /\ ToSet(both) = ToSet(rest) \cup {Notice}
    BY <2>2, NoticeIs, AppendAdds
  <2>4. \A c : From(both, c) = IF "profile-mismatch" \in c THEN Append(From(rest, c), Notice) ELSE From(rest, c)
    BY <2>2, NoticeIs, FromAppend
  <2>5. \A c : "missing-section" \notin c => From(rest, c) = From(run, c)
    BY <1>1, FromWithout
  <2>6. From(both, {"rule"}) = From(run, {"rule"})
    BY <2>4, <2>5
  <2>7. From(both, {"profile-mismatch"}) = Append(<<>>, Notice)
    BY <1>1, <2>4, <2>5
  <2>8. From(both, {"missing-section"}) = <<>>
    <3>1. \A f \in ToSet(both) : Checker(f) \notin {"missing-section"}
      BY <2>2, <2>3, NoticeIs
    <3> QED  BY <2>3, <3>1, FromNone
  <2> HIDE DEF both
  <2>9. fs \in Seq(FindingSet) /\ InOrder(fs) /\ ToSet(fs) = ToSet(both)
    BY <2>1, <2>3, BySeverityIs
  <2>10. \A c : From(fs, c) = BySeverity(From(both, c))
    BY <2>1, <2>3, FromBySeverity
  <2>11. From(fs, {"rule"}) = BySeverity(From(others, {"rule"}))
    <3>1. From(others, {"rule"}) \in Seq(FindingSet)
      BY FromIs DEF Others
    <3> QED  BY <1>1, <2>6, <2>10, <3>1, BySeverityIs
  <2>12. BySeverity(<<>>) = <<>>
    BY FromEmpty DEF BySeverity
  <2>13. Len(BySeverity(Append(<<>>, Notice))) = 1
    <3>1. <<>> \in Seq(FindingSet)
      OBVIOUS
    <3>2. \A s : OfSeverity(Append(<<>>, Notice), s) = IF Notice.severity = s THEN Append(<<>>, Notice) ELSE <<>>
      BY <3>1, NoticeIs, OfSeverityAppend, FromEmpty
    <3>3. /\ OfSeverity(Append(<<>>, Notice), "critical") = <<>>
          /\ OfSeverity(Append(<<>>, Notice), "warning") = <<>>
          /\ OfSeverity(Append(<<>>, Notice), "info") = Append(<<>>, Notice)
      BY <3>2, NoticeIs
    <3>4. BySeverity(Append(<<>>, Notice)) = (<<>> \o <<>>) \o Append(<<>>, Notice)
      BY <3>3 DEF BySeverity
    <3> QED  BY <3>4, NoticeIs
  <2>14. ToSet(From(fs, {"missing-section"})) = {}
    BY <2>8, <2>10, <2>12 DEF ToSet
  <2>15. Verdict(fs, Matched(txt))
    BY <1>5, <2>7, <2>10, <2>13, <2>14 DEF Verdict
  <2>16. \A f \in ToSet(fs) : f.advice = Own
    BY <1>1, <2>2, <2>3, <2>9, NoticeIs
  <2> QED  BY <2>9, <2>11, <2>15, <2>16 DEF run
<1> QED  BY <1>4, <1>5
-------------------------------------------------------------------------------
\* The same findings, with other advice: their own or what is for them.
SameFindings(fs) ==
  { es \in [DOMAIN fs -> FindingSet] :
      \A n \in DOMAIN fs :
        /\ es[n].id = fs[n].id /\ es[n].severity = fs[n].severity /\ es[n].quotes = fs[n].quotes
        /\ es[n].advice \in {Own, fs[n].id} }

\* The answer to the prompt about these findings.
AnswerTo(fs, answer) ==
  [k \in DOMAIN answer |->
     [index |-> answer[k],
      about |-> IF answer[k] \in DOMAIN Prompt(fs) THEN Prompt(fs)[answer[k]] ELSE <<"nothing">>]]

\* Whatever indexes an answer has, the merge puts advice only where it belongs.
LEMMA EnrichedIs ==
  ASSUME NEW fs \in Seq(FindingSet), NEW answer \in Seq(Int),
         \A n \in DOMAIN fs : fs[n].advice \in {Own, fs[n].id}
  PROVE  Enriched(fs, AnswerTo(fs, answer)) \in SameFindings(fs)
<1> DEFINE items == AnswerTo(fs, answer)
           n == Len(items)
           X == SameFindings(fs)
           P(k) == Position(fs, items[k].index)
           Turn(k, acc) == IF P(k) \in DOMAIN fs THEN [acc EXCEPT ![P(k)].advice = items[k].about]
                                                 ELSE acc
           step == [k \in 1 .. n |-> [acc \in X |-> Turn(k, acc)]]
           Body(f) == [k \in 0 .. n |-> IF k = 0 THEN fs ELSE Turn(k, f[k - 1])]
           up == CHOOSE f : f = Body(f)
<1>1. n \in Nat /\ DOMAIN items = 1 .. n /\ DOMAIN fs = 1 .. Len(fs) /\ Len(fs) \in Nat
  BY DEF AnswerTo
<1>2. ASSUME NEW k \in 1 .. n, P(k) \in DOMAIN fs
      PROVE  items[k].about = fs[P(k)].id
  <2>1. items[k].index = answer[k] /\ answer[k] \in Int
    BY <1>1 DEF AnswerTo
  <2>2. answer[k] \in 0 .. Len(fs) - 1 /\ P(k) = answer[k] + 1
    BY <1>1, <1>2, <2>1 DEF Position
  <2>3. Prompt(fs)[answer[k]] = fs[answer[k] + 1].id /\ DOMAIN Prompt(fs) = 0 .. Len(fs) - 1
    BY <2>2 DEF Prompt
  <2> QED  BY <1>1, <2>2, <2>3 DEF AnswerTo
<1>3. fs \in X
  BY <1>1 DEF SameFindings
<1>4. Enriched(fs, items) = up[n]
  BY DEF Enriched
<1> HIDE DEF n, items, P
<1>5. ASSUME NEW k \in 1 .. n, NEW acc \in X  PROVE Turn(k, acc) \in X
  <2>1. CASE P(k) \in DOMAIN fs
    <3> DEFINE p == P(k)
               new == [acc EXCEPT ![p].advice = items[k].about]
    <3>1. /\ acc \in [DOMAIN fs -> FindingSet] /\ p \in DOMAIN fs /\ items[k].about = fs[p].id
          /\ \A j \in DOMAIN fs :
               /\ acc[j].id = fs[j].id /\ acc[j].severity = fs[j].severity /\ acc[j].quotes = fs[j].quotes
               /\ acc[j].advice \in {Own, fs[j].id}
      BY <1>2, <2>1 DEF SameFindings
    <3>2. acc[p] \in FindingSet /\ fs[p].id \in Ids
      BY <3>1 DEF FindingSet
    <3> DEFINE e == [acc[p] EXCEPT !.advice = fs[p].id]
    <3>3. /\ e \in FindingSet /\ e.id = fs[p].id /\ e.severity = fs[p].severity
          /\ e.quotes = fs[p].quotes /\ e.advice = fs[p].id
      BY <3>1, <3>2 DEF FindingSet
    <3>4. new = [acc EXCEPT ![p] = e]
      BY <3>1
    <3> HIDE DEF p, e, new
    <3>5. \A j \in DOMAIN fs : new[j] = IF j = p THEN e ELSE acc[j]
      BY <3>1, <3>4
    <3>6. new \in [DOMAIN fs -> FindingSet]
      BY <3>1, <3>3, <3>4
    <3>7. new \in X
      BY <3>1, <3>3, <3>5, <3>6 DEF SameFindings
    <3> QED  BY <2>1, <3>7 DEF new, p
  <2>2. CASE P(k) \notin DOMAIN fs
    BY <2>2
  <2> QED  BY <2>1, <2>2
<1> HIDE DEF X, Turn
<1>6. /\ step \in [1 .. n -> [X -> X]]
      /\ \A k \in 1 .. n, acc \in X : step[k][acc] = Turn(k, acc)
  BY <1>5
<1> HIDE DEF step
<1>7. PICK g : g \in Loops(n, X, fs, step)
  BY <1>1, <1>3, <1>6, LoopRuns
<1>8. g \in [0 .. n -> X] /\ g[0] = fs /\ \A k \in 1 .. n : g[k] = Turn(k, g[k - 1])
  <2>1. g \in [0 .. n -> X] /\ g[0] = fs /\ \A k \in 1 .. n : g[k] = step[k][g[k - 1]]
    BY <1>7 DEF Loops
  <2>2. \A k \in 1 .. n : g[k - 1] \in X
    BY <1>1, <2>1
  <2> QED  BY <1>6, <2>1, <2>2
<1>9. g = Body(g)
  <2>1. \A k \in 0 .. n : k = 0 \/ k \in 1 .. n
    BY <1>1
  <2> QED  BY <1>8, <2>1
<1>10. up = Body(up)
  <2> HIDE DEF Body
  <2> QED  BY <1>9
<1>11. up[n] = g[n]
  <2> HIDE DEF up
  <2>1. up[0] = fs /\ \A k \in 1 .. n : up[k - 1] \in X => up[k] = step[k][up[k - 1]]
    BY <1>1, <1>6, <1>10
  <2> QED  BY <1>1, <1>7, <2>1, LoopUnique
<1>12. g[n] \in X
  BY <1>1, <1>8
<1> QED  BY <1>4, <1>11, <1>12 DEF X, items
-------------------------------------------------------------------------------
\* Nothing the verdict or the order looks at depends on the advice.
LEMMA SameFrom ==
  ASSUME NEW fs \in Seq(FindingSet), NEW es \in SameFindings(fs), NEW c
  PROVE  /\ { f.id[2] : f \in ToSet(From(es, c)) } = { f.id[2] : f \in ToSet(From(fs, c)) }
         /\ Len(From(es, c)) = Len(From(fs, c))
<1>1. /\ es \in Seq(FindingSet) /\ DOMAIN es = DOMAIN fs
      /\ \A n \in DOMAIN fs : es[n].id = fs[n].id
  BY DEF SameFindings
<1> DEFINE K == { k \in DOMAIN fs : Checker(fs[k]) \in c }
<1>2. K = { k \in DOMAIN es : Checker(es[k]) \in c }
  BY <1>1 DEF Checker
<1>3. From(fs, c) = Picked(fs, K) /\ From(es, c) = Picked(es, K)
  <2> HIDE DEF K
  <2>1. From(es, c) = Picked(es, K)
    BY <1>2 DEF From
  <2> QED  BY <2>1 DEF From, K
<1>4. K \in SUBSET DOMAIN fs /\ K \in SUBSET DOMAIN es
  BY <1>1
<1> HIDE DEF K
<1>5. ToSet(From(fs, c)) = { fs[k] : k \in K } /\ Len(From(fs, c)) = Cardinality(K)
  BY <1>3, <1>4, PickedIs
<1>6. ToSet(From(es, c)) = { es[k] : k \in K } /\ Len(From(es, c)) = Cardinality(K)
  BY <1>1, <1>3, <1>4, PickedIs
<1>7. \A k \in K : es[k].id = fs[k].id
  BY <1>1, <1>4
<1> QED  BY <1>5, <1>6, <1>7

LEMMA SameKeeps ==
  ASSUME NEW fs \in Seq(FindingSet), NEW es \in SameFindings(fs), NEW found
  PROVE  /\ es \in Seq(FindingSet)
         /\ Unenriched(es) = Unenriched(fs)
         /\ InOrder(fs) => InOrder(es)
         /\ Verdict(fs, found) => Verdict(es, found)
         /\ \A n \in DOMAIN es : es[n].advice \in {Own, es[n].id}
<1>1. /\ es \in [DOMAIN fs -> FindingSet] /\ es \in Seq(FindingSet) /\ DOMAIN es = DOMAIN fs
      /\ \A n \in DOMAIN fs :
        /\ es[n].id = fs[n].id /\ es[n].severity = fs[n].severity /\ es[n].quotes = fs[n].quotes
        /\ es[n].advice \in {Own, fs[n].id}
  BY DEF SameFindings
<1>2. Unenriched(es) = Unenriched(fs)
  <2>1. ASSUME NEW n \in DOMAIN fs
        PROVE  [es[n] EXCEPT !.advice = Own] = [fs[n] EXCEPT !.advice = Own]
    <3>1. fs[n] \in FindingSet /\ es[n] \in FindingSet
      BY <1>1
    <3> QED  BY <1>1, <3>1 DEF FindingSet
  <2> QED  BY <1>1, <2>1 DEF Unenriched
<1>3. InOrder(fs) => InOrder(es)
  BY <1>1 DEF InOrder
<1>4. Verdict(fs, found) => Verdict(es, found)
  <2>1. /\ From(es, {"profile-mismatch"}) \in Seq(FindingSet)
        /\ From(fs, {"profile-mismatch"}) \in Seq(FindingSet)
    BY <1>1, FromIs
  <2>2. /\ Len(From(es, {"profile-mismatch"})) = Len(From(fs, {"profile-mismatch"}))
        /\ { f.id[2] : f \in ToSet(From(es, {"missing-section"})) } =
             { f.id[2] : f \in ToSet(From(fs, {"missing-section"})) }
    BY SameFrom
  <2>3. From(es, {"profile-mismatch"}) = <<>> <=> From(fs, {"profile-mismatch"}) = <<>>
    BY <2>1, <2>2
  <2> QED  BY <2>2, <2>3 DEF Verdict
<1>5. \A n \in DOMAIN es : es[n].advice \in {Own, es[n].id}
  BY <1>1
<1> QED  BY <1>1, <1>2, <1>3, <1>4, <1>5

\* Without enrichment there is nothing to take back.
LEMMA OwnAdvice ==
  ASSUME NEW fs \in Seq(FindingSet), \A f \in ToSet(fs) : f.advice = Own
  PROVE  /\ Unenriched(fs) = fs
         /\ \A n \in DOMAIN fs : fs[n].advice \in {Own, fs[n].id}
<1>1. \A n \in DOMAIN fs : fs[n].advice = Own /\ fs[n] \in FindingSet
  BY DEF ToSet
<1>2. \A n \in DOMAIN fs : [fs[n] EXCEPT !.advice = Own] = fs[n]
  BY <1>1 DEF FindingSet
<1> QED  BY <1>1, <1>2 DEF Unenriched

\* What the checkers report is what Collapsed expects.
LEMMA QuotingIs ==
  ASSUME text \in Seq(TextLines), NEW shapes \in RuleFinds \cup AiFinds, NEW checker \in {"rule", "ai"}
  PROVE  /\ Quoting(shapes, checker) \in Others
         /\ \A f \in ToSet(Quoting(shapes, checker)) : Checker(f) = checker
<1>1. /\ shapes \in Seq(Shapes)
      /\ \A n \in DOMAIN shapes : \A k \in DOMAIN shapes[n].at :
           shapes[n].at[k][1] < shapes[n].at[k][2]
  BY FindsAssumption
<1>2. ASSUME NEW n \in DOMAIN shapes, NEW k \in DOMAIN shapes[n].at
      PROVE  Piece(shapes[n].at[k]) \in Quotes
  <2> DEFINE spans == shapes[n].at
             span == spans[k]
  <2>0. shapes[n] \in Shapes
    BY <1>1
  <2>1. spans \in Seq(Nat \X Nat) /\ k \in DOMAIN spans /\ span[1] < span[2]
    BY <1>1, <2>0 DEF Shapes
  <2> HIDE DEF spans
  <2>2. span[1] \in Nat /\ span[2] \in Nat
    <3>1. span \in Nat \X Nat
      BY <2>1
    <3> QED  BY <3>1
  <2> HIDE DEF span
  <2>3. CASE span[2] <= Len(text)
    <3> DEFINE a == span[1] + 1
               b == span[2]
    <3>1. a \in 1 .. Len(text) /\ b \in 1 .. Len(text) /\ a <= b
      BY <2>1, <2>2, <2>3
    <3>2. text \in Seq(Tokens)
      BY DEF Tokens
    <3> HIDE DEF a, b
    <3>3. SubSeq(text, a, b) \in Seq(Tokens) /\ Len(SubSeq(text, a, b)) = b - a + 1
      BY <3>1, <3>2, SubSeqProperties
    <3>4. SubSeq(text, a, b) # <<>>
      BY <3>1, <3>3
    <3>5. Piece(span) = SubSeq(text, a, b)
      BY <2>3 DEF Piece, Slice, a, b
    <3> QED  BY <3>3, <3>4, <3>5 DEF span, spans, Quotes
  <2>4. CASE ~(span[2] <= Len(text))
    <3>1. Piece(span) = <<Elsewhere>> /\ Elsewhere \in Tokens
      BY <2>4 DEF Piece, Tokens
    <3> QED  BY <3>1 DEF span, spans, Quotes
  <2> QED  BY <2>3, <2>4
<1>3. ASSUME NEW n \in DOMAIN shapes
      PROVE  /\ Quoting(shapes, checker)[n] \in FindingSet
             /\ Checker(Quoting(shapes, checker)[n]) = checker
             /\ Quoting(shapes, checker)[n].advice = Own
  <2> DEFINE quotes == [k \in DOMAIN shapes[n].at |-> Piece(shapes[n].at[k])]
  <2>1. Quoting(shapes, checker)[n] = Finding(checker, n, shapes[n].severity, quotes)
    BY DEF Quoting
  <2>2. shapes[n] \in Shapes /\ n \in Nat
    BY <1>1
  <2>3. quotes \in Seq(Quotes)
    <3>1. shapes[n].at \in Seq(Nat \X Nat)
      BY <2>2 DEF Shapes
    <3>2. DOMAIN shapes[n].at = 1 .. Len(shapes[n].at) /\ Len(shapes[n].at) \in Nat
      BY <3>1
    <3>3. \A k \in 1 .. Len(shapes[n].at) : Piece(shapes[n].at[k]) \in Quotes
      BY <1>2, <3>2
    <3> DEFINE len == Len(shapes[n].at)
               P(k) == Piece(shapes[n].at[k])
    <3>4. quotes = [k \in 1 .. len |-> P(k)] /\ len \in Nat /\ \A k \in 1 .. len : P(k) \in Quotes
      BY <3>2, <3>3
    <3> HIDE DEF len, P, quotes
    <3> QED  BY <3>4
  <2> HIDE DEF quotes
  <2>4. shapes[n].severity \in Severities /\ <<checker, n>> \in Ids
    BY <2>2 DEF Shapes, Ids, Checkers
  <2> QED  BY <2>1, <2>3, <2>4 DEF Finding, FindingSet, Checker, Own
<1>4. DOMAIN Quoting(shapes, checker) = 1 .. Len(shapes) /\ Len(shapes) \in Nat /\ DOMAIN shapes = 1 .. Len(shapes)
  BY <1>1 DEF Quoting
<1>5. Quoting(shapes, checker) \in Seq(FindingSet)
  <2>1. Quoting(shapes, checker) = [n \in 1 .. Len(shapes) |-> Quoting(shapes, checker)[n]]
    BY <1>4 DEF Quoting
  <2> QED  BY <1>3, <1>4, <2>1
<1>6. \A f \in ToSet(Quoting(shapes, checker)) : Checker(f) = checker /\ f.advice = Own
  BY <1>3, <1>4 DEF ToSet
<1> QED  BY <1>5, <1>6 DEF Others

\* What the AI found beside the rules does not count for the rules.
LEMMA BesideRules ==
  ASSUME NEW rs \in Others, NEW as \in Others,
         \A f \in ToSet(rs) : Checker(f) = "rule", \A f \in ToSet(as) : Checker(f) = "ai"
  PROVE  rs \o as \in Others /\ From(rs \o as, {"rule"}) = rs /\ From(rs, {"rule"}) = rs
<1>1. rs \in Seq(FindingSet) /\ as \in Seq(FindingSet)
  BY DEF Others
<1>2. rs \o as \in Seq(FindingSet) /\ ToSet(rs \o as) = ToSet(rs) \cup ToSet(as)
  <2> HIDE DEF Others
  <2>1. ToSet(rs \o as) = ToSet(rs) \cup ToSet(as)
    BY ONLY <1>1, ConcatAdds, Zenon
  <2>2. rs \o as \in Seq(FindingSet)
    BY ONLY <1>1, ConcatProperties
  <2> QED  BY <2>1, <2>2
<1>3. From(rs, {"rule"}) = rs
  BY <1>1, FromAll
<1>4. From(as, {"rule"}) = <<>>
  BY <1>1, FromNone
<1>5. From(rs \o as, {"rule"}) = rs \o <<>>
  <2>1. From(rs \o as, {"rule"}) = From(rs, {"rule"}) \o From(as, {"rule"})
    BY <1>1, FromConcat
  <2> QED  BY <1>3, <1>4, <2>1
<1>6. rs \o <<>> = rs
  BY <1>1, ConcatEmptySeq
<1> QED  BY <1>2, <1>3, <1>5, <1>6 DEF Others
-------------------------------------------------------------------------------
\* A line keeps its shape, and what a heading says.
LEMMA StructuredIs ==
  ASSUME NEW line \in TextLines
  PROVE  /\ Structured(line) \in TextLines
         /\ Structured(line).says = line.says
         /\ line.says \in Sections =>
              (Structured(line).mark # "none" /\ ~Structured(line).decorated
                 <=> line.mark = "none" \/ ~line.decorated)
<1>1. /\ line.says \in Sections \cup Prose /\ line.decorated \in BOOLEAN /\ line.mark \in Marks
      /\ line = [says |-> line.says, decorated |-> line.decorated, mark |-> line.mark]
  BY DEF TextLines
<1>2. CASE line.mark = "none" /\ line.says \in Sections
  <2>1. Structured(line) = [line EXCEPT !.mark = "promoted", !.decorated = FALSE]
    BY <1>2, SectionsAssumption DEF Structured, Prose
  <2>2. Structured(line) = [says |-> line.says, decorated |-> FALSE, mark |-> "promoted"]
    BY <1>1, <2>1
  <2> QED  BY <1>1, <1>2, <2>2 DEF TextLines, Marks
<1>3. CASE line.mark = "none" /\ line.says = "numbered" /\ line.says \notin Sections
  <2>1. Structured(line) = [line EXCEPT !.mark = "promoted"]
    BY <1>3 DEF Structured
  <2>2. Structured(line) = [says |-> line.says, decorated |-> line.decorated, mark |-> "promoted"]
    BY <1>1, <2>1
  <2> QED  BY <1>1, <1>3, <2>2 DEF TextLines, Marks
<1>4. CASE ~(line.mark = "none" /\ line.says \in Sections) /\ ~(line.mark = "none" /\ line.says = "numbered")
  <2>1. Structured(line) = line
    BY <1>4 DEF Structured
  <2> QED  BY <1>1, <1>4, <2>1
<1> QED  BY <1>2, <1>3, <1>4

LEMMA NormalizedIs ==
  ASSUME NEW ls \in Seq(TextLines), NEW form
  PROVE  Normalized(form, ls) \in Seq(TextLines)
<1>1. DOMAIN ls = 1 .. Len(ls) /\ Len(ls) \in Nat /\ \A k \in DOMAIN ls : ls[k] \in TextLines
  OBVIOUS
<1>2. \A k \in DOMAIN ls : Structured(ls[k]) \in TextLines
  BY <1>1, StructuredIs
<1>3. StructureHeadings(ls) \in Seq(TextLines)
  BY <1>1, <1>2 DEF StructureHeadings
<1> QED  BY <1>3 DEF Normalized

\* The headings of the converted text are the titles the converter understands.
LEMMA HeadingsUnderstood ==
  ASSUME source \in Seq(TextLines)
  PROVE  Matched(Normalized(format, source)) = Understood
<1>1. \A k \in DOMAIN source : source[k] \in TextLines
  OBVIOUS
<1>2. CASE Untouched(format, source)
  BY <1>2 DEF Normalized, Matched, Understood
<1>3. CASE ~Untouched(format, source)
  <2> DEFINE new == StructureHeadings(source)
  <2>1. Normalized(format, source) = new
    BY <1>3 DEF Normalized
  <2>2. DOMAIN new = DOMAIN source /\ \A k \in DOMAIN source : new[k] = Structured(source[k])
    BY DEF StructureHeadings
  <2> HIDE DEF new
  <2>3. ASSUME NEW s \in Sections, NEW k \in DOMAIN source
        PROVE  new[k].says = s /\ new[k].mark # "none" /\ ~new[k].decorated
                 <=> /\ source[k].says = s
                     /\ IF source[k].mark # "none" THEN ~source[k].decorated ELSE ~Untouched(format, source)
    <3>1. new[k] = Structured(source[k]) /\ source[k] \in TextLines
      BY <1>1, <2>2
    <3>2. /\ new[k].says = source[k].says
          /\ source[k].says = s => (new[k].mark # "none" /\ ~new[k].decorated
                                      <=> source[k].mark = "none" \/ ~source[k].decorated)
      BY <3>1, StructuredIs
    <3> QED  BY <1>3, <3>2
  <2>4. Matched(new) = Understood
    BY <2>2, <2>3 DEF Matched, Understood
  <2> QED  BY <2>1, <2>4
<1> QED  BY <1>2, <1>3
-------------------------------------------------------------------------------
\* Loops that begin with the first element.
LoopsFrom1(n, X, first, step) ==
  { g \in [1 .. n -> X] : g[1] = first /\ \A k \in 2 .. n : g[k] = step[k][g[k - 1]] }

LEMMA LoopFrom1Runs ==
  ASSUME NEW n \in Nat, n # 0, NEW X, NEW first \in X, NEW step \in [1 .. n -> [X -> X]]
  PROVE  \E g : g \in LoopsFrom1(n, X, first, step)
<1> DEFINE next == [k \in 1 .. n - 1 |-> step[k + 1]]
<1>1. next \in [1 .. n - 1 -> [X -> X]] /\ n - 1 \in Nat
  OBVIOUS
<1>2. \A k \in 2 .. n : k - 1 \in 1 .. n - 1 /\ next[k - 1] = step[k]
  OBVIOUS
<1> HIDE DEF next
<1>3. PICK h : h \in Loops(n - 1, X, first, next)
  BY <1>1, LoopRuns
<1>4. h \in [0 .. n - 1 -> X] /\ h[0] = first /\ \A k \in 1 .. n - 1 : h[k] = next[k][h[k - 1]]
  BY <1>3 DEF Loops
<1> DEFINE g == [k \in 1 .. n |-> h[k - 1]]
<1>5. g \in [1 .. n -> X] /\ g[1] = first
  BY <1>4
<1>6. ASSUME NEW k \in 2 .. n  PROVE g[k] = step[k][g[k - 1]]
  <2>1. g[k] = h[k - 1] /\ g[k - 1] = h[(k - 1) - 1] /\ h[k - 1] = next[k - 1][h[(k - 1) - 1]]
    BY <1>2, <1>4
  <2> QED  BY <1>2, <2>1
<1>7. g \in LoopsFrom1(n, X, first, step)
  <2> HIDE DEF g
  <2> QED  BY <1>5, <1>6 DEF LoopsFrom1
<1> QED  BY <1>7

LEMMA LoopFrom1Unique ==
  ASSUME NEW n \in Nat, n # 0, NEW X, NEW first, NEW step, NEW g \in LoopsFrom1(n, X, first, step), NEW up,
         up[1] = first, \A k \in 2 .. n : up[k - 1] \in X => up[k] = step[k][up[k - 1]]
  PROVE  up[n] = g[n]
<1> DEFINE T == { k \in 0 .. n : k = 0 \/ up[k] = g[k] }
<1>1. g \in [1 .. n -> X] /\ g[1] = first /\ \A k \in 2 .. n : g[k] = step[k][g[k - 1]]
  BY DEF LoopsFrom1
<1>2. 0 \in T
  OBVIOUS
<1>3. ASSUME NEW k \in 1 .. n, k - 1 \in T  PROVE k \in T
  <2>1. CASE k = 1
    BY <1>1, <2>1
  <2>2. CASE k # 1
    <3>1. k \in 2 .. n /\ k - 1 \in 1 .. n /\ up[k - 1] = g[k - 1]
      BY <1>3, <2>2
    <3> QED  BY <1>1, <3>1
  <2> QED  BY <2>1, <2>2
<1>4. \A k \in 0 .. n : k \in T
  <2> HIDE DEF T
  <2> QED  BY <1>2, <1>3, InductionTo
<1> QED  BY <1>4

\* The lines of a Word document.
LEMMA BesideCellIs ==
  ASSUME NEW a \in Seq(TextLines), NEW b \in Seq(TextLines)
  PROVE  BesideCell(a, b) \in Seq(TextLines)
<1>1. Prosaic("prose") \in TextLines
  BY DEF Prosaic, TextLines, Prose, Marks
<1>2. <<Prosaic("prose")>> \in Seq(TextLines)
  BY <1>1
<1>3. a # <<>> => Front(a) \in Seq(TextLines)
  <2> SUFFICES ASSUME a # <<>>  PROVE SubSeq(a, 1, Len(a) - 1) \in Seq(TextLines)
    BY DEF Front
  <2>1. Len(a) \in Nat /\ \A i \in 1 .. Len(a) - 1 : a[i] \in TextLines
    OBVIOUS
  <2> QED  BY <2>1, SubSeqProperties
<1>4. b # <<>> => Tail(b) \in Seq(TextLines)
  OBVIOUS
<1> DEFINE x == IF a = <<>> THEN a ELSE Front(a)
           y == <<Prosaic("prose")>>
           z == IF b = <<>> THEN b ELSE Tail(b)
<1>5. x \in Seq(TextLines) /\ y \in Seq(TextLines) /\ z \in Seq(TextLines)
  BY <1>2, <1>3, <1>4
<1>6. BesideCell(a, b) = IF a = <<>> /\ b = <<>> THEN y ELSE (x \o y) \o z
  BY DEF BesideCell
<1> HIDE DEF x, y, z
<1> QED  BY <1>5, <1>6

LEMMA BlockLinesIs ==
  ASSUME NEW b \in Blocks
  PROVE  BlockLines(b) \in Seq(TextLines)
<1>1. b.styled \in BOOLEAN /\ b.cells \in Seq(Seq(TextLines)) /\ b.text \in Seq(TextLines)
  BY DEF Blocks
<1>2. CASE b.cells = <<>> /\ ~(b.styled /\ b.text # <<>>)
  BY <1>1, <1>2 DEF BlockLines
<1>3. CASE b.cells = <<>> /\ b.styled /\ b.text # <<>>
  <2> DEFINE t == b.text
  <2>1. t[1] \in TextLines /\ DOMAIN t = 1 .. Len(t) /\ Len(t) \in Nat /\ t \in Seq(TextLines)
    BY <1>1, <1>3
  <2> DEFINE l == [t[1] EXCEPT !.mark = "styled"]
  <2>2. l \in TextLines
    BY <2>1 DEF TextLines, Marks
  <2>3. BlockLines(b) = [t EXCEPT ![1] = l]
    BY <1>3 DEF BlockLines
  <2>4. [t EXCEPT ![1] = l] \in Seq(TextLines)
    <3>1. 1 \in 1 .. Len(t)
      BY <2>1, <1>3
    <3> HIDE DEF t, l
    <3> QED  BY <2>1, <2>2, <3>1, ExceptSeq
  <2> QED  BY <2>3, <2>4
<1>4. CASE b.cells # <<>>
  <2> DEFINE cs == b.cells
             n == Len(cs)
             X == Seq(TextLines)
             Body(f) == [k \in DOMAIN cs |-> IF k = 1 THEN cs[1] ELSE BesideCell(f[k - 1], cs[k])]
             up == CHOOSE f : f = Body(f)
             step == [k \in 1 .. n |-> [s \in X |-> BesideCell(s, cs[k])]]
  <2>1. n \in Nat /\ n # 0 /\ DOMAIN cs = 1 .. n /\ \A k \in 1 .. n : cs[k] \in X
    BY <1>1, <1>4
  <2>2. BlockLines(b) = IF \A k \in DOMAIN cs : cs[k] = <<>> THEN <<>> ELSE up[n]
    BY <1>4 DEF BlockLines
  <2> HIDE DEF n, cs
  <2>3. /\ step \in [1 .. n -> [X -> X]]
        /\ \A k \in 1 .. n, s \in X : step[k][s] = BesideCell(s, cs[k])
    BY <2>1, BesideCellIs
  <2> HIDE DEF X, step
  <2>4. PICK g : g \in LoopsFrom1(n, X, cs[1], step)
    <3>1. cs[1] \in X
      BY <2>1
    <3> QED  BY <2>1, <2>3, <3>1, LoopFrom1Runs
  <2>5. g \in [1 .. n -> X] /\ g[1] = cs[1] /\ \A k \in 2 .. n : g[k] = step[k][g[k - 1]]
    BY <2>4 DEF LoopsFrom1
  <2>6. g = Body(g)
    <3>1. \A k \in 2 .. n : k - 1 \in 1 .. n /\ k \in 1 .. n
      BY <2>1
    <3>2. \A k \in 2 .. n : g[k] = BesideCell(g[k - 1], cs[k])
      BY <2>3, <2>5, <3>1
    <3>3. \A k \in 1 .. n : k = 1 \/ k \in 2 .. n
      BY <2>1
    <3> QED  BY <2>1, <2>5, <3>2, <3>3
  <2>7. up = Body(up)
    <3> HIDE DEF Body
    <3> QED  BY <2>6
  <2>8. up[n] = g[n]
    <3> HIDE DEF up
    <3>1. up[1] = cs[1]
      BY <2>1, <2>7
    <3>2. ASSUME NEW k \in 2 .. n, up[k - 1] \in X  PROVE up[k] = step[k][up[k - 1]]
      <4>1. k \in 1 .. n /\ k # 1
        BY <2>1
      <4>2. up[k] = BesideCell(up[k - 1], cs[k])
        BY <2>1, <2>7, <4>1
      <4> QED  BY <2>3, <3>2, <4>1, <4>2
    <3> QED  BY <2>1, <2>4, <3>1, <3>2, LoopFrom1Unique
  <2>9. g[n] \in X
    BY <2>1, <2>5
  <2> QED  BY <2>2, <2>8, <2>9 DEF X
<1> QED  BY <1>2, <1>3, <1>4

LEMMA DocxLinesIs ==
  ASSUME NEW blocks \in Seq(Blocks)
  PROVE  DocxLines(blocks) \in Seq(TextLines)
<1> DEFINE cs == [k \in DOMAIN blocks |-> BlockLines(blocks[k])]
           n == Len(cs)
           X == Seq(TextLines)
           Body(f) == [i \in 1 .. Len(cs) |-> IF i = 1 THEN cs[i] ELSE f[i - 1] \o cs[i]]
           up == CHOOSE f : f = Body(f)
           step == [k \in 1 .. n |-> [s \in X |-> s \o cs[k]]]
<1>0. DOMAIN blocks = 1 .. Len(blocks) /\ Len(blocks) \in Nat /\ \A k \in DOMAIN blocks : blocks[k] \in Blocks
  OBVIOUS
<1>1. n \in Nat /\ DOMAIN cs = 1 .. n /\ \A k \in 1 .. n : cs[k] \in X
  <2>1. \A k \in DOMAIN blocks : BlockLines(blocks[k]) \in X
    BY <1>0, BlockLinesIs
  <2>2. cs \in Seq(X)
    <3> HIDE DEF X
    <3> QED  BY <1>0, <2>1
  <2> HIDE DEF cs, X
  <2> QED  BY <2>2
<1>2. DocxLines(blocks) = IF n = 0 THEN cs ELSE up[n]
  BY DEF DocxLines, FlattenSeq
<1>3. CASE n = 0
  <2>1. 1 \notin DOMAIN blocks
    BY <1>1, <1>3
  <2>2. blocks = <<>>
    <3> HIDE DEF n, cs
    <3>1. Len(blocks) = 0
      BY <1>0, <2>1
    <3> QED  BY <3>1
  <2>3. cs = <<>>
    BY <2>2
  <2>4. DocxLines(blocks) = cs
    BY <1>2, <1>3
  <2> QED  BY <2>3, <2>4
<1>4. CASE n # 0
  <2> HIDE DEF n, cs
  <2>3. /\ step \in [1 .. n -> [X -> X]]
        /\ \A k \in 1 .. n, s \in X : step[k][s] = s \o cs[k]
    BY <1>1
  <2> HIDE DEF X, step
  <2>4. PICK g : g \in LoopsFrom1(n, X, cs[1], step)
    <3>1. cs[1] \in X
      BY <1>1, <1>4
    <3> QED  BY <1>1, <1>4, <2>3, <3>1, LoopFrom1Runs
  <2>5. g \in [1 .. n -> X] /\ g[1] = cs[1] /\ \A k \in 2 .. n : g[k] = step[k][g[k - 1]]
    BY <2>4 DEF LoopsFrom1
  <2>6. g = Body(g)
    <3>1. \A k \in 2 .. n : k - 1 \in 1 .. n /\ k \in 1 .. n
      BY <1>1
    <3>2. \A k \in 2 .. n : g[k] = g[k - 1] \o cs[k]
      BY <2>3, <2>5, <3>1
    <3>3. \A k \in 1 .. n : k = 1 \/ k \in 2 .. n
      BY <1>1
    <3> QED  BY <1>1, <2>5, <3>2, <3>3 DEF n
  <2>7. up = Body(up)
    <3> HIDE DEF Body
    <3> QED  BY <2>6
  <2>8. up[n] = g[n]
    <3> HIDE DEF up
    <3>1. up[1] = cs[1]
      BY <1>1, <1>4, <2>7 DEF n
    <3>2. ASSUME NEW k \in 2 .. n, up[k - 1] \in X  PROVE up[k] = step[k][up[k - 1]]
      <4>1. k \in 1 .. n /\ k # 1
        BY <1>1
      <4>2. up[k] = up[k - 1] \o cs[k]
        BY <1>1, <2>7, <4>1 DEF n
      <4> QED  BY <2>3, <3>2, <4>1, <4>2
    <3> QED  BY <1>1, <1>4, <2>4, <3>1, <3>2, LoopFrom1Unique
  <2>9. g[n] \in X
    BY <1>1, <1>4, <2>5
  <2> QED  BY <1>2, <1>4, <2>8, <2>9 DEF X
<1> QED  BY <1>3, <1>4
-------------------------------------------------------------------------------
\* Pieces of a text that lie side by side.
LEMMA SliceIs ==
  ASSUME NEW S, NEW t \in Seq(S), NEW a \in Nat, NEW b \in Nat, a <= b, b <= Len(t)
  PROVE  /\ Slice(t, a, b) \in Seq(S) /\ Len(Slice(t, a, b)) = b - a
         /\ \A i \in 1 .. b - a : Slice(t, a, b)[i] = t[a + i]
<1>1. \A i \in a + 1 .. b : t[i] \in S
  OBVIOUS
<1>2. a + 1 \in Int /\ b \in Int /\ b - (a + 1) + 1 = b - a /\ (IF a + 1 <= b THEN b - (a + 1) + 1 ELSE 0) = b - a
  OBVIOUS
<1>3. /\ SubSeq(t, a + 1, b) \in Seq(S)
      /\ Len(SubSeq(t, a + 1, b)) = IF a + 1 <= b THEN b - (a + 1) + 1 ELSE 0
      /\ \A i \in 1 .. b - (a + 1) + 1 : SubSeq(t, a + 1, b)[i] = t[(a + 1) + i - 1]
  BY <1>1, <1>2, SubSeqProperties
<1>4. \A i \in 1 .. b - a : (a + 1) + i - 1 = a + i
  OBVIOUS
<1> QED  BY <1>2, <1>3, <1>4 DEF Slice

LEMMA SlicesJoin ==
  ASSUME NEW S, NEW t \in Seq(S), NEW a \in Nat, NEW b \in Nat, NEW c \in Nat,
         a <= b, b <= c, c <= Len(t)
  PROVE  Slice(t, a, b) \o Slice(t, b, c) = Slice(t, a, c)
<1> DEFINE x == Slice(t, a, b)
           y == Slice(t, b, c)
           z == Slice(t, a, c)
<1>1. /\ x \in Seq(S) /\ Len(x) = b - a /\ \A i \in 1 .. b - a : x[i] = t[a + i]
      /\ y \in Seq(S) /\ Len(y) = c - b /\ \A i \in 1 .. c - b : y[i] = t[b + i]
      /\ z \in Seq(S) /\ Len(z) = c - a /\ \A i \in 1 .. c - a : z[i] = t[a + i]
  <2>1. a <= c /\ b <= Len(t) /\ Len(t) \in Nat
    OBVIOUS
  <2>2. x \in Seq(S) /\ Len(x) = b - a /\ \A i \in 1 .. b - a : x[i] = t[a + i]
    BY <2>1, SliceIs, Zenon
  <2>3. y \in Seq(S) /\ Len(y) = c - b /\ \A i \in 1 .. c - b : y[i] = t[b + i]
    BY SliceIs, Zenon
  <2>4. z \in Seq(S) /\ Len(z) = c - a /\ \A i \in 1 .. c - a : z[i] = t[a + i]
    BY <2>1, SliceIs, Zenon
  <2> QED  BY <2>2, <2>3, <2>4
<1> HIDE DEF x, y, z
<1>2. /\ x \o y \in Seq(S) /\ Len(x \o y) = c - a
      /\ \A i \in 1 .. c - a : (x \o y)[i] = IF i <= b - a THEN x[i] ELSE y[i - (b - a)]
  <2>1. /\ x \o y \in Seq(S) /\ Len(x \o y) = Len(x) + Len(y)
        /\ \A i \in 1 .. Len(x) + Len(y) : (x \o y)[i] = IF i <= Len(x) THEN x[i] ELSE y[i - Len(x)]
    BY <1>1, ConcatProperties
  <2>2. (b - a) + (c - b) = c - a
    OBVIOUS
  <2> QED  BY <1>1, <2>1, <2>2
<1>3. ASSUME NEW i \in 1 .. c - a  PROVE (x \o y)[i] = z[i]
  <2>1. CASE i <= b - a
    <3>1. i \in 1 .. b - a
      BY <2>1
    <3> QED  BY <1>1, <1>2, <2>1, <3>1
  <2>2. CASE ~(i <= b - a)
    <3>1. i - (b - a) \in 1 .. c - b /\ b + (i - (b - a)) = a + i
      BY <2>2
    <3> QED  BY <1>1, <1>2, <2>2, <3>1
  <2> QED  BY <2>1, <2>2
<1>4. x \o y = z
  BY <1>1, <1>2, <1>3, SeqEqual
<1> QED  BY <1>4 DEF x, y, z

LEMMA SliceAll ==
  ASSUME NEW S, NEW t \in Seq(S)
  PROVE  Slice(t, 0, 0) = <<>> /\ Slice(t, 0, Len(t)) = t
<1>1. /\ Slice(t, 0, 0) \in Seq(S) /\ Len(Slice(t, 0, 0)) = 0
      /\ Slice(t, 0, Len(t)) \in Seq(S) /\ Len(Slice(t, 0, Len(t))) = Len(t)
      /\ \A i \in 1 .. Len(t) : Slice(t, 0, Len(t))[i] = t[i]
  <2>1. Len(t) \in Nat /\ 0 <= Len(t) /\ Len(t) - 0 = Len(t) /\ \A i \in 1 .. Len(t) : 0 + i = i
    OBVIOUS
  <2>2. 0 \in Nat /\ 0 <= 0
    OBVIOUS
  <2>3. Slice(t, 0, 0) \in Seq(S) /\ Len(Slice(t, 0, 0)) = 0 - 0
    BY <2>1, <2>2, SliceIs, Zenon
  <2>4. Len(t) <= Len(t)
    BY <2>1
  <2>5. /\ Slice(t, 0, Len(t)) \in Seq(S) /\ Len(Slice(t, 0, Len(t))) = Len(t) - 0
        /\ \A i \in 1 .. Len(t) - 0 : Slice(t, 0, Len(t))[i] = t[0 + i]
    BY <2>1, <2>2, <2>4, SliceIs, Zenon
  <2> QED  BY <2>1, <2>3, <2>5
<1>2. Slice(t, 0, Len(t)) = t
  BY <1>1, SeqEqual
<1>3. Slice(t, 0, 0) = <<>>
  BY <1>1
<1> QED  BY <1>2, <1>3
-------------------------------------------------------------------------------
\* Marks of the findings 1 .. n in a text: not empty, inside it and apart.
MarkOf(n) == [start : Nat, end : Nat, idx : 1 .. n]
SideBySide(m, o) == m.end <= o.start \/ o.end <= m.start
MarkSets(txt, n) ==
  { ms \in SUBSET MarkOf(n) :
      /\ IsFiniteSet(ms)
      /\ \A m \in ms : m.start < m.end /\ m.end <= Len(txt)
      /\ \A m, o \in ms : m # o => SideBySide(m, o) }

\* A quote is marked under its finding, or every place it has is taken.
Served(txt, ms, idx, q) ==
  \/ \E m \in ms : m.idx = idx /\ Slice(txt, m.start, m.end) = q
  \/ \A a \in Occurrences(txt, q) : \E m \in ms : a < m.end /\ m.start < a + Len(q)

LEMMA ServedStays ==
  ASSUME NEW txt, NEW ms, NEW more, ms \subseteq more, NEW idx, NEW q, Served(txt, ms, idx, q)
  PROVE  Served(txt, more, idx, q)
BY DEF Served

LEMMA PlacedIs ==
  ASSUME NEW txt \in Seq(TextLines), NEW n, NEW ms \in MarkSets(txt, n),
         NEW idx \in 1 .. n, NEW q \in Quotes
  PROVE  /\ Placed(ms, txt, idx, q) \in MarkSets(txt, n)
         /\ ms \subseteq Placed(ms, txt, idx, q)
         /\ Served(txt, Placed(ms, txt, idx, q), idx, q)
<1> DEFINE free == { a \in Occurrences(txt, q) : \A m \in ms : ~Overlaps(a, a + Len(q), m) }
           a == Min(free)
           new == [start |-> a, end |-> a + Len(q), idx |-> idx]
<1>1. Len(q) \in Nat /\ Len(q) > 0 /\ Len(txt) \in Nat
  BY DEF Quotes
<1>2. /\ ms \in SUBSET MarkOf(n) /\ IsFiniteSet(ms)
      /\ \A m \in ms : m.start < m.end /\ m.end <= Len(txt)
      /\ \A m, o \in ms : m # o => SideBySide(m, o)
  BY DEF MarkSets
<1>3. free \in SUBSET (0 .. Len(txt) - Len(q)) /\ free \in SUBSET Nat
  BY <1>1 DEF Occurrences
<1>4. CASE free = {}
  <2>1. Placed(ms, txt, idx, q) = ms
    BY <1>4 DEF Placed
  <2>2. \A b \in Occurrences(txt, q) : \E m \in ms : Overlaps(b, b + Len(q), m)
    BY <1>4
  <2>3. \A b \in Occurrences(txt, q) : \E m \in ms : b < m.end /\ m.start < b + Len(q)
    <3> SUFFICES ASSUME NEW b \in Occurrences(txt, q)  PROVE \E m \in ms : b < m.end /\ m.start < b + Len(q)
      OBVIOUS
    <3>1. PICK m \in ms : Overlaps(b, b + Len(q), m)
      BY <2>2
    <3>2. b \in Nat /\ m.start \in Nat
      BY <1>1, <1>2 DEF Occurrences, MarkOf
    <3> QED  BY <1>1, <3>1, <3>2 DEF Overlaps
  <2> QED  BY <2>1, <2>3 DEF Served
<1>5. CASE free # {}
  <2>1. a \in free
    <3>1. \E m \in free : \A k \in free : m <= k
      BY <1>3, <1>5, LeastNumber
    <3> HIDE DEF free
    <3> QED  BY <3>1 DEF Min
  <2>2. Placed(ms, txt, idx, q) = ms \cup {new}
    BY <1>5 DEF Placed
  <2>3. /\ a \in Nat /\ a + Len(q) <= Len(txt) /\ Slice(txt, a, a + Len(q)) = q
        /\ \A m \in ms : ~Overlaps(a, a + Len(q), m)
    BY <1>1, <2>1 DEF Occurrences
  <2> HIDE DEF a
  <2>4. new \in MarkOf(n) /\ new.start < new.end /\ new.end <= Len(txt) /\ new.idx = idx
        /\ Slice(txt, new.start, new.end) = q
    BY <1>1, <2>3 DEF MarkOf
  <2>5. \A m \in ms : SideBySide(m, new) /\ SideBySide(new, m)
    <3> SUFFICES ASSUME NEW m \in ms  PROVE m.end <= new.start \/ new.end <= m.start
      BY DEF SideBySide
    <3>1. m.start \in Nat /\ m.end \in Nat /\ ~(a < m.end /\ a + Len(q) > m.start)
      BY <1>2, <2>3 DEF MarkOf, Overlaps
    <3> QED  BY <1>1, <2>3, <3>1
  <2> HIDE DEF new
  <2>6. IsFiniteSet(ms \cup {new})
    BY <1>2, FS_AddElement
  <2>7. ms \cup {new} \in MarkSets(txt, n)
    BY <1>2, <2>4, <2>5, <2>6 DEF MarkSets
  <2>8. Served(txt, ms \cup {new}, idx, q)
    BY <2>4 DEF Served
  <2> QED  BY <2>2, <2>7, <2>8
<1> QED  BY <1>4, <1>5

\* The quotes of one finding.
LEMMA QuotesPlacedIs ==
  ASSUME NEW txt \in Seq(TextLines), NEW n, NEW ms \in MarkSets(txt, n),
         NEW idx \in 1 .. n, NEW quotes \in Seq(Quotes)
  PROVE  /\ QuotesPlaced(ms, txt, idx, quotes) \in MarkSets(txt, n)
         /\ ms \subseteq QuotesPlaced(ms, txt, idx, quotes)
         /\ \A q \in ToSet(quotes) : Served(txt, QuotesPlaced(ms, txt, idx, quotes), idx, q)
<1> DEFINE len == Len(quotes)
           X == MarkSets(txt, n)
           Turn(k, s) == Placed(s, txt, idx, quotes[k])
           step == [k \in 1 .. len |-> [s \in X |-> Turn(k, s)]]
           Body(f) == [k \in 0 .. len |-> IF k = 0 THEN ms ELSE Turn(k, f[k - 1])]
           up == CHOOSE f : f = Body(f)
<1>1. len \in Nat /\ DOMAIN quotes = 1 .. len /\ \A k \in 1 .. len : quotes[k] \in Quotes
  OBVIOUS
<1>2. QuotesPlaced(ms, txt, idx, quotes) = up[len]
  BY DEF QuotesPlaced
<1>3. \A k \in 1 .. len, s \in X :
        Turn(k, s) \in X /\ s \subseteq Turn(k, s) /\ Served(txt, Turn(k, s), idx, quotes[k])
  BY <1>1, PlacedIs
<1> HIDE DEF len, X, Turn
<1>4. /\ step \in [1 .. len -> [X -> X]]
      /\ \A k \in 1 .. len, s \in X : step[k][s] = Turn(k, s)
  BY <1>3
<1> HIDE DEF step
<1>5. PICK g : g \in Loops(len, X, ms, step)
  <2>1. ms \in X
    BY DEF X
  <2> QED  BY <1>1, <1>4, <2>1, LoopRuns
<1>6. g \in [0 .. len -> X] /\ g[0] = ms /\ \A k \in 1 .. len : g[k] = Turn(k, g[k - 1])
  <2>1. g \in [0 .. len -> X] /\ g[0] = ms /\ \A k \in 1 .. len : g[k] = step[k][g[k - 1]]
    BY <1>5 DEF Loops
  <2>2. \A k \in 1 .. len : g[k - 1] \in X
    BY <1>1, <2>1
  <2> QED  BY <1>4, <2>1, <2>2
<1>7. g = Body(g)
  <2>1. \A k \in 0 .. len : k = 0 \/ k \in 1 .. len
    BY <1>1
  <2> QED  BY <1>6, <2>1
<1>8. up = Body(up)
  <2> HIDE DEF Body
  <2> QED  BY <1>7
<1>9. up[len] = g[len]
  <2> HIDE DEF up
  <2>1. up[0] = ms /\ \A k \in 1 .. len : up[k - 1] \in X => up[k] = step[k][up[k - 1]]
    BY <1>1, <1>4, <1>8
  <2> QED  BY <1>1, <1>5, <2>1, LoopUnique
<1> DEFINE T == { k \in 0 .. len : ms \subseteq g[k] /\ \A j \in 1 .. k : Served(txt, g[k], idx, quotes[j]) }
<1>10. 0 \in T
  BY <1>1, <1>6
<1>11. ASSUME NEW k \in 1 .. len, k - 1 \in T  PROVE k \in T
  <2>1. k \in 0 .. len /\ k - 1 \in 0 .. len /\ g[k - 1] \in X /\ g[k] = Turn(k, g[k - 1])
    BY <1>1, <1>6
  <2>2. g[k - 1] \subseteq g[k] /\ Served(txt, g[k], idx, quotes[k])
    BY <1>3, <2>1
  <2>3. ms \subseteq g[k - 1] /\ \A j \in 1 .. k - 1 : Served(txt, g[k - 1], idx, quotes[j])
    BY <1>11
  <2>4. \A j \in 1 .. k - 1 : Served(txt, g[k], idx, quotes[j])
    BY <2>2, <2>3, ServedStays
  <2>5. \A j \in 1 .. k : j = k \/ j \in 1 .. k - 1
    OBVIOUS
  <2> QED  BY <2>1, <2>2, <2>3, <2>4, <2>5
<1>12. len \in T
  <2> HIDE DEF T
  <2>1. \A k \in 0 .. len : k \in T
    BY <1>1, <1>10, <1>11, InductionTo
  <2> QED  BY <1>1, <2>1
<1>13. g[len] \in X
  BY <1>1, <1>6
<1>14. \A q \in ToSet(quotes) : \E j \in 1 .. len : q = quotes[j]
  BY <1>1 DEF ToSet
<1>15. ms \subseteq g[len] /\ \A q \in ToSet(quotes) : Served(txt, g[len], idx, q)
  BY <1>12, <1>14
<1> QED  BY <1>2, <1>9, <1>13, <1>15 DEF X

\* .. and of all findings.
LEMMA AllMarksIs ==
  ASSUME NEW txt \in Seq(TextLines), NEW quotesOf \in Seq(Seq(Quotes))
  PROVE  /\ AllMarks(txt, quotesOf) \in MarkSets(txt, Len(quotesOf))
         /\ \A n \in 1 .. Len(quotesOf) : \A q \in ToSet(quotesOf[n]) :
              Served(txt, AllMarks(txt, quotesOf), n, q)
<1> DEFINE len == Len(quotesOf)
           base == {}
           X == MarkSets(txt, len)
           Turn(k, s) == QuotesPlaced(s, txt, k, quotesOf[k])
           step == [k \in 1 .. len |-> [s \in X |-> Turn(k, s)]]
           Body(f) == [k \in 0 .. len |-> IF k = 0 THEN base ELSE Turn(k, f[k - 1])]
           up == CHOOSE f : f = Body(f)
<1>1. len \in Nat /\ DOMAIN quotesOf = 1 .. len /\ \A k \in 1 .. len : quotesOf[k] \in Seq(Quotes)
  OBVIOUS
<1>2. AllMarks(txt, quotesOf) = up[len]
  BY DEF AllMarks
<1>0. base \in X
  BY FS_EmptySet DEF MarkSets
<1>14. len \in Nat
  BY <1>1
<1> HIDE DEF len
<1>3. \A k \in 1 .. len, s \in X :
        /\ Turn(k, s) \in X /\ s \subseteq Turn(k, s)
        /\ \A q \in ToSet(quotesOf[k]) : Served(txt, Turn(k, s), k, q)
  <2> SUFFICES ASSUME NEW k \in 1 .. len, NEW s \in MarkSets(txt, len)
               PROVE  /\ Turn(k, s) \in MarkSets(txt, len) /\ s \subseteq Turn(k, s)
                      /\ \A q \in ToSet(quotesOf[k]) : Served(txt, Turn(k, s), k, q)
    OBVIOUS
  <2> QED  BY <1>1, QuotesPlacedIs, Zenon
<1> HIDE DEF X, Turn, base
<1>4. /\ step \in [1 .. len -> [X -> X]]
      /\ \A k \in 1 .. len, s \in X : step[k][s] = Turn(k, s)
  BY <1>3
<1> HIDE DEF step
<1>5. PICK g : g \in Loops(len, X, base, step)
  BY <1>0, <1>1, <1>4, LoopRuns
<1>6. g \in [0 .. len -> X] /\ g[0] = base /\ \A k \in 1 .. len : g[k] = Turn(k, g[k - 1])
  <2>1. g \in [0 .. len -> X] /\ g[0] = base /\ \A k \in 1 .. len : g[k] = step[k][g[k - 1]]
    BY <1>5 DEF Loops
  <2>2. \A k \in 1 .. len : g[k - 1] \in X
    BY <1>14, <2>1
  <2> QED  BY <1>4, <2>1, <2>2
<1>7. g = Body(g)
  <2>1. \A k \in 0 .. len : k = 0 \/ k \in 1 .. len
    BY <1>1
  <2> QED  BY <1>6, <2>1
<1>8. up = Body(up)
  <2> HIDE DEF Body
  <2> QED  BY <1>7
<1>9. up[len] = g[len]
  <2> HIDE DEF up
  <2>1. up[0] = base /\ \A k \in 1 .. len : up[k - 1] \in X => up[k] = step[k][up[k - 1]]
    BY <1>14, <1>4, <1>8
  <2> QED  BY <1>14, <1>5, <2>1, LoopUnique
<1> DEFINE T == { k \in 0 .. len : \A n \in 1 .. k : \A q \in ToSet(quotesOf[n]) : Served(txt, g[k], n, q) }
<1>10. 0 \in T
  BY <1>1
<1>11. ASSUME NEW k \in 1 .. len, k - 1 \in T  PROVE k \in T
  <2>1. k \in 0 .. len /\ k - 1 \in 0 .. len /\ g[k - 1] \in X /\ g[k] = Turn(k, g[k - 1])
    BY <1>1, <1>6
  <2>2. g[k - 1] \subseteq g[k] /\ \A q \in ToSet(quotesOf[k]) : Served(txt, g[k], k, q)
    BY <1>3, <2>1
  <2>3. \A n \in 1 .. k - 1 : \A q \in ToSet(quotesOf[n]) : Served(txt, g[k - 1], n, q)
    BY <1>11
  <2>4. \A n \in 1 .. k - 1 : \A q \in ToSet(quotesOf[n]) : Served(txt, g[k], n, q)
    BY <2>2, <2>3, ServedStays
  <2>5. \A n \in 1 .. k : n = k \/ n \in 1 .. k - 1
    OBVIOUS
  <2> QED  BY <2>1, <2>2, <2>4, <2>5
<1>12. len \in T
  <2> HIDE DEF T
  <2>1. \A k \in 0 .. len : k \in T
    BY <1>1, <1>10, <1>11, InductionTo
  <2> QED  BY <1>1, <2>1
<1>13. g[len] \in X
  BY <1>1, <1>6
<1> QED  BY <1>2, <1>9, <1>12, <1>13 DEF X, len

\* The marks go from left to right.
LEMMA LeftmostIs ==
  ASSUME NEW n, NEW left \in SUBSET MarkOf(n), left # {}
  PROVE  Leftmost(left) \in left /\ \A m \in left : Leftmost(left).start <= m.start
<1> DEFINE starts == { m.start : m \in left }
<1>1. starts \in SUBSET Nat /\ starts # {}
  BY DEF MarkOf
<1>2. \E m \in starts : \A k \in starts : m <= k
  <2> HIDE DEF starts
  <2> QED  BY <1>1, LeastNumber
<1>3. \E m \in left : \A k \in left : m.start <= k.start
  BY <1>2
<1> QED  BY <1>3 DEF Leftmost

\* What is written out so far is the text up to pos, and the marks left are beyond.
WrittenSet(txt, ms) ==
  { acc \in [out : Seq(TextLines), pos : 0 .. Len(txt), left : SUBSET ms] :
      /\ acc.out = Slice(txt, 0, acc.pos)
      /\ \A m \in acc.left : acc.pos <= m.start }

LEMMA BeyondIs ==
  ASSUME NEW txt \in Seq(TextLines), NEW n, NEW ms \in MarkSets(txt, n),
         NEW acc \in WrittenSet(txt, ms), acc.left # {}
  PROVE  /\ Beyond(txt, acc, Leftmost(acc.left)) \in WrittenSet(txt, ms)
         /\ Beyond(txt, acc, Leftmost(acc.left)).left = acc.left \ {Leftmost(acc.left)}
         /\ Leftmost(acc.left) \in acc.left
<1> DEFINE m == Leftmost(acc.left)
           new == Beyond(txt, acc, m)
<1>1. /\ ms \in SUBSET MarkOf(n)
      /\ \A o \in ms : o.start < o.end /\ o.end <= Len(txt) /\ o.start \in Nat /\ o.end \in Nat
      /\ \A o, p \in ms : o # p => SideBySide(o, p)
  BY DEF MarkSets, MarkOf
<1>2. /\ acc.out \in Seq(TextLines) /\ acc.pos \in 0 .. Len(txt) /\ acc.left \in SUBSET ms
      /\ acc.out = Slice(txt, 0, acc.pos) /\ \A o \in acc.left : acc.pos <= o.start
  BY DEF WrittenSet
<1>3. m \in acc.left /\ \A o \in acc.left : m.start <= o.start
  <2>1. acc.left \in SUBSET MarkOf(n)
    BY <1>1, <1>2
  <2> QED  BY <2>1, LeftmostIs
<1>4. new = [out  |-> acc.out \o Slice(txt, acc.pos, m.start) \o Slice(txt, m.start, m.end),
             pos  |-> m.end, left |-> acc.left \ {m}]
  BY DEF Beyond
<1> HIDE DEF m, new
<1>5. /\ Len(txt) \in Nat /\ acc.pos \in Nat /\ m.start \in Nat /\ m.end \in Nat
      /\ acc.pos <= m.start /\ m.start <= m.end /\ m.end <= Len(txt) /\ m.start <= Len(txt)
  BY <1>1, <1>2, <1>3
<1>6. (Slice(txt, 0, acc.pos) \o Slice(txt, acc.pos, m.start)) \o Slice(txt, m.start, m.end) = Slice(txt, 0, m.end)
  <2>1. 0 \in Nat /\ 0 <= acc.pos /\ 0 <= m.start
    BY <1>5
  <2>2. Slice(txt, 0, acc.pos) \o Slice(txt, acc.pos, m.start) = Slice(txt, 0, m.start)
    BY <1>5, <2>1, SlicesJoin
  <2>3. Slice(txt, 0, m.start) \o Slice(txt, m.start, m.end) = Slice(txt, 0, m.end)
    BY <1>5, <2>1, SlicesJoin
  <2> QED  BY <2>2, <2>3
<1>7. new.out = Slice(txt, 0, m.end) /\ new.pos = m.end /\ new.left = acc.left \ {m}
  BY <1>2, <1>4, <1>6
<1>8. Slice(txt, 0, m.end) \in Seq(TextLines)
  <2>1. 0 \in Nat /\ 0 <= m.end
    BY <1>5
  <2> QED  BY <1>5, <2>1, SliceIs
<1>9. ASSUME NEW o \in acc.left \ {m}  PROVE m.end <= o.start
  <2>1. SideBySide(m, o) /\ m.start <= o.start /\ o.start < o.end /\ o.start \in Nat /\ o.end \in Nat
    BY <1>1, <1>2, <1>3, <1>9
  <2> QED  BY <1>5, <2>1 DEF SideBySide
<1>10. new \in WrittenSet(txt, ms)
  <2>1. new \in [out : Seq(TextLines), pos : 0 .. Len(txt), left : SUBSET ms]
    <3>1. new = [out |-> Slice(txt, 0, m.end), pos |-> m.end, left |-> acc.left \ {m}]
      BY <1>2, <1>4, <1>6
    <3>2. m.end \in 0 .. Len(txt) /\ acc.left \ {m} \in SUBSET ms
      BY <1>2, <1>5
    <3> QED  BY <1>8, <3>1, <3>2
  <2> QED  BY <1>7, <1>9, <2>1 DEF WrittenSet
<1> QED  BY <1>3, <1>7, <1>10 DEF m, new

\* The source written out with the marks is the source.
LEMMA RenderedIs ==
  ASSUME NEW txt \in Seq(TextLines), NEW n, NEW ms \in MarkSets(txt, n)
  PROVE  Rendered(txt, ms) = txt
<1> DEFINE card == Cardinality(ms)
           X == WrittenSet(txt, ms)
           first == [out |-> <<>>, pos |-> 0, left |-> ms]
           Turn(acc) == Beyond(txt, acc, Leftmost(acc.left))
           Guarded(acc) == IF acc.left = {} THEN acc ELSE Turn(acc)
           step == [k \in 1 .. card |-> [acc \in X |-> Guarded(acc)]]
           Body(f) == [k \in 0 .. card |-> IF k = 0 THEN first ELSE Turn(f[k - 1])]
           up == CHOOSE f : f = Body(f)
<1>1. IsFiniteSet(ms) /\ card \in Nat
  BY FS_CardinalityType DEF MarkSets
<1>2. Rendered(txt, ms) = up[card].out \o Slice(txt, up[card].pos, Len(txt))
  BY DEF Rendered
<1>3. first \in X
  <2>1. Slice(txt, 0, 0) = <<>>
    BY SliceAll
  <2>2. \A m \in ms : m.start \in Nat
    BY DEF MarkSets, MarkOf
  <2>3. Len(txt) \in Nat /\ <<>> \in Seq(TextLines)
    OBVIOUS
  <2>4. first \in [out : Seq(TextLines), pos : 0 .. Len(txt), left : SUBSET ms]
    BY <2>3
  <2> QED  BY <2>1, <2>2, <2>4 DEF WrittenSet
<1>4. \A acc \in X : acc.left # {} =>
        Turn(acc) \in X /\ Turn(acc).left = acc.left \ {Leftmost(acc.left)} /\ Leftmost(acc.left) \in acc.left
  BY BeyondIs
<1>0. first.left = ms
  OBVIOUS
<1> HIDE DEF card, X, Turn, first
<1>5. /\ step \in [1 .. card -> [X -> X]]
      /\ \A k \in 1 .. card, acc \in X : step[k][acc] = Guarded(acc)
  BY <1>4
<1> HIDE DEF step
<1>6. PICK g : g \in Loops(card, X, first, step)
  BY <1>1, <1>3, <1>5, LoopRuns
<1>7. g \in [0 .. card -> X] /\ g[0] = first /\ \A k \in 1 .. card : g[k] = Guarded(g[k - 1])
  <2>1. g \in [0 .. card -> X] /\ g[0] = first /\ \A k \in 1 .. card : g[k] = step[k][g[k - 1]]
    BY <1>6 DEF Loops
  <2>2. \A k \in 1 .. card : g[k - 1] \in X
    BY <1>1, <2>1
  <2> QED  BY <1>5, <2>1, <2>2
<1> DEFINE T == { k \in 0 .. card : IsFiniteSet(g[k].left) /\ Cardinality(g[k].left) = card - k }
<1>8. 0 \in T
  BY <1>0, <1>1, <1>7 DEF card
<1>9. ASSUME NEW k \in 1 .. card, k - 1 \in T  PROVE g[k - 1].left # {} /\ k \in T
  <2> DEFINE acc == g[k - 1]
  <2>1. acc \in X /\ g[k] = Guarded(acc) /\ k \in 0 .. card /\ IsFiniteSet(acc.left)
        /\ Cardinality(acc.left) = card - (k - 1) /\ card - (k - 1) # 0
    BY <1>1, <1>7, <1>9
  <2>2. acc.left # {}
    BY <2>1, FS_EmptySet
  <2>3. g[k].left = acc.left \ {Leftmost(acc.left)} /\ Leftmost(acc.left) \in acc.left
    BY <1>4, <2>1, <2>2
  <2> HIDE DEF acc
  <2>4. IsFiniteSet(g[k].left) /\ Cardinality(g[k].left) = Cardinality(acc.left) - 1
    BY <2>1, <2>3, FS_RemoveElement
  <2>5. k \in T
    BY <1>1, <2>1, <2>4
  <2> QED  BY <2>2, <2>5 DEF acc
<1>10. \A k \in 0 .. card : k \in T
  <2> HIDE DEF T
  <2> QED  BY <1>1, <1>8, <1>9, InductionTo
<1>11. g = Body(g)
  <2>1. ASSUME NEW k \in 1 .. card  PROVE g[k] = Turn(g[k - 1])
    <3>1. k - 1 \in 0 .. card
      BY <1>1
    <3>2. k - 1 \in T
      BY <1>10, <3>1
    <3>3. g[k - 1].left # {}
      BY <1>9, <3>2
    <3> QED  BY <1>7, <3>3
  <2>2. \A k \in 0 .. card : k = 0 \/ k \in 1 .. card
    BY <1>1
  <2> QED  BY <1>7, <2>1, <2>2
<1>12. up = Body(up)
  <2> HIDE DEF Body
  <2> QED  BY <1>11
<1>13. up[card] = g[card]
  <2> HIDE DEF up
  <2> DEFINE U == { k \in 0 .. card : up[k] = g[k] }
  <2>1. 0 \in U
    BY <1>1, <1>7, <1>12
  <2>2. ASSUME NEW k \in 1 .. card, k - 1 \in U  PROVE k \in U
    <3>1. k \in 0 .. card /\ k # 0 /\ up[k - 1] = g[k - 1]
      BY <1>1, <2>2
    <3>2. up[k] = Turn(up[k - 1]) /\ g[k] = Turn(g[k - 1])
      BY <1>11, <1>12, <3>1
    <3> QED  BY <3>1, <3>2
  <2>3. \A k \in 0 .. card : k \in U
    <3> HIDE DEF U
    <3> QED  BY <1>1, <2>1, <2>2, InductionTo
  <2> QED  BY <1>1, <2>3
<1> DEFINE last == g[card]
<1>14. last \in X
  BY <1>1, <1>7
<1>15. last.pos \in 0 .. Len(txt) /\ last.out = Slice(txt, 0, last.pos)
  <2> HIDE DEF last
  <2> QED  BY <1>14 DEF X, WrittenSet
<1>16. Slice(txt, 0, last.pos) \o Slice(txt, last.pos, Len(txt)) = Slice(txt, 0, Len(txt))
  <2> DEFINE p == last.pos
             len == Len(txt)
  <2>1. 0 \in Nat /\ p \in Nat /\ len \in Nat /\ 0 <= p /\ p <= len /\ len <= Len(txt)
    <3> HIDE DEF last
    <3> QED  BY <1>15
  <2> HIDE DEF p, len
  <2>2. Slice(txt, 0, p) \o Slice(txt, p, len) = Slice(txt, 0, len)
    BY <2>1, SlicesJoin
  <2> QED  BY <2>2 DEF p, len
<1>17. Rendered(txt, ms) = last.out \o Slice(txt, last.pos, Len(txt))
  <2> HIDE DEF up
  <2> QED  BY <1>2, <1>13
<1> HIDE DEF last
<1>18. Slice(txt, 0, Len(txt)) = txt
  BY SliceAll
<1> QED  BY <1>15, <1>16, <1>17, <1>18
===============================================================================
