---------------------------- MODULE FrontendProofs -----------------------------
(***************************************************************************)
(* What holds of Frontend.tla for any number of diagnoses, copies and      *)
(* checks the server has left.                                             *)
(***************************************************************************)
EXTENDS Frontend, FiniteSetTheorems, TLAPS

Marks == {<<"none">>, <<"sent">>, <<"shown">>, <<"failed">>}
Readings == {"read"} \X (0 .. Allowance)
Clicks == [phase : {"none", "writing", "done", "denied"}, text : 0 .. MaxLints, original : Labels]
Asked == [phase : {"none", "sent", "ok", "failed"}, fileTab : BOOLEAN]

\* A refresh is a mark or a number that was read, and the two are told apart.
LEMMA RefreshForms ==
  /\ \A x \in Marks : x[1] # "read"
  /\ \A x \in Readings : x[1] = "read" /\ x[2] \in 0 .. Allowance /\ x = <<"read", x[2]>>
<1>1. \A x \in Marks : x[1] # "read"
  BY DEF Marks
<1>2. \A x \in Readings : x[1] = "read" /\ x[2] \in 0 .. Allowance /\ x = <<"read", x[2]>>
  BY DEF Readings
<1> QED  BY <1>1, <1>2

LEMMA Bounds ==
  MaxLints \in Nat /\ MaxCopies \in Nat /\ Allowance \in Nat
BY PageAssumption

LEMMA InitTypes == Init => TypeOK
<1> SUFFICES ASSUME Init  PROVE TypeOK
  OBVIOUS
<1> USE Bounds
<1>1. /\ view \in {"input", "report"} /\ tab \in {"file", "text"}
      /\ input \in [{"file", "text"} -> BOOLEAN]
      /\ error \in BOOLEAN /\ disabled \in BOOLEAN /\ excused \in BOOLEAN
  BY DEF Init
<1>2. /\ {last, shown, fallback} \subseteq 0 .. MaxLints
      /\ left \in 0 .. Allowance /\ decided \subseteq Lints /\ quotaInfo \in -1 .. Allowance
      /\ label \in Labels /\ timers \in Seq(Labels)
  BY DEF Init, Labels
<1>3. lint \in [Lints -> Asked] /\ copy \in [Copies -> Clicks]
  BY DEF Init, Asked, Clicks, Labels
<1>4. refresh \in [Refreshes -> Marks \cup Readings]
  BY DEF Init, Marks
<1> QED  BY <1>1, <1>2, <1>3, <1>4 DEF TypeOK, Asked, Clicks, Marks, Readings

\* Everything but the quota's number and the copy button.
LEMMA TypesNext ==
  ASSUME TypeOK, [Next]_vars
  PROVE  TypeOK'
<1> USE Bounds DEF TypeOK, page, server, quota, button
<1>1. CASE SwitchTab("file") \/ SwitchTab("text") \/ PickFile \/ Type \/ Again
  <2>1. input' \in [{"file", "text"} -> BOOLEAN]
    <3>1. \A b \in BOOLEAN : [input EXCEPT !["file"] = TRUE] \in [{"file", "text"} -> BOOLEAN]
                            /\ [input EXCEPT !["text"] = b] \in [{"file", "text"} -> BOOLEAN]
      OBVIOUS
    <3>2. (~input["text"]) \in BOOLEAN
      OBVIOUS
    <3> QED  BY <1>1, <3>1, <3>2 DEF SwitchTab, PickFile, Type, Again
  <2>2. view' \in {"input", "report"} /\ tab' \in {"file", "text"} /\ error' \in BOOLEAN
    BY <1>1 DEF SwitchTab, PickFile, Type, Again
  <2>3. UNCHANGED <<disabled, lint, last, shown, server, quota, button>>
    BY <1>1 DEF SwitchTab, PickFile, Type, Again
  <2> QED  BY <2>1, <2>2, <2>3
<1>2. ASSUME NEW n \in Lints, Submit(n)  PROVE TypeOK'
  <2>1. Ready \in BOOLEAN /\ Locked(Ready) \in BOOLEAN
    BY DEF Ready, Locked
  <2>2. lint' \in [Lints -> Asked]
    BY <1>2 DEF Submit, Asked
  <2> QED  BY <1>2, <2>1, <2>2 DEF Submit, Asked
<1>3. ASSUME NEW n \in Lints, Answered(n)  PROVE TypeOK'
  <2>1. PICK phase \in {"ok", "failed"} : Finally(n, phase)
    BY <1>3 DEF Answered, LintReport, LintError, LintLost
  <2>2. lint' \in [Lints -> Asked]
    BY <2>1 DEF Finally, Asked
  <2>3. n \in Refreshes /\ n \in 0 .. MaxLints
    BY DEF Lints, Refreshes
  <2>4. refresh' \in [Refreshes -> Marks \cup Readings]
    BY <2>1, <2>3 DEF Finally, Refresh, Marks, Readings
  <2>5. disabled' \in BOOLEAN /\ quotaInfo' = quotaInfo
    BY <2>1 DEF Finally, Unlocks
  <2>6. /\ view' \in {"input", "report"} /\ tab' \in {"file", "text"} /\ input' = input
        /\ error' \in BOOLEAN /\ excused' \in BOOLEAN
    BY <1>3 DEF Answered, LintReport, LintError, LintLost
  <2>7. /\ {last', shown'} \subseteq 0 .. MaxLints /\ left' = left /\ decided' \subseteq Lints
        /\ UNCHANGED button
    BY <1>3, <2>3 DEF Answered, LintReport, LintError, LintLost, Result
  <2> QED  BY <2>2, <2>4, <2>5, <2>6, <2>7 DEF Asked, Marks, Readings
<1>4. ASSUME NEW n \in Lints, Decide(n)  PROVE TypeOK'
  BY <1>4 DEF Decide, Takes
<1>5. ASSUME NEW k \in Refreshes, ReadQuota(k) \/ ShowQuota(k) \/ QuotaLost(k)  PROVE TypeOK'
  <2>1. refresh \in [Refreshes -> Marks \cup Readings]
    BY DEF Marks, Readings
  <2>2. refresh' \in [Refreshes -> Marks \cup Readings]
    BY <1>5, <2>1 DEF ReadQuota, ShowQuota, QuotaLost, Marks, Readings
  <2>3. quotaInfo' \in -1 .. Allowance
    <3>1. refresh[k][1] = "read" => refresh[k][2] \in 0 .. Allowance
      BY <2>1, RefreshForms
    <3> QED  BY <1>5, <3>1 DEF ReadQuota, ShowQuota, QuotaLost
  <2> QED  BY <1>5, <2>2, <2>3 DEF ReadQuota, ShowQuota, QuotaLost, Marks, Readings
<1>6. ASSUME NEW c \in Copies, Copy(c) \/ CopyDone(c) \/ CopyDenied(c)  PROVE TypeOK'
  <2>1. copy \in [Copies -> Clicks] /\ copy[c] \in Clicks
    BY DEF Clicks
  <2>2. [phase |-> "writing", text |-> last, original |-> label] \in Clicks
    BY DEF Clicks
  <2>3. \A phase \in {"done", "denied"} : [copy[c] EXCEPT !.phase = phase] \in Clicks
    BY <2>1 DEF Clicks
  <2>4. copy' \in [Copies -> Clicks]
    BY <1>6, <2>1, <2>2, <2>3 DEF Copy, CopyDone, CopyDenied, Settle
  <2>5. copy[c].original \in Labels /\ copy[c].text \in 0 .. MaxLints
    BY <2>1 DEF Clicks
  <2>6. Append(timers, copy[c].original) \in Seq(Labels)
    BY <2>5
  <2>7. label' \in Labels /\ timers' \in Seq(Labels) /\ fallback' \in 0 .. MaxLints
    BY <1>6, <2>5, <2>6 DEF Copy, CopyDone, CopyDenied, Settle, Restored, Labels
  <2>8. UNCHANGED <<page, disabled, lint, last, shown, server, quota>>
    BY <1>6 DEF Copy, CopyDone, CopyDenied, Settle
  <2> QED  BY <2>4, <2>7, <2>8 DEF Clicks
<1>7. CASE RestoreLabel
  <2>1. Head(timers) \in Labels /\ Tail(timers) \in Seq(Labels)
    BY <1>7 DEF RestoreLabel
  <2> QED  BY <1>7, <2>1 DEF RestoreLabel
<1>8. CASE UNCHANGED vars
  BY <1>8 DEF vars
<1> QED  BY <1>1, <1>2, <1>3, <1>4, <1>5, <1>6, <1>7, <1>8 DEF Next

\* Every variable of the page keeps its type, whatever the user clicks.
THEOREM TypeCorrect == Spec => []TypeOK
BY InitTypes, TypesNext, PTL DEF Spec

-------------------------------------------------------------------------------
\* ---- one diagnosis at a time -------------------------------------------------------

Idle == \A n \in Lints : lint[n].phase # "sent"

\* The diagnoses are asked for in order, one at a time, and the button is
\* disabled while there is one.
InTurn ==
  /\ disabled <=> ~Idle
  /\ \A n, m \in Lints : lint[n].phase = "none" /\ n < m => lint[m].phase = "none"
  /\ \A n, m \in Lints : lint[n].phase = "sent" /\ lint[m].phase # "none" => m <= n

\* lastResult is the newest report, and the report view never waits for another.
LastInv ==
  /\ shown = last
  /\ view = "report" => last # 0 /\ Idle
  /\ last # 0 => lint[last].phase = "ok"
  /\ \A n \in Lints : lint[n].phase = "ok" => n <= last

FlightInv == TypeOK /\ InTurn /\ LastInv

\* Two diagnoses under way would each be newer than the other.
LEMMA OneSent ==
  ASSUME FlightInv, NEW n \in Lints, NEW m \in Lints,
         lint[n].phase = "sent", lint[m].phase = "sent"
  PROVE  n = m
BY Bounds DEF FlightInv, InTurn, Lints

LEMMA FlightNext ==
  ASSUME FlightInv, [Next]_vars
  PROVE  FlightInv'
<1> USE Bounds
<1>t. TypeOK /\ TypeOK' /\ InTurn /\ LastInv
  BY TypesNext DEF FlightInv
<1>1. ASSUME NEW n \in Lints, Submit(n)  PROVE InTurn' /\ LastInv'
  <2>1. lint \in [Lints -> Asked] /\ Idle /\ view = "input"
    BY <1>t, <1>1 DEF TypeOK, Asked, InTurn, Submit
  <2>2. CASE Ready
    <3>1. /\ lint'[n].phase = "sent" /\ lint[n].phase = "none" /\ disabled'
          /\ \A m \in Lints : m # n => lint'[m] = lint[m]
          /\ \A m \in Lints : m < n => lint[m].phase # "none"
          /\ UNCHANGED <<view, last, shown>>
      BY <1>1, <2>1, <2>2 DEF Submit, Locked, Lints, page
    <3>2. InTurn'
      BY <1>t, <2>1, <3>1 DEF InTurn, Idle, Lints
    <3>3. LastInv'
      BY <1>t, <2>1, <3>1 DEF LastInv, Idle, Lints, TypeOK
    <3> QED  BY <3>2, <3>3
  <2>3. CASE ~Ready
    <3>1. UNCHANGED <<lint, view, last, shown>> /\ ~disabled'
      BY <1>1, <2>3 DEF Submit, Locked, page
    <3> QED  BY <1>t, <2>1, <3>1 DEF InTurn, LastInv, Idle
  <2> QED  BY <2>2, <2>3
<1>2. ASSUME NEW n \in Lints, Answered(n)  PROVE InTurn' /\ LastInv'
  <2>1. lint[n].phase = "sent" /\ (\A m \in Lints : lint[m].phase = "sent" => m = n)
        /\ view # "report" /\ last # n /\ last \in Lints \cup {0}
    BY <1>t, <1>2, OneSent
    DEF Answered, LintReport, LintError, LintLost, LastInv, Idle, TypeOK, Lints
  <2>2. ASSUME NEW phase \in {"ok", "failed"}, Finally(n, phase)
        PROVE  /\ lint'[n].phase = phase /\ (\A m \in Lints : m # n => lint'[m] = lint[m])
               /\ Idle' /\ InTurn'
    <3>1. lint \in [Lints -> Asked] /\ lint' = [lint EXCEPT ![n].phase = phase] /\ ~disabled'
      BY <1>t, <2>2 DEF Finally, Unlocks, TypeOK, Asked
    <3>2. lint'[n].phase = phase /\ \A m \in Lints : m # n => lint'[m] = lint[m]
      BY <3>1 DEF Asked
    <3>3. Idle'
      BY <2>1, <3>2 DEF Idle
    <3>4. InTurn'
      BY <1>t, <2>1, <3>1, <3>2, <3>3 DEF InTurn, Lints
    <3> QED  BY <3>2, <3>3, <3>4
  <2>3. CASE LintReport(n)
    <3>1. last' = n /\ shown' = n /\ Finally(n, "ok")
      BY <2>3 DEF LintReport, Result
    <3>2. \A m \in Lints : lint'[m].phase = "ok" => m <= n
      BY <1>t, <2>1, <2>2, <3>1 DEF InTurn
    <3> QED  BY <2>1, <2>2, <3>1, <3>2 DEF LastInv, Lints
  <2>4. CASE LintError(n) \/ LintLost(n)
    <3>1. UNCHANGED <<view, last, shown>> /\ Finally(n, "failed")
      BY <2>4 DEF LintError, LintLost
    <3>2. lint'[n].phase = "failed" /\ InTurn' /\ \A m \in Lints : m # n => lint'[m] = lint[m]
      BY <2>2, <3>1
    <3>3. last # 0 => lint'[last].phase = "ok"
      BY <1>t, <2>1, <3>2 DEF LastInv
    <3>4. \A m \in Lints : lint'[m].phase = "ok" => m <= last
      BY <1>t, <3>2 DEF LastInv
    <3>5. shown = last
      BY <1>t DEF LastInv
    <3> QED  BY <2>1, <3>1, <3>2, <3>3, <3>4, <3>5 DEF LastInv
  <2> QED  BY <1>2, <2>3, <2>4 DEF Answered
<1>3. CASE UNCHANGED <<lint, disabled, last, shown>> /\ view' \in {view, "input"}
  <2>1. Idle' <=> Idle
    BY <1>3 DEF Idle
  <2>2. InTurn'
    BY <1>t, <1>3, <2>1 DEF InTurn
  <2>3. lint' = lint /\ last' = last /\ shown' = shown /\ (view' = "report" => view = "report")
    BY <1>3
  <2>4. LastInv'
    BY <1>t, <2>1, <2>3 DEF LastInv
  <2> QED  BY <1>t, <2>2, <2>4 DEF FlightInv
<1>4. \/ \E n \in Lints : Submit(n) \/ Answered(n)
      \/ UNCHANGED <<lint, disabled, last, shown>> /\ view' \in {view, "input"}
  BY DEF Next, SwitchTab, PickFile, Type, Again, Decide, ReadQuota, ShowQuota, QuotaLost, Copy,
         CopyDone, CopyDenied, Settle, RestoreLabel, vars, page
<1> QED  BY <1>t, <1>1, <1>2, <1>3, <1>4 DEF FlightInv

THEOREM FlightInvHolds == Spec => []FlightInv
<1>1. Init => FlightInv
  <2> SUFFICES ASSUME Init  PROVE FlightInv
    OBVIOUS
  <2>1. InTurn /\ LastInv
    BY DEF Init, InTurn, LastInv, Idle
  <2> QED  BY <2>1, InitTypes DEF FlightInv
<1> QED  BY <1>1, FlightNext, PTL DEF Spec

\* For any number of clicks there is at most one diagnosis under way, and the
\* button is disabled exactly while there is.
THEOREM OneAtATime == Spec => []OneDiagnosis
<1>1. FlightInv => OneDiagnosis
  <2> SUFFICES ASSUME FlightInv  PROVE OneDiagnosis
    OBVIOUS
  <2>1. disabled <=> InFlight # {}
    BY DEF FlightInv, InTurn, Idle, InFlight
  <2>2. CASE InFlight = {}
    BY <2>1, <2>2, FS_EmptySet DEF OneDiagnosis
  <2>3. ASSUME NEW n \in InFlight  PROVE OneDiagnosis
    <3>1. InFlight = {n}
      BY <2>3, OneSent DEF InFlight
    <3>2. Cardinality(InFlight) = 1
      BY <3>1, FS_Singleton
    <3> QED  BY <2>1, <2>3, <3>2 DEF OneDiagnosis
  <2> QED  BY <2>2, <2>3
<1> QED  BY <1>1, FlightInvHolds, PTL

\* What is read and what the copy button copies is the newest report.
THEOREM NewestReportShown == Spec => []ReportIsNewest
<1>1. FlightInv => ReportIsNewest
  BY DEF FlightInv, LastInv, ReportIsNewest
<1> QED  BY <1>1, FlightInvHolds, PTL

\* A late answer never replaces the report that is being read.
THEOREM ReadersUndisturbed == Spec => ReadingUndisturbed
<1>1. FlightInv /\ [Next]_vars => [shown' # shown => view = "input"]_vars
  <2> SUFFICES ASSUME FlightInv, [Next]_vars, shown' # shown  PROVE view = "input"
    OBVIOUS
  <2>1. PICK n \in Lints : LintReport(n)
    BY DEF Next, SwitchTab, PickFile, Type, Again, Submit, Answered, LintError, LintLost, Decide,
           ReadQuota, ShowQuota, QuotaLost, Copy, CopyDone, CopyDenied, Settle, RestoreLabel, vars
  <2>2. ~Idle
    BY <2>1 DEF Idle, LintReport
  <2> QED  BY <2>2 DEF FlightInv, LastInv, TypeOK
<1> QED  BY <1>1, FlightInvHolds, PTL DEF Spec, ReadingUndisturbed

-------------------------------------------------------------------------------
\* ---- the copy button -----------------------------------------------------------

\* While every click found the icon, every pending timer restores it, and
\* there is one as long as another label is up.
LabelInv ==
  /\ TypeOK
  /\ \A c \in Copies : copy[c].phase = "none" => copy[c].original = "icon"
  /\ (\A c \in Copies : copy[c].original = "icon") =>
       /\ \A i \in DOMAIN timers : timers[i] = "icon"
       /\ timers = <<>> => label = "icon"

LEMMA LabelNext ==
  ASSUME LabelInv, [Next]_vars
  PROVE  LabelInv'
<1>t. /\ TypeOK' /\ copy \in [Copies -> Clicks] /\ copy' \in [Copies -> Clicks]
      /\ timers \in Seq(Labels) /\ label \in Labels
  BY TypesNext DEF LabelInv, TypeOK, Clicks
<1>1. ASSUME NEW c \in Copies, Copy(c)  PROVE LabelInv'
  <2>1. /\ copy[c].phase = "none" /\ copy'[c].phase # "none"
        /\ \A d \in Copies : d # c => copy'[d] = copy[d]
        /\ label' = label /\ timers' = timers
    BY <1>t, <1>1 DEF Copy
  <2>2. (\A d \in Copies : copy'[d].original = "icon") => \A d \in Copies : copy[d].original = "icon"
    BY <2>1 DEF LabelInv
  <2> QED  BY <1>t, <2>1, <2>2 DEF LabelInv
<1>2. ASSUME NEW c \in Copies, NEW phase \in {"done", "denied"}, NEW l, Settle(c, phase, l)
      PROVE  LabelInv'
  <2>1. \A d \in Copies :
          copy'[d].original = copy[d].original /\ (copy'[d].phase = "none" => copy[d].phase = "none")
    BY <1>t, <1>2 DEF Settle, Clicks
  <2>2. timers' = Append(timers, copy[c].original) /\ copy[c].original \in Labels
    BY <1>t, <1>2 DEF Settle, Restored, Clicks
  <2>3. /\ timers' # <<>> /\ DOMAIN timers' = DOMAIN timers \cup {Len(timers) + 1}
        /\ timers'[Len(timers) + 1] = copy[c].original
        /\ \A i \in DOMAIN timers : timers'[i] = timers[i]
    BY <1>t, <2>2
  <2> QED  BY <1>t, <2>1, <2>3 DEF LabelInv
<1>3. CASE RestoreLabel
  <2>1. timers # <<>> /\ label' = timers[1] /\ timers' = Tail(timers) /\ copy' = copy
    BY <1>3 DEF RestoreLabel
  <2>2. 1 \in DOMAIN timers /\ \A i \in DOMAIN timers' : i + 1 \in DOMAIN timers /\ timers'[i] = timers[i + 1]
    BY <1>t, <2>1
  <2> QED  BY <1>t, <2>1, <2>2 DEF LabelInv
<1>4. CASE UNCHANGED <<copy, label, timers>>
  BY <1>t, <1>4 DEF LabelInv
<1>5. \/ \E c \in Copies : Copy(c) \/ CopyDone(c) \/ CopyDenied(c)
      \/ RestoreLabel
      \/ UNCHANGED <<copy, label, timers>>
  BY DEF Next, SwitchTab, PickFile, Type, Again, Submit, Answered, LintReport, LintError, LintLost,
         Decide, ReadQuota, ShowQuota, QuotaLost, vars, button
<1> QED  BY <1>1, <1>2, <1>3, <1>4, <1>5 DEF CopyDone, CopyDenied

\* However many clicks that each found the icon overlap, the icon comes back.
THEOREM IconComesBack == Spec => []LabelComesBack
<1>1. Init => LabelInv
  <2> SUFFICES ASSUME Init  PROVE LabelInv
    OBVIOUS
  <2>1. timers = <<>> /\ label = "icon" /\ \A c \in Copies : copy[c].original = "icon"
    BY DEF Init
  <2> QED  BY <2>1, InitTypes DEF LabelInv
<1>2. LabelInv => LabelComesBack
  BY DEF LabelInv, LabelComesBack
<1> QED  BY <1>1, <1>2, LabelNext, PTL DEF Spec

-------------------------------------------------------------------------------
\* ---- the number of checks left ---------------------------------------------------

Over(n) == lint[n].phase \in {"ok", "failed"}
IsNewest(k) == refresh[k] # <<"none">> /\ \A j \in Refreshes : j > k => refresh[j] = <<"none">>
UpToDate(k) ==
  /\ refresh[k][1] = "read" => refresh[k][2] = left
  /\ refresh[k] = <<"shown">> => quotaInfo = left

\* A refresh starts when its diagnosis is over, by then the server has decided
\* on it, and the newest refresh holds what the server has left.
QuotaInv ==
  /\ \A n \in Lints : refresh[n] # <<"none">> <=> Over(n)
  /\ ~excused => \A n \in Lints : Over(n) => n \in decided
  /\ \E k \in Refreshes : IsNewest(k)
  /\ ~excused /\ Idle => \A k \in Refreshes : IsNewest(k) => UpToDate(k)

\* The forms of a refresh are told apart by their first part.
LEMMA Distinct ==
  /\ \A x : <<"read", x>> # <<"none">> /\ <<"read", x>> # <<"sent">> /\ <<"read", x>> # <<"shown">>
  /\ <<"none">> # <<"sent">> /\ <<"none">> # <<"shown">> /\ <<"none">> # <<"failed">>
  /\ <<"shown">> # <<"sent">> /\ <<"shown">> # <<"failed">>
  /\ <<"none">>[1] # "read" /\ <<"sent">>[1] # "read" /\ <<"shown">>[1] # "read"
  /\ <<"failed">>[1] # "read"
OBVIOUS

LEMMA AnsweredKeepsQuota ==
  ASSUME FlightInv, QuotaInv, NEW n \in Lints, Answered(n)
  PROVE  QuotaInv'
<1> USE Bounds
<1>1. TypeOK /\ InTurn /\ lint[n].phase = "sent"
  BY DEF FlightInv, Answered, LintReport, LintError, LintLost
<1>2. /\ lint'[n].phase \in {"ok", "failed"} /\ \A m \in Lints : m # n => lint'[m] = lint[m]
      /\ refresh' = [refresh EXCEPT ![n] = <<"sent">>]
  <2>1. PICK phase \in {"ok", "failed"} : Finally(n, phase)
    BY DEF Answered, LintReport, LintError, LintLost
  <2> QED  BY <1>1, <2>1 DEF Finally, Refresh, TypeOK
<1>3. /\ refresh'[n] = <<"sent">> /\ \A k \in Refreshes : k # n => refresh'[k] = refresh[k]
      /\ n \in Refreshes
  <2>1. n \in Refreshes /\ DOMAIN refresh = Refreshes
    BY <1>1 DEF TypeOK, Lints, Refreshes
  <2> QED  BY <1>2, <2>1
<1>4. /\ (excused => excused') /\ (~excused' => n \in decided') /\ decided \subseteq decided'
  <2>1. CASE LintReport(n) \/ LintError(n)
    BY <2>1 DEF LintReport, LintError, server
  <2>2. CASE LintLost(n)
    <3>1. excused' = (excused \/ n \notin decided) /\ decided' = decided
      BY <2>2 DEF LintLost, server
    <3> QED  BY <3>1, Zenon
  <2> QED  BY <2>1, <2>2 DEF Answered
<1>5. \A m \in Lints : refresh'[m] # <<"none">> <=> Over(m)'
  <2>1. TAKE m \in Lints
  <2>2. m \in Refreshes
    BY DEF Lints, Refreshes
  <2> QED  BY <1>2, <1>3, <2>2, Distinct DEF QuotaInv, Over
<1>6. ~excused' => \A m \in Lints : Over(m)' => m \in decided'
  BY <1>2, <1>4 DEF QuotaInv, Over
<1>7. \A j \in Refreshes : j > n => refresh[j] = <<"none">>
  <2>1. TAKE j \in Refreshes
  <2>2. HAVE j > n
  <2>3. j \in Lints /\ lint[j].phase = "none"
    BY <1>1, <2>2 DEF InTurn, Lints, Refreshes
  <2> QED  BY <2>3 DEF QuotaInv, Over
<1>8. IsNewest(n)'
  <2>1. \A j \in Refreshes : j > n => refresh'[j] = <<"none">>
    BY <1>3, <1>7 DEF Lints, Refreshes
  <2> QED  BY <1>3, <2>1, Distinct DEF IsNewest
<1>9. \A k \in Refreshes : IsNewest(k)' => k = n
  <2>1. TAKE k \in Refreshes
  <2>2. HAVE IsNewest(k)'
  <2>3. ~(n > k)
    BY <1>3, <2>2, Distinct DEF IsNewest
  <2>4. ~(k > n)
    BY <1>3, <1>7, <2>2 DEF IsNewest, Lints, Refreshes
  <2> QED  BY <2>3, <2>4 DEF Lints, Refreshes
<1>10. UpToDate(n)'
  BY <1>3, Distinct DEF UpToDate
<1> QED  BY <1>3, <1>5, <1>6, <1>8, <1>9, <1>10 DEF QuotaInv

\* The server's answer, its display and its loss: none begins a refresh.
LEMMA RefreshKeepsQuota ==
  ASSUME TypeOK, QuotaInv, NEW k \in Refreshes, ReadQuota(k) \/ ShowQuota(k) \/ QuotaLost(k)
  PROVE  QuotaInv'
<1> USE Bounds
<1>1. /\ UNCHANGED <<lint, left, decided>> /\ (excused => excused')
      /\ refresh[k] # <<"none">> /\ refresh'[k] # <<"none">>
      /\ \A j \in Refreshes : j # k => refresh'[j] = refresh[j]
  <2>1. DOMAIN refresh = Refreshes
    BY DEF TypeOK
  <2>2. UNCHANGED <<lint, left, decided>>
    BY DEF ReadQuota, ShowQuota, QuotaLost, server
  <2>3. excused => excused'
    <3>1. \/ excused' = excused
          \/ excused' = (excused \/ \E j \in Refreshes : j > k /\ refresh[j] = <<"shown">>)
      BY DEF ReadQuota, ShowQuota, QuotaLost
    <3> QED  BY <3>1, Zenon
  <2>4. refresh[k] # <<"none">>
    BY Distinct DEF ReadQuota, ShowQuota, QuotaLost
  <2>5. PICK x : x # <<"none">> /\ refresh' = [refresh EXCEPT ![k] = x]
    BY Distinct DEF ReadQuota, ShowQuota, QuotaLost
  <2> QED  BY <2>1, <2>2, <2>3, <2>4, <2>5
<1>2. \A j \in Refreshes : IsNewest(j)' <=> IsNewest(j)
  BY <1>1 DEF IsNewest
<1>3. \A n \in Lints : Over(n)' <=> Over(n)
  BY <1>1 DEF Over
<1>4. \A n \in Lints : n \in Refreshes
  BY DEF Lints, Refreshes
<1>5. ASSUME NEW j \in Refreshes, IsNewest(j), ~excused', UpToDate(j)  PROVE UpToDate(j)'
  <2>1. CASE j = k
    <3>1. CASE ReadQuota(k)
      <4>1. refresh'[k] = <<"read", left>> /\ left' = left
        BY <3>1 DEF ReadQuota, TypeOK, server
      <4> QED  BY <2>1, <4>1, Distinct DEF UpToDate
    <3>2. CASE ShowQuota(k)
      <4>1. /\ refresh'[k] = <<"shown">> /\ quotaInfo' = refresh[k][2] /\ refresh[k][1] = "read"
            /\ left' = left
        BY <3>2 DEF ShowQuota, TypeOK, server
      <4> QED  BY <1>5, <2>1, <4>1, Distinct DEF UpToDate
    <3>3. CASE QuotaLost(k)
      <4>1. refresh'[k] = <<"failed">>
        BY <3>3 DEF QuotaLost, TypeOK
      <4> QED  BY <2>1, <4>1, Distinct DEF UpToDate
    <3> QED  BY <3>1, <3>2, <3>3
  <2>2. CASE j # k
    <3>1. j > k
      BY <1>1, <1>5, <2>2 DEF IsNewest, Refreshes
    <3>2. refresh'[j] = refresh[j] /\ left' = left
      BY <1>1, <2>2
    <3>3. refresh[j] = <<"shown">> => quotaInfo' = quotaInfo
      BY <1>5, <3>1 DEF ReadQuota, ShowQuota, QuotaLost
    <3> QED  BY <1>5, <3>2, <3>3 DEF UpToDate
  <2> QED  BY <2>1, <2>2
<1>6. Idle' <=> Idle
  BY <1>1 DEF Idle
<1>7. /\ \A n \in Lints : refresh'[n] # <<"none">> <=> Over(n)'
      /\ ~excused' => \A n \in Lints : Over(n)' => n \in decided'
      /\ \E j \in Refreshes : IsNewest(j)'
  BY <1>1, <1>2, <1>3, <1>4 DEF QuotaInv
<1> QED  BY <1>1, <1>2, <1>5, <1>6, <1>7 DEF QuotaInv

LEMMA QuotaNext ==
  ASSUME FlightInv, QuotaInv, [Next]_vars
  PROVE  QuotaInv'
<1>t. TypeOK /\ InTurn
  BY DEF FlightInv
<1>1. ASSUME NEW n \in Lints, Submit(n), Ready  PROVE QuotaInv'
  <2>1. /\ lint'[n].phase = "sent" /\ lint[n].phase = "none" /\ \A m \in Lints : m # n => lint'[m] = lint[m]
        /\ UNCHANGED <<server, quota>>
    BY <1>t, <1>1 DEF Submit, TypeOK
  <2>2. (\A m \in Lints : Over(m)' <=> Over(m)) /\ ~Idle'
    BY <2>1 DEF Over, Idle
  <2>3. \A k \in Refreshes : IsNewest(k)' <=> IsNewest(k)
    BY <2>1 DEF IsNewest, quota
  <2> QED  BY <2>1, <2>2, <2>3 DEF QuotaInv, quota, server
<1>2. ASSUME NEW n \in Lints, Decide(n)  PROVE QuotaInv'
  <2>1. n \notin decided /\ lint[n].phase # "none" /\ decided' = decided \cup {n}
        /\ UNCHANGED <<lint, quota>>
    BY <1>2 DEF Decide
  <2>2. ~excused => lint[n].phase = "sent"
    BY <1>t, <2>1 DEF QuotaInv, Over, TypeOK
  <2>3. (\A m \in Lints : Over(m)' <=> Over(m)) /\ (~excused' => ~Idle')
    BY <2>1, <2>2 DEF Over, Idle, quota
  <2>4. \A k \in Refreshes : IsNewest(k)' <=> IsNewest(k)
    BY <2>1 DEF IsNewest, quota
  <2> QED  BY <2>1, <2>3, <2>4 DEF QuotaInv, quota
<1>3. CASE UNCHANGED <<lint, server, quota>>
  <2>1. /\ \A m \in Lints : Over(m)' <=> Over(m)
        /\ \A k \in Refreshes : (IsNewest(k)' <=> IsNewest(k)) /\ (UpToDate(k)' <=> UpToDate(k))
        /\ Idle' <=> Idle
    BY <1>3 DEF Over, IsNewest, UpToDate, Idle, server, quota
  <2> QED  BY <1>3, <2>1 DEF QuotaInv, server, quota
<1>4. \/ \E n \in Lints : (Submit(n) /\ Ready) \/ Answered(n) \/ Decide(n)
      \/ \E k \in Refreshes : ReadQuota(k) \/ ShowQuota(k) \/ QuotaLost(k)
      \/ UNCHANGED <<lint, server, quota>>
  BY DEF Next, SwitchTab, PickFile, Type, Again, Submit, Copy, CopyDone, CopyDenied, Settle,
         RestoreLabel, vars
<1> QED  BY <1>t, <1>1, <1>2, <1>3, <1>4, AnsweredKeepsQuota, RefreshKeepsQuota

\* At rest the page shows what the server has left, however the refreshes
\* overlapped, but for the excuses the property names.
THEOREM QuotaComesToRest == Spec => []QuotaSettles
<1>1. Init => QuotaInv
  <2> SUFFICES ASSUME Init  PROVE QuotaInv
    OBVIOUS
  <2>1. /\ 0 \in Refreshes /\ refresh[0] = <<"sent">>
        /\ \A k \in Refreshes : k # 0 => refresh[k] = <<"none">>
        /\ \A n \in Lints : lint[n].phase = "none" /\ n \in Refreshes /\ n # 0
    BY Bounds DEF Init, Lints, Refreshes
  <2>2. IsNewest(0)
    BY <2>1, Distinct DEF IsNewest, Refreshes
  <2>3. \A k \in Refreshes : IsNewest(k) => k = 0
    BY <2>1 DEF IsNewest
  <2>4. UpToDate(0)
    BY <2>1, Distinct DEF UpToDate
  <2> QED  BY <2>1, <2>2, <2>3, <2>4 DEF QuotaInv, Over
<1>2. FlightInv /\ QuotaInv => QuotaSettles
  <2> SUFFICES ASSUME QuotaInv, InFlight = {}, refresh[Newest] = <<"shown">>, ~excused
               PROVE  quotaInfo = left
    BY DEF QuotaSettles
  <2>1. Newest \in Refreshes /\ IsNewest(Newest)
    BY DEF QuotaInv, IsNewest, Newest
  <2>2. Idle
    BY DEF Idle, InFlight
  <2> QED  BY <2>1, <2>2 DEF QuotaInv, UpToDate
<1> QED  BY <1>1, <1>2, QuotaNext, FlightInvHolds, PTL DEF Spec
===============================================================================
