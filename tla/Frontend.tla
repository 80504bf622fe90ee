------------------------------- MODULE Frontend -------------------------------
(***************************************************************************)
(* app/static/app.js: the page.  Its handlers run to the next await alone; *)
(* what interleaves is the user's clicks, the answers of fetch(), the      *)
(* clipboard and the timers of the copy button.  The server is what the    *)
(* page sees of it: an answer to each diagnosis, a number of checks left.  *)
(***************************************************************************)
EXTENDS Integers, Sequences, FiniteSets

CONSTANTS MaxLints,   \* bound: diagnoses asked for
          MaxCopies,  \* bound: clicks on the copy button
          MaxClicks,  \* bound: diagnoses and copies together
          Allowance   \* checks the server has left when the page loads

ASSUME PageAssumption == {MaxLints, MaxCopies, MaxClicks, Allowance} \subseteq Nat

Lints == 1 .. MaxLints
Copies == 1 .. MaxCopies
Refreshes == 0 .. MaxLints    \* 0 at page load, n in the finally of diagnosis n

VARIABLES
  view,       \* input or report: the <main> that is not hidden
  tab,        \* file or text
  input,      \* [file, text]: selectedFile is set, the text area is not blank
  error,      \* the error box is visible
  disabled,   \* the submit button is disabled, the loading box visible
  lint,       \* per diagnosis: phase none, sent, ok or failed; fileTab as captured
  last,       \* lastResult: the diagnosis it came from, 0 for null
  shown,      \* the diagnosis on the report view
  left,       \* server: checks left
  decided,    \* server: diagnoses it has charged, refused or given back
  refresh,    \* per refreshQuota: none, sent, <<number read>>, shown or failed
  quotaInfo,  \* number on display, -1 before the first
  excused,    \* history: an older refresh was displayed after a newer one, or the
              \* page gave up on a diagnosis the server had not decided on
  copy,       \* per click on copy: phase none, writing, done or denied; text; original
  label,      \* of the copy button: icon, done or failed
  timers,     \* pending setTimeouts of the copy button, each the label it restores
  fallback    \* the diagnosis in the copy-fallback box, 0 while there is none

page   == <<view, tab, input, error>>
server == <<left, decided>>
quota  == <<refresh, quotaInfo, excused>>
button == <<copy, label, timers, fallback>>
vars   == <<page, disabled, lint, last, shown, server, quota, button>>

InFlight == { n \in Lints : lint[n].phase = "sent" }
ClicksLeft ==
  Cardinality({ n \in Lints : lint[n].phase # "none" })
    + Cardinality({ c \in Copies : copy[c].phase # "none" }) < MaxClicks
-------------------------------------------------------------------------------
\* The last statement of the script's top level that matters is refreshQuota().
Init ==
  /\ view = "input" /\ tab = "file" /\ input = [t \in {"file", "text"} |-> FALSE]
  /\ error = FALSE /\ disabled = FALSE
  /\ lint = [n \in Lints |-> [phase |-> "none", fileTab |-> FALSE]]
  /\ last = 0 /\ shown = 0
  /\ left = Allowance /\ decided = {}
  /\ refresh = [k \in Refreshes |-> IF k = 0 THEN <<"sent">> ELSE <<"none">>]
  /\ quotaInfo = -1 /\ excused = FALSE
  /\ copy = [c \in Copies |-> [phase |-> "none", text |-> 0, original |-> "icon"]]
  /\ label = "icon" /\ timers = <<>> /\ fallback = 0

\* ---- the input view ----------------------------------------------------------

SwitchTab(t) ==
  /\ view = "input" /\ tab' = t
  /\ UNCHANGED <<view, input, error, disabled, lint, last, shown, server, quota, button>>

\* pickFile: a .hwp file is refused and the file picked before stays selected.
PickFile ==
  /\ view = "input"
  /\ \/ error' = TRUE /\ UNCHANGED input
     \/ error' = FALSE /\ input' = [input EXCEPT !.file = TRUE]
  /\ UNCHANGED <<view, tab, disabled, lint, last, shown, server, quota, button>>

Type ==
  /\ view = "input"
  /\ input' = [input EXCEPT !.text = ~@]
  /\ UNCHANGED <<view, tab, error, disabled, lint, last, shown, server, quota, button>>

Ready == input[tab]
NeverLocked(ready) == FALSE   \* mutant: the button is not disabled
Locked(ready) == ready        \* setLoading(true) once there is something to send

\* submit.onclick up to the await of fetch.
Submit(n) ==
  /\ view = "input" /\ ~disabled /\ ClicksLeft
  /\ lint[n].phase = "none" /\ \A m \in 1 .. n - 1 : lint[m].phase # "none"
  /\ error' = ~Ready /\ disabled' = Locked(Ready)
  /\ lint' = IF Ready THEN [lint EXCEPT ![n] = [phase |-> "sent", fileTab |-> tab = "file"]]
                      ELSE lint
  /\ UNCHANGED <<view, tab, input, last, shown, server, quota, button>>

BugUnlocks(phase) == phase = "ok"   \* mutant: only a report enables the button again
Unlocks(phase) == TRUE              \* the button is enabled after every outcome
NoRefresh(n) == UNCHANGED refresh   \* mutant: the number is refreshed at page load only
Refresh(n) == refresh' = [refresh EXCEPT ![n] = <<"sent">>]

\* The finally of submit.onclick.
Finally(n, phase) ==
  /\ lint' = [lint EXCEPT ![n].phase = phase]
  /\ disabled' = ~Unlocks(phase)
  /\ Refresh(n)
  /\ UNCHANGED quotaInfo

FirstResult(n) == IF last = 0 THEN n ELSE last   \* mutant: lastResult is never replaced
Result(n) == n
\* A report: lastResult = body, renderReport.
LintReport(n) ==
  /\ lint[n].phase = "sent" /\ n \in decided
  /\ last' = Result(n)
  /\ shown' = n /\ view' = "report"
  /\ Finally(n, "ok")
  /\ UNCHANGED <<tab, input, error, server, excused, button>>

\* An error answer (uncharged, or a 503 after a charge); 422 to a file leads to
\* the text tab.
LintError(n) ==
  /\ lint[n].phase = "sent"
  /\ error' = TRUE
  /\ (tab' = tab) \/ (lint[n].fileTab /\ tab' = "text")
  /\ decided' = decided \cup {n}
  /\ Finally(n, "failed")
  /\ UNCHANGED <<view, input, last, shown, left, excused, button>>

\* No connection or no JSON: the server may still be at it.
LintLost(n) ==
  /\ lint[n].phase = "sent"
  /\ error' = TRUE
  /\ excused' = (excused \/ n \notin decided)
  /\ Finally(n, "failed")
  /\ UNCHANGED <<view, tab, input, last, shown, server, button>>

\* ---- the number of checks left ------------------------------------------------

AlwaysTakes == TRUE   \* mutant: a check is taken although none is left
Takes == left > 0
\* The server decides on diagnosis n, whether the page still waits or not.
Decide(n) ==
  /\ lint[n].phase # "none" /\ n \notin decided
  /\ decided' = decided \cup {n}
  /\ (left' = left) \/ (Takes /\ left' = left - 1)
  /\ UNCHANGED <<page, disabled, lint, last, shown, quota, button>>

\* The server answers /api/quota ..
ReadQuota(k) ==
  /\ refresh[k] = <<"sent">>
  /\ refresh' = [refresh EXCEPT ![k] = <<"read", left>>]
  /\ UNCHANGED <<page, disabled, lint, last, shown, server, quotaInfo, excused, button>>

\* .. and refreshQuota displays the answer when it arrives ..
ShowQuota(k) ==
  /\ refresh[k][1] = "read"
  /\ quotaInfo' = refresh[k][2]
  /\ refresh' = [refresh EXCEPT ![k] = <<"shown">>]
  /\ excused' = (excused \/ \E j \in Refreshes : j > k /\ refresh[j] = <<"shown">>)
  /\ UNCHANGED <<page, disabled, lint, last, shown, server, button>>

\* .. or ignores a failure.
QuotaLost(k) ==
  /\ refresh[k][1] \in {"sent", "read"}
  /\ refresh' = [refresh EXCEPT ![k] = <<"failed">>]
  /\ UNCHANGED <<page, disabled, lint, last, shown, server, quotaInfo, excused, button>>

\* ---- the report view -----------------------------------------------------------

Again ==
  /\ view = "report" /\ view' = "input"
  /\ UNCHANGED <<tab, input, error, disabled, lint, last, shown, server, quota, button>>

\* copy-btn.onclick up to the await of writeText.
Copy(c) ==
  /\ view = "report" /\ last # 0 /\ ClicksLeft
  /\ copy[c].phase = "none" /\ \A d \in 1 .. c - 1 : copy[d].phase # "none"
  /\ copy' = [copy EXCEPT ![c] = [phase |-> "writing", text |-> last, original |-> label]]
  /\ UNCHANGED <<page, disabled, lint, last, shown, server, quota, label, timers, fallback>>

BugRestored(c) == label   \* mutant: the label is captured when it is replaced
Restored(c) == copy[c].original

\* Both ends of the write show a label and restore the captured one in 1500 ms.
Settle(c, phase, l) ==
  /\ copy[c].phase = "writing"
  /\ copy' = [copy EXCEPT ![c].phase = phase]
  /\ label' = l
  /\ timers' = Append(timers, Restored(c))
  /\ UNCHANGED <<page, disabled, lint, last, shown, server, quota>>

CopyDone(c) == Settle(c, "done", "done") /\ UNCHANGED fallback

\* Denied, or no clipboard at all: showCopyFallback.
CopyDenied(c) == Settle(c, "denied", "failed") /\ fallback' = copy[c].text

\* Timers of the same delay fire in the order they were set.
RestoreLabel ==
  /\ timers # <<>>
  /\ label' = Head(timers) /\ timers' = Tail(timers)
  /\ UNCHANGED <<page, disabled, lint, last, shown, server, quota, copy, fallback>>
-------------------------------------------------------------------------------
Answered(n) == LintReport(n) \/ LintError(n) \/ LintLost(n)

Next ==
  \/ SwitchTab("file") \/ SwitchTab("text") \/ PickFile \/ Type \/ Again
  \/ \E n \in Lints : Submit(n) \/ Answered(n) \/ Decide(n)
  \/ \E k \in Refreshes : ReadQuota(k) \/ ShowQuota(k) \/ QuotaLost(k)
  \/ \E c \in Copies : Copy(c) \/ CopyDone(c) \/ CopyDenied(c)
  \/ RestoreLabel

Spec == Init /\ [][Next]_vars

\* A fetch of the page ends, with an answer or with an exception; the server
\* bounds every handler by its own timers (LintService.tla).
FairSpec == Spec /\ \A n \in Lints : WF_vars(Answered(n))
-------------------------------------------------------------------------------
\* Every variable keeps its type.
Labels == {"icon", "done", "failed"}
TypeOK ==
  /\ view \in {"input", "report"} /\ tab \in {"file", "text"}
  /\ input \in [{"file", "text"} -> BOOLEAN]
  /\ error \in BOOLEAN /\ disabled \in BOOLEAN /\ excused \in BOOLEAN
  /\ lint \in [Lints -> [phase : {"none", "sent", "ok", "failed"}, fileTab : BOOLEAN]]
  /\ {last, shown, fallback} \subseteq 0 .. MaxLints
  /\ left \in 0 .. Allowance /\ decided \subseteq Lints
  /\ refresh \in [Refreshes -> {<<"none">>, <<"sent">>, <<"shown">>, <<"failed">>}
                                 \cup ({"read"} \X (0 .. Allowance))]
  /\ quotaInfo \in -1 .. Allowance
  /\ copy \in [Copies -> [phase : {"none", "writing", "done", "denied"},
                          text : 0 .. MaxLints, original : Labels]]
  /\ label \in Labels /\ timers \in Seq(Labels)

\* The page never has two diagnoses under way, and waits (button disabled,
\* loading box) exactly while it has one: an impatient user cannot pay twice.
OneDiagnosis ==
  /\ Cardinality(InFlight) <= 1
  /\ disabled <=> InFlight # {}

\* What the copy button copies is what the user reads: lastResult and the
\* rendered report come from the same diagnosis, the newest that succeeded.
ReportIsNewest ==
  view = "report" =>
    /\ shown = last /\ lint[shown].phase = "ok"
    /\ \A n \in Lints : lint[n].phase = "ok" => n <= shown

\* A report the user reads is never replaced under his eyes by a late answer.
ReadingUndisturbed == [][shown' # shown => view = "input"]_vars

\* Clicks on copy that each found the icon, however their writes and timers
\* interleave, leave the icon (innerHTML is restored for it, line 275): the only
\* way to lose it is the second click that CopyLabelRestored is about.
LabelComesBack ==
  /\ timers = <<>>
  /\ \A c \in Copies : copy[c].phase \in {"none", "done", "denied"} /\ copy[c].original = "icon"
  => label = "icon"

\* Once the page is at rest the number on display is the server's, as far as
\* this page's own diagnoses go, unless an older refresh arrived after a newer
\* one, the newest failed, or a diagnosis was lost before the server decided.
Newest == CHOOSE k \in Refreshes :
            refresh[k] # <<"none">> /\ \A j \in Refreshes : j > k => refresh[j] = <<"none">>
QuotaSettles ==
  /\ InFlight = {} /\ refresh[Newest] = <<"shown">> /\ ~excused
  => quotaInfo = left

\* The user gets the button back, whatever becomes of the diagnosis.
SubmitComesBack == disabled ~> ~disabled

\* The copy button gets its icon back (comment at line 275).  A second click
\* while the first label is up captures that label as the one to restore.
CopyLabelRestored ==
  timers = <<>> /\ (\A c \in Copies : copy[c].phase # "writing") => label = "icon"
===============================================================================
