-------------------------------- MODULE Findings --------------------------------
(***************************************************************************)
(* The findings of a report: app/lint.py's collapse of missing sections    *)
(* and app/enrich.py's merge of suggestions, on what the engine (external) *)
(* returns.                                                                *)
(*                                                                         *)
(* A finding is named by its checker and a number or section; quotes are   *)
(* pieces of the text; advice names the finding its suggestion is about,   *)
(* Own for the checker's own.                                              *)
(***************************************************************************)
EXTENDS Integers, Headings, SequencesExt

Own == <<"own">>
Finding(checker, n, severity, quotes) ==
  [id |-> <<checker, n>>, severity |-> severity, quotes |-> quotes, advice |-> Own]
Checker(f) == f.id[1]

\* [f for f in fs if ..]: what is at the positions of K, in its order.
Picked(fs, K) ==
  LET upTo[k \in 0 .. Len(fs)] ==
        IF k = 0 THEN <<>>
        ELSE IF k \in K THEN Append(upTo[k - 1], fs[k]) ELSE upTo[k - 1]
  IN  upTo[Len(fs)]
From(fs, checkers) == Picked(fs, { k \in DOMAIN fs : Checker(fs[k]) \in checkers })
Without(fs, checker) == Picked(fs, { k \in DOMAIN fs : Checker(fs[k]) # checker })

\* sorted(.., key=_SEVERITY_ORDER), which is stable.
OfSeverity(fs, severity) == Picked(fs, { k \in DOMAIN fs : fs[k].severity = severity })
BySeverity(fs) ==
  OfSeverity(fs, "critical") \o OfSeverity(fs, "warning") \o OfSeverity(fs, "info")

\* External: run_checks reports each section of the profile that no heading
\* matches, beside what the other checkers found, by severity.
Missing(text) ==
  [k \in 1 .. Cardinality(Sections \ Matched(text)) |->
     Finding("missing-section", SetToSeq(Sections \ Matched(text))[k], "critical", <<>>)]
RunChecks(text, others) == BySeverity(Missing(text) \o others)

Notice == Finding("profile-mismatch", 0, "info", <<>>)

BugCollapsed(fs, text) ==   \* mutant: the notice comes first
  IF Matched(text) # {} \/ From(fs, {"missing-section"}) = <<>> THEN fs
  ELSE <<Notice>> \o Without(fs, "missing-section")
\* _collapse_missing_sections.
Collapsed(fs, text) ==
  IF Matched(text) # {} \/ From(fs, {"missing-section"}) = <<>> THEN fs
  ELSE BySeverity(Append(Without(fs, "missing-section"), Notice))

\* _build_user_prompt numbers the findings from 0.
Prompt(fs) == [i \in 0 .. Len(fs) - 1 |-> fs[i + 1].id]

BugPosition(fs, index) ==   \* mutant: a negative index counts from the end
  IF index < 0 THEN Len(fs) + index + 1 ELSE index + 1
\* The finding an item is for; 0 when it is out of range.
Position(fs, index) == IF index \in 0 .. Len(fs) - 1 THEN index + 1 ELSE 0

\* enrich_suggestions: the items of the answer in their order, the last one for a
\* finding stands.
Enriched(fs, items) ==
  LET after[k \in 0 .. Len(items)] ==
        IF k = 0 THEN fs
        ELSE LET p == Position(fs, items[k].index)
             IN  IF p \in DOMAIN fs THEN [after[k - 1] EXCEPT ![p].advice = items[k].about]
                                    ELSE after[k - 1]
  IN  after[Len(items)]
===============================================================================
