------------------------------- MODULE Diagnosis --------------------------------
(***************************************************************************)
(* One diagnosis from the document to the report on the screen: conversion *)
(* (Hwpx.tla, Docx.tla; a PDF or a paste is lines), heading promotion,     *)
(* run_lint of app/lint.py with or without AI, enrichment, highlighting.   *)
(***************************************************************************)
EXTENDS Hwpx, Docx, Findings, Highlight

CONSTANTS Documents,      \* pasted, Word and PDF documents to explore: [format, body]
          RuleFinds,      \* what the rule checkers may find: sequences of [severity, at]
          AiFinds,        \* the same for the AI checkers
          Answers         \* indexes in the answers to the enrichment prompt

Severities == {"critical", "warning", "info"}
Shapes == [severity : Severities, at : Seq(Nat \X Nat)]

\* The texts of a document are lines.
ASSUME LinesAssumption ==
  \A u \in Uploads : \A f \in DOMAIN u : \A t \in DOMAIN u[f].elems :
    u[f].elems[t].line \in TextLines
ASSUME DocumentsAssumption ==
  \A d \in Documents :
    IF d.format = "docx" THEN d.body \in Seq(Blocks)
    ELSE d.format \in {"pdf", "paste"} /\ d.body \in Seq(TextLines)
\* A quote has a token at least (what an empty one does is in the README).
ASSUME FindsAssumption ==
  \A shapes \in RuleFinds \cup AiFinds :
    /\ shapes \in Seq(Shapes)
    /\ \A n \in DOMAIN shapes : \A k \in DOMAIN shapes[n].at :
         shapes[n].at[k][1] < shapes[n].at[k][2]
ASSUME AnswersAssumption == Answers \subseteq Seq(Int)

VARIABLES
  format,    \* hwpx, docx, pdf or paste
  body,      \* the pasted lines, the lines of the PDF's pages, or the Word blocks
  source,    \* the lines of the document before headings are promoted
  text,      \* converted_text
  stage,     \* converting, read, converted, checking (AI), report, shown; rejected
  rules,     \* what the rule checkers find in this text
  findings,  \* the findings of the report
  llmRan,    \* llm_ran
  marks,     \* the ranges highlighted
  page       \* the source as written out

lintVars == <<rules, findings, llmRan>>
vars == <<hwpxVars, format, body, source, text, stage, lintVars, marks, page>>

\* A .hwpx line of one cell reads like its only text.  Strings joined from several
\* are prose, and so is a row of several cells: the bars of ' | '.join are never
\* stripped, even when all its other cells are empty.
Reads(line) ==
  LET texts == UNION { line.cells[c] : c \in DOMAIN line.cells } IN
  IF Cardinality(DOMAIN line.cells) = 1 /\ Cardinality(texts) = 1
    THEN upload[line.sec].elems[CHOOSE t \in texts : TRUE].line
    ELSE Prosaic("prose")

Elsewhere == Prosaic("elsewhere")

\* Findings quote the text, at pairs of positions; what is beyond its end, or made
\* up, does not occur in it.
Piece(span) ==
  IF span[2] <= Len(text) THEN Slice(text, span[1], span[2]) ELSE <<Elsewhere>>
Quoting(shapes, checker) ==
  [n \in DOMAIN shapes |->
     Finding(checker, n, shapes[n].severity,
             [k \in DOMAIN shapes[n].at |-> Piece(shapes[n].at[k])])]
-------------------------------------------------------------------------------
Init ==
  /\ \/ format = "hwpx" /\ HwpxInit /\ body = <<>>
     \/ /\ upload = <<>> /\ todo = {} /\ sec = 0 /\ at = 0 /\ consumed = {} /\ rows = {}
        /\ lines = <<>> /\ hasTable = FALSE /\ outcome = "reading"
        /\ \E d \in Documents : format = d.format /\ body = d.body
  /\ source = <<>> /\ text = <<>> /\ stage = "converting"
  /\ rules = <<>> /\ findings = <<>> /\ llmRan = FALSE
  /\ marks = {} /\ page = <<>>

\* ---- the converters ------------------------------------------------------------

\* Anything but the right kind of intact file of a supported format and size.
RefuseFile ==
  /\ stage = "converting" /\ format # "paste" /\ sec = 0
  /\ stage' = "rejected"
  /\ UNCHANGED <<hwpxVars, format, body, source, text, lintVars, marks, page>>

ReadHwpx ==
  /\ stage = "converting" /\ format = "hwpx" /\ HwpxNext
  /\ source' = IF outcome' = "converted" THEN [k \in DOMAIN lines |-> Reads(lines[k])] ELSE source
  /\ stage' = CASE outcome' = "converted" -> "read" [] outcome' = "rejected" -> "rejected"
                 [] OTHER -> stage
  /\ UNCHANGED <<format, body, text, lintVars, marks, page>>

ReadOther ==
  /\ stage = "converting" /\ format # "hwpx"
  /\ source' = IF format = "docx" THEN DocxLines(body) ELSE body
  /\ stage' = IF source' = <<>> THEN "rejected" ELSE "read"
  /\ UNCHANGED <<hwpxVars, format, body, text, lintVars, marks, page>>

Promote ==
  /\ stage = "read"
  /\ text' = Normalized(format, source)
  /\ stage' = "converted"
  /\ UNCHANGED <<hwpxVars, format, body, source, lintVars, marks, page>>

\* ---- run_lint --------------------------------------------------------------------

RulesOnly(found) ==
  /\ findings' = Collapsed(RunChecks(text, found), text)
  /\ llmRan' = FALSE /\ stage' = "report"

\* run_lint without a client.
LintRules ==
  /\ stage = "converted"
  /\ \E shapes \in RuleFinds :
       rules' = Quoting(shapes, "rule") /\ RulesOnly(Quoting(shapes, "rule"))
  /\ UNCHANGED <<hwpxVars, format, body, source, text, marks, page>>

\* run_lint with a client: all checkers, the collapse ..
LintAi ==
  /\ stage = "converted"
  /\ \E shapes \in RuleFinds, ai \in AiFinds :
       /\ rules' = Quoting(shapes, "rule")
       /\ findings' = Collapsed(RunChecks(text, Quoting(shapes, "rule") \o Quoting(ai, "ai")), text)
  /\ stage' = "checking"
  /\ UNCHANGED <<hwpxVars, format, body, source, text, llmRan, marks, page>>

BugLintFails ==   \* mutant: an outcome without findings
  /\ stage = "checking"
  /\ findings' = <<>> /\ llmRan' = FALSE /\ stage' = "report"
  /\ UNCHANGED <<hwpxVars, format, body, source, text, rules, marks, page>>
\* .. which some exception may have stopped on the way: rules only ..
LintFails ==
  /\ stage = "checking"
  /\ RulesOnly(rules)
  /\ UNCHANGED <<hwpxVars, format, body, source, text, rules, marks, page>>

\* .. and the enrichment: the model's advice is about what the prompt showed
\* under the index, and about nothing for an index it made up.
Enrich ==
  /\ stage = "checking"
  /\ \E answer \in Answers :
       findings' = Enriched(findings,
         [k \in DOMAIN answer |->
            [index |-> answer[k],
             about |-> IF answer[k] \in DOMAIN Prompt(findings) THEN Prompt(findings)[answer[k]]
                                                                ELSE <<"nothing">>]])
  /\ llmRan' = TRUE /\ stage' = "report"
  /\ UNCHANGED <<hwpxVars, format, body, source, text, rules, marks, page>>

\* renderReport.
Show ==
  /\ stage = "report"
  /\ marks' = AllMarks(text, [n \in DOMAIN findings |-> findings[n].quotes])
  /\ page' = Rendered(text, marks')
  /\ stage' = "shown"
  /\ UNCHANGED <<hwpxVars, format, body, source, text, lintVars>>

Next == RefuseFile \/ ReadHwpx \/ ReadOther \/ Promote \/ LintRules \/ LintAi \/ LintFails \/ Enrich \/ Show

Spec == Init /\ [][Next]_vars
-------------------------------------------------------------------------------
\* Every variable keeps its type.
TypeOK ==
  /\ upload \in Uploads \cup {<<>>} /\ todo \subseteq DOMAIN upload
  /\ sec \in 0 .. Len(upload) /\ at \in Nat /\ hasTable \in BOOLEAN
  /\ IF sec = 0 THEN consumed = {} /\ rows = {}
                ELSE rows \subseteq consumed /\ consumed \subseteq DOMAIN Elems(sec)
  /\ outcome \in {"reading", "converted", "rejected"}
  /\ format \in {"hwpx", "docx", "pdf", "paste"}
  /\ source \in Seq(TextLines) /\ text \in Seq(TextLines) /\ page \in Seq(TextLines)
  /\ stage \in {"converting", "read", "converted", "checking", "report", "shown", "rejected"}
  /\ llmRan \in BOOLEAN
  /\ \A m \in marks : m.start \in 0 .. m.end /\ m.end \in 0 .. Len(text)
                      /\ m.idx \in DOMAIN findings

\* From the document to the report: when some section of the form stands in the
\* document as a title the converter understands, exactly the other sections are
\* reported missing; when none does, there is one notice and no such pile.  It
\* holds with AI, without it and after its failure.  A title is understood when
\* it is free of decoration under the author's own heading mark, or, in a text
\* without any such mark, on a line of its own.
Understood ==
  { s \in Sections : \E k \in DOMAIN source :
      /\ source[k].says = s
      /\ IF source[k].mark # "none" THEN ~source[k].decorated ELSE ~Untouched(format, source) }
FormVerdict ==
  stage \in {"report", "shown"} =>
    LET pile == { f.id[2] : f \in ToSet(From(findings, {"missing-section"})) }
        notices == From(findings, {"profile-mismatch"})
    IN  IF Understood = {} THEN pile = {} /\ Len(notices) = 1
                           ELSE pile = Sections \ Understood /\ notices = <<>>

\* Whatever becomes of the AI, the report has all the rule checkers found, each
\* once and in the order they alone would have given it: neither what is found
\* beside it nor the second sort moves one past another (the honesty principle of
\* lint.py).
Unenriched(fs) == [n \in DOMAIN fs |-> [fs[n] EXCEPT !.advice = Own]]
RulesAlwaysReported ==
  stage \in {"report", "shown"} => From(Unenriched(findings), {"rule"}) = BySeverity(rules)

\* The critical findings come first, also after the collapse and the enrichment.
Rank == [critical |-> 0, warning |-> 1, info |-> 2]
CriticalFirst ==
  \A i, j \in DOMAIN findings :
    i < j => Rank[findings[i].severity] <= Rank[findings[j].severity]

\* A suggestion the model wrote stands under the finding it was written for,
\* whatever indexes its answer holds: repeated, too large, or negative (which
\* Python would count from the end; enrich.py:57 guards against it).
AdviceFits == \A n \in DOMAIN findings : findings[n].advice \in {Own, findings[n].id}

\* The page shows the converted text, nothing lost or doubled, whatever quotes
\* overlap or repeat.
SourceReproduced == stage = "shown" => page = text

\* Every quote that occurs in the source is marked under its own finding, unless
\* each of its occurrences runs into the mark of another quote.
EveryQuoteMarked ==
  stage = "shown" =>
    \A n \in DOMAIN findings : \A q \in ToSet(findings[n].quotes) :
      \/ \E m \in marks : m.idx = n /\ Slice(text, m.start, m.end) = q
      \/ \A a \in Occurrences(text, q) :
           \E m \in marks : a < m.end /\ m.start < a + Len(q)
===============================================================================
