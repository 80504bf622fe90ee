----------------------------- MODULE DiagnosisProofs -----------------------------
(***************************************************************************)
(* What a diagnosis guarantees for any document, findings and answers.     *)
(*                                                                         *)
(* The argument: DiagnosisInv says what there is at each stage: a file     *)
(* half read (HomeInv of HwpxProofs), a text that is the source with its   *)
(* headings promoted, findings that make a Report about this very text,    *)
(* and the page of these findings.  A report is what the collapse leaves   *)
(* (CollapsedReport), and the enrichment keeps it one (EnrichedReport), so *)
(* it does not matter which way run_lint went.                             *)
(***************************************************************************)
EXTENDS DiagnosisLemmas, HwpxProofs

\* What a report must be: the findings fs, when the rule checkers found rs and the
\* headings match the sections of found.
Report(fs, rs, found) ==
  /\ fs \in Seq(FindingSet) /\ InOrder(fs)
  /\ \A n \in DOMAIN fs : fs[n].advice \in {Own, fs[n].id}
  /\ Verdict(fs, found)
  /\ From(Unenriched(fs), {"rule"}) = BySeverity(rs)

\* It is one after the collapse, whatever was found beside the rules, ..
LEMMA CollapsedReport ==
  ASSUME NEW txt, NEW rs, NEW others \in Others, From(others, {"rule"}) = rs
  PROVE  Report(Collapsed(RunChecks(txt, others), txt), rs, Matched(txt))
<1> DEFINE fs == Collapsed(RunChecks(txt, others), txt)
<1>1. /\ fs \in Seq(FindingSet) /\ InOrder(fs)
      /\ From(fs, {"rule"}) = BySeverity(From(others, {"rule"}))
      /\ Verdict(fs, Matched(txt))
      /\ \A f \in ToSet(fs) : f.advice = Own
  BY CollapsedIs
<1> HIDE DEF fs
<1>2. Unenriched(fs) = fs /\ \A n \in DOMAIN fs : fs[n].advice \in {Own, fs[n].id}
  BY <1>1, OwnAdvice
<1>3. Report(fs, rs, Matched(txt))
  BY <1>1, <1>2 DEF Report
<1> QED  BY <1>3 DEF fs

\* .. and after the enrichment, whatever the model answers.
LEMMA EnrichedReport ==
  ASSUME NEW fs, NEW rs, NEW found, Report(fs, rs, found), NEW answer \in Seq(Int)
  PROVE  Report(Enriched(fs, AnswerTo(fs, answer)), rs, found)
<1> DEFINE es == Enriched(fs, AnswerTo(fs, answer))
<1>1. /\ fs \in Seq(FindingSet) /\ InOrder(fs) /\ Verdict(fs, found)
      /\ \A n \in DOMAIN fs : fs[n].advice \in {Own, fs[n].id}
      /\ From(Unenriched(fs), {"rule"}) = BySeverity(rs)
  BY DEF Report
<1>2. es \in SameFindings(fs)
  BY <1>1, EnrichedIs
<1> HIDE DEF es
<1>3. /\ es \in Seq(FindingSet) /\ Unenriched(es) = Unenriched(fs) /\ InOrder(es) /\ Verdict(es, found)
      /\ \A n \in DOMAIN es : es[n].advice \in {Own, es[n].id}
  BY <1>1, <1>2, SameKeeps
<1>4. Report(es, rs, found)
  BY <1>1, <1>3 DEF Report
<1> QED  BY <1>4 DEF es

\* The lines of a .hwpx file: the texts of a line are texts of its file.
LEMMA ReadsIs ==
  ASSUME HomeInv, NEW k \in DOMAIN lines
  PROVE  Reads(lines[k]) \in TextLines
<1> DEFINE line == lines[k]
           texts == UNION { line.cells[c] : c \in DOMAIN line.cells }
<1>1. \A t \in texts : t \in TextElems(line.sec)
  BY DEF HomeInv, AllAtHome
<1>2. upload \in Uploads /\ line.sec \in DOMAIN upload
  BY DEF HomeInv, HwpxInv, HwpxTypes, FilesInOrder
<1>3. Prosaic("prose") \in TextLines
  BY DEF Prosaic, TextLines, Prose, Marks
<1>4. Reads(line) = IF Cardinality(DOMAIN line.cells) = 1 /\ Cardinality(texts) = 1
                      THEN upload[line.sec].elems[CHOOSE t \in texts : TRUE].line
                      ELSE Prosaic("prose")
  BY DEF Reads
<1> HIDE DEF texts, line
<1>5. Cardinality(texts) = 1 => (CHOOSE t \in texts : TRUE) \in texts
  <2>1. Cardinality(texts) = 1 => texts # {}
    BY FS_EmptySet
  <2> QED  BY <2>1
<1>6. \A t \in texts : upload[line.sec].elems[t].line \in TextLines
  <2>1. \A t \in texts : t \in DOMAIN upload[line.sec].elems
    BY <1>1 DEF TextElems, Elems
  <2> QED  BY <1>2, <2>1, LinesAssumption
<1> QED  BY <1>3, <1>4, <1>5, <1>6 DEF line
-------------------------------------------------------------------------------
\* The inductive invariant.  There is a .hwpx file, and convert_hwpx is on its way
\* through it (HomeInv), or there is none.
FileInv ==
  /\ hasTable \in BOOLEAN /\ outcome \in {"reading", "converted", "rejected"}
  /\ IF format = "hwpx" THEN HomeInv
     ELSE /\ upload = <<>> /\ todo = {} /\ sec = 0 /\ at = 0 /\ consumed = {} /\ rows = {}
          /\ lines = <<>> /\ outcome = "reading"

\* The text is the source with its headings promoted.
TextInv ==
  /\ format \in {"hwpx", "docx", "pdf", "paste"}
  /\ format # "hwpx" => IF format = "docx" THEN body \in Seq(Blocks) ELSE body \in Seq(TextLines)
  /\ source \in Seq(TextLines) /\ text \in Seq(TextLines)
  /\ stage \in {"converting", "read", "converted", "checking", "report", "shown", "rejected"}
  /\ stage \in {"converted", "checking", "report", "shown"} => text = Normalized(format, source)

\* There is no report, or one about this text.
FindingsInv ==
  /\ llmRan \in BOOLEAN
  /\ rules \in Others /\ \A f \in ToSet(rules) : Checker(f) = "rule"
  /\ IF stage \in {"checking", "report", "shown"} THEN Report(findings, rules, Matched(text))
                                                  ELSE findings = <<>>

\* There is no page, or that of this text and these findings.
PageInv ==
  IF stage = "shown" THEN marks \in MarkSets(text, Len(findings)) /\ page = text /\ EveryQuoteMarked
                     ELSE marks = {} /\ page = <<>>

DiagnosisInv == FileInv /\ TextInv /\ FindingsInv /\ PageInv

LEMMA InitDiagnosis == Init => DiagnosisInv
<1> SUFFICES ASSUME Init  PROVE DiagnosisInv
  OBVIOUS
<1>1. /\ source = <<>> /\ text = <<>> /\ stage = "converting"
      /\ rules = <<>> /\ findings = <<>> /\ llmRan = FALSE /\ marks = {} /\ page = <<>>
  BY DEF Init
<1>2. <<>> \in Seq(TextLines) /\ <<>> \in Seq(FindingSet) /\ ToSet(<<>>) = {}
  BY DEF ToSet
<1>3. FindingsInv /\ PageInv
  BY <1>1, <1>2 DEF FindingsInv, PageInv, Others
<1>4. CASE format = "hwpx" /\ HwpxInit
  <2>1. HomeInv
    BY <1>4, InitHome
  <2>2. hasTable = FALSE /\ outcome = "reading"
    BY <1>4 DEF HwpxInit
  <2> QED  BY <1>1, <1>2, <1>3, <1>4, <2>1, <2>2 DEF DiagnosisInv, FileInv, TextInv
<1>5. CASE /\ upload = <<>> /\ todo = {} /\ sec = 0 /\ at = 0 /\ consumed = {} /\ rows = {}
           /\ lines = <<>> /\ hasTable = FALSE /\ outcome = "reading"
           /\ \E d \in Documents : format = d.format /\ body = d.body
  <2>1. PICK d \in Documents : format = d.format /\ body = d.body
    BY <1>5
  <2>2. IF format = "docx" THEN body \in Seq(Blocks)
        ELSE format \in {"pdf", "paste"} /\ body \in Seq(TextLines)
    BY <2>1, DocumentsAssumption
  <2>3. FileInv
    BY <1>5, <2>2 DEF FileInv
  <2>4. TextInv
    BY <1>1, <1>2, <2>2 DEF TextInv
  <2> QED  BY <1>3, <2>3, <2>4 DEF DiagnosisInv
<1> QED  BY <1>4, <1>5 DEF Init

\* What a step of convert_hwpx does to the rest of its state.
LEMMA HwpxStepTypes ==
  ASSUME HwpxNext, hasTable \in BOOLEAN
  PROVE  hasTable' \in BOOLEAN /\ outcome' \in {"reading", "converted", "rejected"}
<1>1. CASE OpenSection
  BY <1>1 DEF OpenSection
<1>2. CASE FlattenRow
  BY <1>2 DEF FlattenRow
<1>3. CASE EndOfFile
  BY <1>3 DEF EndOfFile
<1>4. CASE VisitTable(at + 1)
  BY <1>4 DEF VisitTable, Visit
<1>5. CASE VisitParagraph(at + 1)
  BY <1>5 DEF VisitParagraph, Visit
<1>6. CASE VisitOther(at + 1)
  BY <1>6 DEF VisitOther, Visit
<1> QED  BY <1>1, <1>2, <1>3, <1>4, <1>5, <1>6 DEF HwpxNext

\* A step that leaves the file as it is.
LEMMA FileStays ==
  ASSUME FileInv, UNCHANGED <<hwpxVars, format>>
  PROVE  FileInv'
<1>1. UNCHANGED hwpxVars /\ format' = format
  OBVIOUS
<1>2. CASE format = "hwpx"
  <2>1. HomeInv'
    BY <1>1, <1>2, HomeNext DEF FileInv
  <2> QED  BY <1>1, <1>2, <2>1 DEF FileInv, hwpxVars
<1>3. CASE format # "hwpx"
  BY <1>1, <1>3 DEF FileInv, hwpxVars
<1> QED  BY <1>2, <1>3

\* A step before there is a report, and one before there is a page.
LEMMA NoFindingsYet ==
  ASSUME FindingsInv, UNCHANGED <<lintVars>>,
         stage \notin {"checking", "report", "shown"}, stage' \notin {"checking", "report", "shown"}
  PROVE  FindingsInv'
<1>1. rules' = rules /\ findings' = findings /\ llmRan' = llmRan /\ findings = <<>>
  BY DEF lintVars, FindingsInv
<1> QED  BY <1>1 DEF FindingsInv

LEMMA NoPageYet ==
  ASSUME PageInv, marks' = marks, page' = page, stage # "shown", stage' # "shown"
  PROVE  PageInv'
BY DEF PageInv
-------------------------------------------------------------------------------
LEMMA RefuseFileStep ==
  ASSUME DiagnosisInv, RefuseFile
  PROVE  DiagnosisInv'
<1>1. /\ stage = "converting" /\ stage' = "rejected"
      /\ UNCHANGED <<hwpxVars, format>> /\ UNCHANGED <<lintVars>>
      /\ body' = body /\ source' = source /\ text' = text /\ format' = format
      /\ marks' = marks /\ page' = page
  BY DEF RefuseFile
<1>2. FileInv /\ TextInv /\ FindingsInv /\ PageInv
  BY DEF DiagnosisInv
<1>3. FileInv'
  BY <1>1, <1>2, FileStays
<1>4. TextInv'
  BY <1>1, <1>2 DEF TextInv
<1>5. FindingsInv' /\ PageInv'
  BY <1>1, <1>2, NoFindingsYet, NoPageYet
<1> QED  BY <1>3, <1>4, <1>5 DEF DiagnosisInv

LEMMA ReadHwpxStep ==
  ASSUME DiagnosisInv, ReadHwpx
  PROVE  DiagnosisInv'
<1>1. /\ stage = "converting" /\ format = "hwpx" /\ HwpxNext
      /\ source' = IF outcome' = "converted" THEN [k \in DOMAIN lines |-> Reads(lines[k])] ELSE source
      /\ stage' = CASE outcome' = "converted" -> "read" [] outcome' = "rejected" -> "rejected"
                    [] OTHER -> stage
      /\ UNCHANGED <<lintVars>>
      /\ body' = body /\ text' = text /\ format' = format /\ marks' = marks /\ page' = page
  BY DEF ReadHwpx
<1>2. FileInv /\ TextInv /\ FindingsInv /\ PageInv /\ HomeInv
  BY <1>1 DEF DiagnosisInv, FileInv
<1>3. hasTable' \in BOOLEAN /\ outcome' \in {"reading", "converted", "rejected"}
  BY <1>1, <1>2, HwpxStepTypes DEF FileInv
<1>4. FileInv'
  <2>1. HomeInv'
    BY <1>1, <1>2, HomeNext
  <2> QED  BY <1>1, <1>3, <2>1 DEF FileInv
<1>5. stage' \in {"converting", "read", "rejected"}
  BY <1>1, <1>3
<1>6. source' \in Seq(TextLines)
  <2>1. DOMAIN lines = 1 .. Len(lines) /\ Len(lines) \in Nat
    BY <1>2 DEF HomeInv, HwpxInv, HwpxTypes
  <2>2. \A k \in DOMAIN lines : Reads(lines[k]) \in TextLines
    BY <1>2, ReadsIs
  <2>3. [k \in DOMAIN lines |-> Reads(lines[k])] \in Seq(TextLines)
    BY <2>1, <2>2
  <2> QED  BY <1>1, <1>2, <2>3 DEF TextInv
<1>7. TextInv'
  BY <1>1, <1>2, <1>5, <1>6 DEF TextInv
<1>8. FindingsInv' /\ PageInv'
  BY <1>1, <1>2, <1>5, NoFindingsYet, NoPageYet
<1> QED  BY <1>4, <1>7, <1>8 DEF DiagnosisInv

LEMMA ReadOtherStep ==
  ASSUME DiagnosisInv, ReadOther
  PROVE  DiagnosisInv'
<1>1. /\ stage = "converting" /\ format # "hwpx"
      /\ source' = IF format = "docx" THEN DocxLines(body) ELSE body
      /\ stage' = IF source' = <<>> THEN "rejected" ELSE "read"
      /\ UNCHANGED <<hwpxVars, format>> /\ UNCHANGED <<lintVars>>
      /\ body' = body /\ text' = text /\ format' = format /\ marks' = marks /\ page' = page
  BY DEF ReadOther
<1>2. FileInv /\ TextInv /\ FindingsInv /\ PageInv
  BY DEF DiagnosisInv
<1>3. FileInv'
  BY <1>1, <1>2, FileStays
<1>4. source' \in Seq(TextLines)
  BY <1>1, <1>2, DocxLinesIs DEF TextInv
<1>5. stage' \in {"read", "rejected"}
  BY <1>1
<1>6. TextInv'
  BY <1>1, <1>2, <1>4, <1>5 DEF TextInv
<1>7. FindingsInv' /\ PageInv'
  BY <1>1, <1>2, <1>5, NoFindingsYet, NoPageYet
<1> QED  BY <1>3, <1>6, <1>7 DEF DiagnosisInv

LEMMA PromoteStep ==
  ASSUME DiagnosisInv, Promote
  PROVE  DiagnosisInv'
<1>1. /\ stage = "read" /\ stage' = "converted" /\ text' = Normalized(format, source)
      /\ UNCHANGED <<hwpxVars, format>> /\ UNCHANGED <<lintVars>>
      /\ body' = body /\ source' = source /\ format' = format /\ marks' = marks /\ page' = page
  BY DEF Promote
<1>2. FileInv /\ TextInv /\ FindingsInv /\ PageInv
  BY DEF DiagnosisInv
<1>3. FileInv'
  BY <1>1, <1>2, FileStays
<1>4. text' \in Seq(TextLines)
  BY <1>1, <1>2, NormalizedIs DEF TextInv
<1>5. TextInv'
  BY <1>1, <1>2, <1>4 DEF TextInv
<1>6. FindingsInv' /\ PageInv'
  BY <1>1, <1>2, NoFindingsYet, NoPageYet
<1> QED  BY <1>3, <1>5, <1>6 DEF DiagnosisInv

\* A step of run_lint that leaves a report.
LEMMA LintKeeps ==
  ASSUME DiagnosisInv, stage \in {"converted", "checking"}, stage' \in {"checking", "report"},
         UNCHANGED <<hwpxVars, format>>, body' = body, source' = source, text' = text,
         marks' = marks, page' = page, llmRan' \in BOOLEAN,
         rules' \in Others, \A f \in ToSet(rules') : Checker(f) = "rule",
         Report(findings', rules', Matched(text))
  PROVE  DiagnosisInv'
<1>1. FileInv /\ TextInv /\ FindingsInv /\ PageInv
  BY DEF DiagnosisInv
<1>2. FileInv'
  BY <1>1, FileStays
<1>3. TextInv'
  BY <1>1 DEF TextInv
<1>4. FindingsInv'
  BY DEF FindingsInv
<1>5. PageInv'
  BY <1>1, NoPageYet
<1> QED  BY <1>2, <1>3, <1>4, <1>5 DEF DiagnosisInv

LEMMA LintRulesStep ==
  ASSUME DiagnosisInv, LintRules
  PROVE  DiagnosisInv'
<1>1. PICK shapes \in RuleFinds : rules' = Quoting(shapes, "rule") /\ RulesOnly(Quoting(shapes, "rule"))
  BY DEF LintRules
<1>2. /\ stage = "converted" /\ stage' = "report" /\ llmRan' = FALSE
      /\ findings' = Collapsed(RunChecks(text, rules'), text)
      /\ UNCHANGED <<hwpxVars, format>> /\ body' = body /\ source' = source /\ text' = text
      /\ marks' = marks /\ page' = page
  BY <1>1 DEF LintRules, RulesOnly
<1>3. rules' \in Others /\ \A f \in ToSet(rules') : Checker(f) = "rule"
  BY <1>1, QuotingIs DEF DiagnosisInv, TextInv
<1>4. From(rules', {"rule"}) = rules'
  BY <1>3, FromAll DEF Others
<1>5. Report(findings', rules', Matched(text))
  BY <1>2, <1>3, <1>4, CollapsedReport
<1> QED  BY <1>2, <1>3, <1>5, LintKeeps

LEMMA LintAiStep ==
  ASSUME DiagnosisInv, LintAi
  PROVE  DiagnosisInv'
<1>1. PICK shapes \in RuleFinds, ai \in AiFinds :
        /\ rules' = Quoting(shapes, "rule")
        /\ findings' = Collapsed(RunChecks(text, Quoting(shapes, "rule") \o Quoting(ai, "ai")), text)
  BY DEF LintAi
<1>2. /\ stage = "converted" /\ stage' = "checking" /\ llmRan' = llmRan
      /\ UNCHANGED <<hwpxVars, format>> /\ body' = body /\ source' = source /\ text' = text
      /\ marks' = marks /\ page' = page
  BY DEF LintAi
<1>3. text \in Seq(TextLines) /\ llmRan \in BOOLEAN
  BY DEF DiagnosisInv, TextInv, FindingsInv
<1> DEFINE beside == Quoting(ai, "ai")
<1>4. rules' \in Others /\ \A f \in ToSet(rules') : Checker(f) = "rule"
  BY <1>1, <1>3, QuotingIs
<1>5. beside \in Others /\ \A f \in ToSet(beside) : Checker(f) = "ai"
  BY <1>3, QuotingIs
<1>6. findings' = Collapsed(RunChecks(text, rules' \o beside), text)
  BY <1>1
<1> HIDE DEF beside
<1>7. rules' \o beside \in Others /\ From(rules' \o beside, {"rule"}) = rules'
  BY <1>4, <1>5, BesideRules
<1>8. Report(findings', rules', Matched(text))
  BY <1>6, <1>7, CollapsedReport
<1> QED  BY <1>2, <1>3, <1>4, <1>8, LintKeeps

LEMMA LintFailsStep ==
  ASSUME DiagnosisInv, LintFails
  PROVE  DiagnosisInv'
<1>1. /\ stage = "checking" /\ stage' = "report" /\ llmRan' = FALSE /\ rules' = rules
      /\ findings' = Collapsed(RunChecks(text, rules), text)
      /\ UNCHANGED <<hwpxVars, format>> /\ body' = body /\ source' = source /\ text' = text
      /\ marks' = marks /\ page' = page
  BY DEF LintFails, RulesOnly
<1>2. rules \in Others /\ \A f \in ToSet(rules) : Checker(f) = "rule"
  BY DEF DiagnosisInv, FindingsInv
<1>3. From(rules, {"rule"}) = rules
  BY <1>2, FromAll DEF Others
<1>4. Report(findings', rules', Matched(text))
  BY <1>1, <1>2, <1>3, CollapsedReport
<1> QED  BY <1>1, <1>2, <1>4, LintKeeps

LEMMA EnrichStep ==
  ASSUME DiagnosisInv, Enrich
  PROVE  DiagnosisInv'
<1>1. PICK answer \in Answers : findings' = Enriched(findings, AnswerTo(findings, answer))
  BY DEF Enrich, AnswerTo
<1>2. /\ stage = "checking" /\ stage' = "report" /\ llmRan' = TRUE /\ rules' = rules
      /\ UNCHANGED <<hwpxVars, format>> /\ body' = body /\ source' = source /\ text' = text
      /\ marks' = marks /\ page' = page
  BY DEF Enrich
<1>3. /\ rules \in Others /\ \A f \in ToSet(rules) : Checker(f) = "rule"
      /\ Report(findings, rules, Matched(text))
  BY <1>2 DEF DiagnosisInv, FindingsInv
<1>4. answer \in Seq(Int)
  BY AnswersAssumption
<1>5. Report(findings', rules', Matched(text))
  BY <1>1, <1>2, <1>3, <1>4, EnrichedReport
<1> QED  BY <1>2, <1>3, <1>5, LintKeeps

LEMMA ShowStep ==
  ASSUME DiagnosisInv, Show
  PROVE  DiagnosisInv'
<1> DEFINE quotesOf == [n \in DOMAIN findings |-> findings[n].quotes]
<1>1. /\ stage = "report" /\ stage' = "shown" /\ marks' = AllMarks(text, quotesOf)
      /\ page' = Rendered(text, marks')
      /\ UNCHANGED <<hwpxVars, format>> /\ body' = body /\ source' = source /\ text' = text
      /\ rules' = rules /\ findings' = findings /\ llmRan' = llmRan /\ format' = format
  BY DEF Show, lintVars
<1>2. FileInv /\ TextInv /\ FindingsInv /\ PageInv /\ text \in Seq(TextLines)
  BY DEF DiagnosisInv, TextInv
<1>3. FileInv'
  BY <1>1, <1>2, FileStays
<1>4. TextInv'
  BY <1>1, <1>2 DEF TextInv
<1>5. Report(findings, rules, Matched(text))
  BY <1>1, <1>2 DEF FindingsInv
<1>6. FindingsInv'
  BY <1>1, <1>2, <1>5 DEF FindingsInv
<1>7. findings \in Seq(FindingSet) /\ DOMAIN findings = 1 .. Len(findings) /\ Len(findings) \in Nat
  BY <1>5 DEF Report
<1>8. quotesOf \in Seq(Seq(Quotes)) /\ Len(quotesOf) = Len(findings)
  <2>1. \A n \in DOMAIN findings : findings[n].quotes \in Seq(Quotes)
    <3>1. \A n \in DOMAIN findings : findings[n] \in FindingSet
      BY <1>7
    <3> QED  BY <3>1 DEF FindingSet
  <2> QED  BY <1>7, <2>1
<1>9. \A n \in DOMAIN findings : quotesOf[n] = findings[n].quotes
  OBVIOUS
<1> HIDE DEF quotesOf
<1>10. /\ marks' \in MarkSets(text, Len(findings))
       /\ \A n \in 1 .. Len(findings) : \A q \in ToSet(quotesOf[n]) : Served(text, marks', n, q)
  BY <1>1, <1>2, <1>8, AllMarksIs
<1>11. page' = text
  BY <1>1, <1>2, <1>10, RenderedIs
<1>12. EveryQuoteMarked'
  <2>1. \A n \in DOMAIN findings : \A q \in ToSet(findings[n].quotes) : Served(text, marks', n, q)
    BY <1>7, <1>9, <1>10
  <2> QED  BY <1>1, <2>1 DEF EveryQuoteMarked, Served
<1>13. PageInv'
  BY <1>1, <1>10, <1>11, <1>12 DEF PageInv
<1> QED  BY <1>3, <1>4, <1>6, <1>13 DEF DiagnosisInv

LEMMA DiagnosisNext ==
  ASSUME DiagnosisInv, [Next]_vars
  PROVE  DiagnosisInv'
<1>1. CASE RefuseFile
  BY <1>1, RefuseFileStep
<1>2. CASE ReadHwpx
  BY <1>2, ReadHwpxStep
<1>3. CASE ReadOther
  BY <1>3, ReadOtherStep
<1>4. CASE Promote
  BY <1>4, PromoteStep
<1>5. CASE LintRules
  BY <1>5, LintRulesStep
<1>6. CASE LintAi
  BY <1>6, LintAiStep
<1>7. CASE LintFails
  BY <1>7, LintFailsStep
<1>8. CASE Enrich
  BY <1>8, EnrichStep
<1>9. CASE Show
  BY <1>9, ShowStep
<1>10. CASE UNCHANGED vars
  <2>1. /\ UNCHANGED <<hwpxVars, format>> /\ body' = body /\ source' = source /\ text' = text
        /\ stage' = stage /\ rules' = rules /\ findings' = findings /\ llmRan' = llmRan
        /\ marks' = marks /\ page' = page /\ format' = format
    BY <1>10 DEF vars, lintVars
  <2>2. FileInv /\ TextInv /\ FindingsInv /\ PageInv
    BY DEF DiagnosisInv
  <2>3. FileInv'
    BY <2>1, <2>2, FileStays
  <2>4. TextInv' /\ FindingsInv'
    BY <2>1, <2>2 DEF TextInv, FindingsInv
  <2>5. PageInv'
    BY <2>1, <2>2 DEF PageInv, EveryQuoteMarked
  <2> QED  BY <2>3, <2>4, <2>5 DEF DiagnosisInv
<1> QED  BY <1>1, <1>2, <1>3, <1>4, <1>5, <1>6, <1>7, <1>8, <1>9, <1>10 DEF Next

LEMMA DiagnosisInvariant == Spec => []DiagnosisInv
BY InitDiagnosis, DiagnosisNext, PTL DEF Spec
-------------------------------------------------------------------------------
\* Every variable of a diagnosis keeps its type.
LEMMA TypesHold == DiagnosisInv => TypeOK
<1> SUFFICES ASSUME DiagnosisInv  PROVE TypeOK
  OBVIOUS
<1>1. FileInv /\ TextInv /\ FindingsInv /\ PageInv
  BY DEF DiagnosisInv
<1>2. /\ upload \in Uploads \cup {<<>>} /\ todo \subseteq DOMAIN upload
      /\ sec \in 0 .. Len(upload) /\ at \in Nat
      /\ IF sec = 0 THEN consumed = {} /\ rows = {}
                    ELSE rows \subseteq consumed /\ consumed \subseteq DOMAIN Elems(sec)
  <2>1. CASE format = "hwpx"
    <3>1. HwpxTypes /\ RowsTogether
      BY <1>1, <2>1 DEF FileInv, HomeInv, HwpxInv
    <3>2. upload \in Uploads /\ DOMAIN upload = 1 .. Len(upload) /\ Len(upload) \in Nat
      BY <3>1, UploadsAssumption DEF HwpxTypes
    <3>3. sec \in 0 .. Len(upload)
      BY <3>1, <3>2 DEF HwpxTypes
    <3>4. sec # 0 => rows \subseteq consumed
      <4> SUFFICES ASSUME sec # 0, NEW r \in rows  PROVE r \in consumed
        OBVIOUS
      <4>1. sec \in DOMAIN upload /\ r \in DOMAIN Elems(sec)
        BY <3>1 DEF HwpxTypes
      <4>2. r \in Iter(sec, r)
        BY <3>2, <4>1, Itself
      <4> QED  BY <3>1, <4>2 DEF RowsTogether
    <3> QED  BY <3>1, <3>2, <3>3, <3>4 DEF HwpxTypes
  <2>2. CASE format # "hwpx"
    BY <1>1, <2>2 DEF FileInv
  <2> QED  BY <2>1, <2>2
<1>3. \A m \in marks : m.start \in 0 .. m.end /\ m.end \in 0 .. Len(text) /\ m.idx \in DOMAIN findings
  <2>1. CASE stage = "shown"
    <3>1. findings \in Seq(FindingSet) /\ text \in Seq(TextLines) /\ marks \in MarkSets(text, Len(findings))
      BY <1>1, <2>1 DEF FindingsInv, Report, TextInv, PageInv
    <3>2. DOMAIN findings = 1 .. Len(findings) /\ Len(text) \in Nat
      BY <3>1
    <3> QED  BY <3>1, <3>2 DEF MarkSets, MarkOf
  <2>2. CASE stage # "shown"
    BY <1>1, <2>2 DEF PageInv
  <2> QED  BY <2>1, <2>2
<1>4. page \in Seq(TextLines)
  <2>1. <<>> \in Seq(TextLines)
    OBVIOUS
  <2> QED  BY <1>1, <2>1 DEF PageInv, TextInv
<1> QED  BY <1>1, <1>2, <1>3, <1>4 DEF TypeOK, FileInv, TextInv, FindingsInv

LEMMA VerdictHolds == DiagnosisInv => FormVerdict
<1> SUFFICES ASSUME DiagnosisInv, stage \in {"report", "shown"}
             PROVE  Verdict(findings, Understood)
  BY DEF FormVerdict, Verdict
<1>1. Verdict(findings, Matched(text))
  BY DEF DiagnosisInv, FindingsInv, Report
<1>2. Matched(text) = Understood
  BY HeadingsUnderstood DEF DiagnosisInv, TextInv
<1> QED  BY <1>1, <1>2

LEMMA ReportHolds == DiagnosisInv => RulesAlwaysReported /\ CriticalFirst /\ AdviceFits
<1> SUFFICES ASSUME DiagnosisInv  PROVE RulesAlwaysReported /\ CriticalFirst /\ AdviceFits
  OBVIOUS
<1>1. FindingsInv
  BY DEF DiagnosisInv
<1>2. CASE stage \in {"checking", "report", "shown"}
  <2>1. Report(findings, rules, Matched(text))
    BY <1>1, <1>2 DEF FindingsInv
  <2> QED  BY <2>1 DEF Report, InOrder, RulesAlwaysReported, CriticalFirst, AdviceFits
<1>3. CASE stage \notin {"checking", "report", "shown"}
  <2>1. findings = <<>>
    BY <1>1, <1>3 DEF FindingsInv
  <2> QED  BY <1>3, <2>1 DEF RulesAlwaysReported, CriticalFirst, AdviceFits
<1> QED  BY <1>2, <1>3

LEMMA PageHolds == DiagnosisInv => SourceReproduced /\ EveryQuoteMarked
BY DEF DiagnosisInv, PageInv, SourceReproduced, EveryQuoteMarked

LEMMA FileHolds == DiagnosisInv => DocumentOrder /\ TextOnce /\ EveryTextAtHome
<1> SUFFICES ASSUME DiagnosisInv  PROVE DocumentOrder /\ TextOnce /\ EveryTextAtHome
  OBVIOUS
<1>1. FileInv
  BY DEF DiagnosisInv
<1>2. CASE format = "hwpx"
  <2>1. HomeInv
    BY <1>1, <1>2 DEF FileInv
  <2> QED  BY <2>1, HomeAtTheEnd DEF HomeInv, HwpxInv
<1>3. CASE format # "hwpx"
  <2>1. lines = <<>> /\ outcome = "reading"
    BY <1>1, <1>3 DEF FileInv
  <2> QED  BY <2>1 DEF DocumentOrder, TextOnce, EveryTextAtHome
<1> QED  BY <1>2, <1>3

\* Every variable keeps its type, from the file to the page.
THEOREM DiagnosisTyped == Spec => []TypeOK
BY DiagnosisInvariant, TypesHold, PTL

\* For any document, any findings beside it and any answer of the model: exactly
\* the sections without a title the converter understands are reported missing,
\* and when there is no such title, one notice is (_collapse_missing_sections).
THEOREM FormVerdictHolds == Spec => []FormVerdict
BY DiagnosisInvariant, VerdictHolds, PTL

\* With AI, without it and after its failure the report has what the rule checkers
\* found, each once and in the order they alone would have given it (run_lint).
THEOREM RulesReported == Spec => []RulesAlwaysReported
BY DiagnosisInvariant, ReportHolds, PTL

\* The critical findings come first, also after the collapse and the enrichment.
THEOREM CriticalAtTheTop == Spec => []CriticalFirst
BY DiagnosisInvariant, ReportHolds, PTL

\* Whatever indexes the model answers with, negative, too large or twice, its
\* advice stands under the finding it was written for (enrich_suggestions).
THEOREM AdviceInPlace == Spec => []AdviceFits
BY DiagnosisInvariant, ReportHolds, PTL

\* The page shows the converted text, nothing lost or doubled, whatever quotes
\* overlap or repeat, as long as none is empty (highlightSource).
THEOREM SourceShown == Spec => []SourceReproduced
BY DiagnosisInvariant, PageHolds, PTL

\* Every quote is marked under its own finding, unless each of its occurrences
\* runs into the mark of another (highlightSource).
THEOREM QuotesMarked == Spec => []EveryQuoteMarked
BY DiagnosisInvariant, PageHolds, PTL

\* What convert_hwpx guarantees alone it guarantees within a diagnosis: the lines
\* follow the document, no text comes out twice, and every text is at home.
THEOREM FileKept == Spec => [](DocumentOrder /\ TextOnce /\ EveryTextAtHome)
BY DiagnosisInvariant, FileHolds, PTL
===============================================================================
