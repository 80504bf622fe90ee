# plan-lint-web: a verification project

TLA+ models, TLC runs and TLAPS proofs for **plan-lint-web**: a small web service
(FastAPI, one process, one page) that lints a Korean start-up business plan. A
visitor uploads a file or pastes text, free rule checks always run, and a metered
number of paid LLM checks may run on top. The code is read at one commit; paths
are relative to `src/`.

## 1. The system

| Component | State it keeps | Operations | Hard parts |
|---|---|---|---|
| Daily quota (`app/quota.py`) | table `usage(ip_hash, date, count)` behind one SQLite connection and one lock; an open transaction | `try_consume`, `try_consume_admin`, `refund`, `refund_admin`, `remaining`, `remaining_admin` | midnight between two reads of the date, early returns with an uncommitted DELETE, crash and rollback, refunds for charges of another day |
| LLM budget of a request (`app/llm_budget.py`, `lint.py:86-94`) | `calls_started`, `limited`, the cancel event; `_used` per share | `plan_shares`, `BudgetShare.complete`, `BudgetPool.complete`, `_run`, `cancel` | two locks and an event taken one after the other; threads against the handler's cancel |
| Request handler (`app/main.py`) | `_inflight`, `_llm_sem`, two executors with unbounded queues; per request `consumed`, `skipped_reason`, `llm_client` | `POST /api/lint`, `GET /api/quota`, the body-size middleware | await points, jobs that outlive their request, timeouts against finished jobs, refunds, fallback, restart |
| Lint adapter (`app/lint.py`) | none | `run_lint`, `_rules_only`, `_collapse_missing_sections` | an exception in any LLM stage must fall back to the rules |
| Enrichment (`app/enrich.py`) | none | `enrich_suggestions` | one more call; swallows every exception; answers by index |
| Converters (`app/converters/`) | the set `consumed` of one conversion | `convert`, `structure_headings`, `convert_hwpx/docx/pdf` | may fail, may never return; nested tables; which titles the engine will find |
| Page (`app/static/app.js`) | selected file, tab, view, `lastResult`, the submit button, the quota display, the copy button and its timers | submit, refreshQuota, copy, again, tabs, file choice, highlightSource | answers out of order, clicks while something is pending |
| Settings, middleware headers, HTML/CSS, Docker, smoke script | none that changes | | |

How they interact: the page posts to the handler and reads `/api/quota`; the
handler runs on one event loop, charges the quota synchronously, submits jobs to
two thread pools through `_run_bounded` and awaits them with a timeout; a lint job
takes a permit of `_llm_sem` and calls the provider through the shares of the
request's `BudgetPool`; on a timeout the handler cancels the pool, refunds if no
call was started and runs the rules once more. Only the quota file survives a
restart (`fly.toml` stops and starts machines on its own).

What makes each part correct:

* quota: caps hold on every day, no granted check is lost, no refusal is
  undeserved, the display promises exactly what would be granted and moves with the charges of its
  own side only, a check is given back at most once;
* budget: calls never exceed the total, no checker eats another's share, a
  cancelled request falls silent;
* handler: permits are conserved, paid calls are charged, every kept charge has a
  reason, reports are honest, every admitted request is answered;
* a diagnosis: every text of a document comes out once, in order and in its place;
  sections are reported missing exactly when they are; the rules' findings survive
  a failing AI; suggestions stand under their findings; the page shows the source
  unaltered with every quote marked that can be;
* page: one diagnosis at a time, what is copied is what is read, the buttons come
  back.

`PROJECT.json` lists every hazard of the code with its line and the properties
that would catch it.

## 2. Modules

| Module | Models | Composition |
|---|---|---|
| `QuotaRules` | the arithmetic of `quota.py`: public total, verdict, remaining, decrement | extended by all quota modules and `LintService` |
| `QuotaLedger` | the **abstract** quota: one ledger of the current day, charges owed | refined by `Quota` and by `LintService` |
| `Quota` | `quota.py` with its transaction, lock, rows of other days, crash | `Ledger == INSTANCE QuotaLedger WITH ..` |
| `LlmBudget` | `llm_budget.py` and the shares of `lint.py`, one action per lock or event | its three steps appear again in `LintService` |
| `LintService` | `main.py`: handler, pools, semaphore, budget, quota, restart | `Ledger == INSTANCE QuotaLedger WITH ..` |
| `Frontend` | `app.js`: one page | sees the server as answers and a number |
| `Hwpx` | `hwpx.py`: the pass over the elements of every section file, one action per element or table row | part of `Diagnosis` |
| `Docx` | `docx.py`: the blocks of a Word file as lines | used by `Diagnosis` |
| `Headings` | `headings.py` and its callers: which lines become headings, which sections the engine then finds | used by `Docx`, `Findings` |
| `Findings` | the collapse of `lint.py`, the merge of `enrich.py` | used by `Diagnosis` |
| `Highlight` | `highlightSource` of `app.js` | used by `Diagnosis` |
| `Diagnosis` | one document from the upload to the report on the screen | composes the five above |
| `MCQuota`, `MCLlmBudget`, `MCLintService`, `MCDiagnosis` | instances for TLC | |
| `QuotaRulesProofs`, `QuotaProofs`, `LlmBudgetProofs`, `LintServiceProofs`, `HwpxProofs`, `FrontendProofs`, `DiagnosisProofs` | theorems | |
| `DiagnosisLemmas` | what the operators of `Docx`, `Headings`, `Findings` and `Highlight` compute | used by `DiagnosisProofs` |

**From code to actions.** *Quota*: `view` is the table as the connection reads it,
`db` what is committed; `ConsumeAdmit` and `ConsumeInsert` are the two halves of
`try_consume` around its second `_today()`, `ConsumeRefuse` the early returns that
leave the transaction open, `Restart` the rollback. Every other method runs under
the lock with one date and is one action. `open`, `net` and `stale` are history or
bookkeeping of the callers: `open` counts charges whose request may still refund
them. *LlmBudget*: `TakeShare` is the share's lock, `Cleared` the look at the
cancel event, `Start`/`Refuse` the pool's lock, `Return` the provider. *LintService*:
between two awaits a handler runs alone on the event loop, so a segment between
awaits is one action (`AdmitText` is everything from the permit to the submitted
job; `TextClientRaised` and `FileClientRaised` are the same segments when the client
cannot be built and the request ends in a 500 with its charge kept); a worker interleaves at each pop, semaphore, event, count and call.
`wait_for` turns a queued job into `dropped` (its entry stays in the queue, as in
`ThreadPoolExecutor`) and leaves a running one to go on; the outcome of a job
nobody awaits any more is lost (`End`). `RunRaises` is any exception in the try block of
`run_lint`, with or without a call made, and `LlmFinish` how such a run ends: with the
rules' findings, or raised, when the rules raise too. The flag `consumed` of the handler is never
cleared, so nothing but the control flow keeps a charge from being given back twice:
that is what the refinement shows. The quota appears there
as the ledger that `Quota` is shown to implement; charging in one step is sound
because the handler holds the event loop throughout `try_consume`. The ledger's
`Spend` is a charge nobody is left to settle: the request ended in the same segment. *Frontend*: a
handler up to its await is one action, `Finally` is the finally block, `timers` is
the FIFO of equal `setTimeout`s.

*Hwpx*: a section file is its elements in document order with the number of each
one's parent; `at` is where `root.iter()` stands, `consumed` the set of the code,
`rows` the rows of the table being flattened. `OpenSection` takes the next file by
number, `VisitTable`/`VisitParagraph`/`VisitOther` are the branches of the loop
body, `FlattenRow` one row. Runs are left out (their texts count as the
paragraph's), a `tabbed` text is a `t` with an inline element. *Headings* reduces a
line to what the expressions tell apart: what it says (a title of the form, a
numbered line, prose), whether the title is decorated, and where its `#` comes
from. *Diagnosis* chains them: `ReadHwpx`/`ReadOther` (the converters), `Promote`
(the last line of every converter), `LintRules`, or `LintAi` followed by
`LintFails` or `Enrich`, and `Show` (`renderReport`). What the engine `planlint`
does is external: it reports each section no heading matches, sorted by severity,
next to whatever its checkers find, here any of a small set of findings with their
quotes.

## 3. Runs

| Run | Bounds | Shows |
|---|---|---|
| `Quota` | 2 visitors (symmetric), PerIp 2, GlobalCap 3, AdminCap 1, days 0..1 | `DailyCaps`, `CrashKeepsCharges`, `CapUpToStaleRefunds`, `RefusedOnlyWhenSpent`, `RemainingHonest`, action property `DisplayFollowsCharges`, refinement `ImplementsLedger` |
| `LlmBudget` | 2 threads, totals -1, 2 and 5, at most one direct call | `WithinTotal`, `NoStarvation`, `SharesFit`, `OneLateCallPerThread`, liveness `CancelledFallsSilent` |
| `LintService` | 2 requests of 3 kinds (AI for a visitor, AI for the operator, a file without AI), 2 in-flight permits, 1 LLM permit, 1 convert and 2 lint workers, 2 asks and at most 2 paid calls per request, days 0..1 | `PermitsConserved`, `WorkOnlyForWaiting`, `KeptChargeExplained`, `PaidCallsCharged`, `HonestReport`, refinement `ImplementsLedger` |
| `LintServiceLive` | 2 requests of a visitor, text or file, with AI or not, 1 permit, 1 lint worker, 1 paid call, no midnight | liveness `EveryRequestAnswered`, `LlmSlotReturns` |
| `Frontend` | 3 clicks: up to 2 diagnoses and up to 2 copies; 1 check left | `OneDiagnosis`, `ReportIsNewest`, `LabelComesBack`, `QuotaSettles`, `ReadingUndisturbed`, liveness `SubmitComesBack` |
| `Diagnosis` | every tree of up to 4 elements, of up to 3 more inside a table cell, of up to 3 more inside a nested table or next to a title; files of 2 and 3 sections; Word files of up to 2 blocks, pastes and PDFs of up to 3 lines; 2 sections in the form | `DocumentOrder`, `TextOnce`, `EveryTextAtHome`, `FormVerdict`, `RulesAlwaysReported`, `CriticalFirst`, `AdviceFits`, `SourceReproduced`, `EveryQuoteMarked` |

Why the bounds are enough. *Quota*: with PerIp 2 and GlobalCap 3 both caps bind
and the global one binds before the sum of the visitors' own; one midnight puts
the split `try_consume` and the late refund on two different days, and rows of a
third day would only be purged the same way. *LlmBudget*: -1 gives empty shares, 2
exhausts in the first fixed share, 5 leaves a per-section remainder that the floor
division drops; two threads make every interleaving of the two locks and the
event. *LintService*: one LLM permit makes a second AI request wait, time out on
the semaphore or meet a zombie; two requests are the least that compete for
everything; with two paid calls "at most one after the refund" is a claim that could
fail, and with no call or one cut ask so could "every kept charge has a reason". Every disjunct of every next-state relation fires in some passing
run: `Overloaded` needs fewer permits than requests and `FileClientRaised` a file
checked with AI; both fire in `LintServiceLive`. `LintWorkers` is `max(2 * LLM_CONCURRENCY, 4)` in the code; it is scaled
down with the requests so that the pool can saturate. *Frontend*: two diagnoses
and a copy, or one and two copies; two copies in flight are the least in which one
timer may undo the other's label. *Diagnosis*: a nested table needs eight elements,
so the trees start from seeds (an empty cell, a table nested in it, a decorated
title, a title in a cell) and grow from each at every open place; the section files
come as 10, 2, a nameless and a broken one. Two findings that quote the same words,
overlapping ones, one beyond the end, a finding with two quotes and one with none
make every case of the highlighter; the answers hold indexes in order, out of
order, negative and too large. Named bounds that are not parameters of the code:
`LastDay`, `MaxDirect`, `MaxAsks`, `MaxLints`, `MaxCopies`, `MaxClicks`, `MaxPlain`,
`MaxTable`, `MaxNested`, `MaxLines`.

`CHECK_DEADLOCK FALSE` where a finished system has nothing left to do: all
threads ended (`LlmBudget`), the report is shown or the file refused (`Diagnosis`).
The other runs check deadlock.

**Violations.** Five runs expect TLC to find a behaviour of the code that a
comment or document of the repository rules out. They are `findings` in
`PROJECT.json`, each with the quoted line:

* `QuotaOpenTransaction`: a refused `try_consume` leaves its DELETE uncommitted;
* `QuotaPerIpCap`: yesterday's refund is taken off today's row;
* `RefundAfterCall`: the look at the cancel event is outside the pool's lock, so a
  refunded request can still make one paid call;
* `LossAnnounced`: the text behind a tab in a `.hwpx` paragraph is dropped without a
  warning;
* `CopyLabel`: two quick clicks leave the copy button with its success text.

The passing properties next to them say what still holds: `CapUpToStaleRefunds`
(late refunds are the only way past a cap), `OneLateCallPerThread` and
`PaidCallsCharged` (one late call per thread, never more), `CrashKeepsCharges`
(the uncommitted purge never loses a check), `EveryTextAtHome` (apart from what is
behind an inline element, and from captions, every text is where it belongs),
`LabelComesBack` (without a click on the success text the icon always comes back).

## 4. Fairness

* `LlmBudget!FairSpec`: weak fairness of each thread's next step inside `_run`. A
  started thread is scheduled, and a provider call ends because
  `apply_request_timeout` bounds it. Nothing obliges a checker to ask or a request
  to be cancelled.
* `LintService!FairSpec`: weak fairness of each handler (the loop runs a handler
  whose future or timer is due: `_run_bounded` gives every await a timeout), of
  the thread inside `work()`, of rules-only runs and of popping the queues. **No**
  fairness for `ConvertFinish` (a conversion may hang), arrivals, midnight, restart.
* `Frontend!FairSpec`: a fetch of a diagnosis ends, with an answer or an exception.

If the provider SDK cannot be given a timeout (`llm_budget.py:122-127` then only
warns), a call may outlast the request by minutes; it still ends.

## 5. Proofs

Checked by TLAPS (SMT, Zenon, LS4), for every value of the constants under the
named assumptions of the modules: finite sets of visitors and threads, caps that
are natural numbers, integer totals, `Free` and `Admin` not visitors.

* `QuotaRulesProofs`: the public total as a cardinality behaves as the SQL sum:
  `TotalType`, `TotalMonotone`, `TotalRaised` and `TotalBump` (more checks of one
  visitor are as many more in the total).
* `QuotaProofs`: `TypeCorrect`, then two inductive invariants. `CapInv` strengthens
  `DailyCaps` and `CrashKeepsCharges` with `Room` (while a `try_consume` is between
  its check and its INSERT there is room for one more on today's row *whatever
  today has become*) and `NothingAhead` (rows of days to come are empty, which is
  what makes a midnight in that gap harmless). `GhostInv` relates the rows to the
  history: `RowIsNet` (a row is what was granted and not refunded, less stale
  refunds), `OpenIsNet`, `NoHistoryAhead`. From them `CapsHold`, `CrashSafe`,
  `OverrunIsStaleRefunds`, `RefusalsDeserved`. `AdvertisedIsGranted` is arithmetic of the two ways the code
  counts what is left (a difference, two comparisons); `DisplayMovesWithCharges` goes
  through the steps: a purge, a refusal or a rollback leaves today's rows alone, and a
  charge or a refund moves the sum that its side sees by one at most. The refinement
  `TableImplementsLedger` maps each step to a ledger step or a stutter.
* `LlmBudgetProofs`: `TypeCorrect`; `SharesAlwaysFit`, arithmetic over every integer
  total; `NeverOverTotal`; `OneLateCall`, whose invariant says that a thread that
  has had its late call cannot be past the cancel check again; `NobodyStarves`,
  whose invariant `PoolInv` counts the calls taken from a share and not yet started
  (`Pending`): `callsStarted + |Pending| <= sum of used + direct`. It is needed
  because the two locks are taken one after the other: without the pending calls
  the pool's total could seem to bind before the shares do.

* `LintServiceProofs`, for any finite set of requests and any sizes of the pools. Every
  step but midnight and the restart is a step of *one* request, which is how the proof
  is cut: `OneMoves` says that the request that moved fits again (`RequestInv`), that
  the others are as they were and that the permits balance with what it holds;
  `OneMovesKeepsInv` does the rest once (`CountMoves` turns a balance into a
  cardinality). `RequestInv` records what is known at each stage: which jobs may exist
  (`JobsFit`), that the thread took the branch `llm_client` chose and that an ask
  without a call was cut (`ThreadFits`), what
  is charged and why AI was skipped (`ChargeFits`), what may still run after a refund
  (`RefundFits`), what was answered (`AnswerFits`). `QueueInv` (an entry of the lint
  queue has not begun and is there once) is needed for the permits: a worker that
  popped the entry of a running job would take its thread away with a permit in
  hand. From `LintInv` follow the six invariants of the run and
  `ServiceImplementsLedger`, where every segment of a handler is shown to charge once,
  give back once, let the charge stand, spend it at once or leave the quota alone
  (`Billing`).

* `HwpxProofs`, for any file whose elements are in document order: the elements
  inside an element are consecutive (`IterInside`, `SiblingsApart`). The invariant
  `HwpxInv` says that what tables have consumed beyond the cursor is one piece
  (`NoGaps`), that pending rows lie inside it and share nothing (`RowsTogether`), and
  that all lines and texts collected so far are behind the cursor or consumed, and
  apart from every pending row (`LinesBehind`, `TextsBehind`). It is needed because
  `FlattenRow` emits lines *ahead* of the cursor: order and uniqueness alone say
  nothing about what the loop meets next. From it `LinesFollowDocument` and
  `NothingDoubled`.

  No text is lost either. `HomeInv` adds to `HwpxInv` that what is consumed is
  exactly what the tables behind the cursor contain (`TablesConsumed`,
  `ConsumedByTables`), that pending rows belong to a table no other contains
  (`RowsOutermost`), that a line holds only texts at home there (`AllAtHome`) and that
  every text whose paragraph or row the loop has passed is in its line
  (`AllCollected`). From it `EveryTextComesHome`. It needs `TextsAssumption`: a text
  stands in a run of a paragraph, as the format has it; the code reads no other
  outside tables.

* `FrontendProofs`, for any number of diagnoses, copies and checks left. `FlightInv`
  adds to the types that diagnoses are asked for in order, one at a time (`InTurn`),
  and that `lastResult` is the newest report while nothing is under way on the report
  view (`LastInv`): `OneAtATime`, `NewestReportShown`, `ReadersUndisturbed`. `LabelInv`
  (as long as every click found the icon, every pending timer restores it) gives
  `IconComesBack`. `QuotaInv` says that a diagnosis starts its refresh when it is over,
  that the server has decided on it by then, and that when the page is idle the newest
  refresh has read what the server has left, whatever older ones still do; from it
  `QuotaComesToRest`.

* `DiagnosisLemmas`: what the algorithms on the way to the report compute, for every
  input. Each loop of the code is a recursive function over its turns (`Picked` for
  the list comprehensions, `Enriched`, `BlockLines`, `QuotesPlaced`, `AllMarks`,
  `Rendered`), and one argument serves all: every turn maps a set of results into
  itself, so a run of the loop exists (`LoopRuns`), the function is that run
  (`LoopUnique`), and what holds of it follows by induction over the turns
  (`InductionTo`). Induction is `LeastNumber`, a set of numbers that is not empty has a
  least one, because the library's own theorems take an operator as a parameter. For
  the same reason the modules have their own recursive functions instead of
  `SelectSeq`, `SortSeq` and folds: nothing in reach says what those return. The
  results: a comprehension keeps order and loses nothing (`PickedIs`, `FromConcat`);
  the sort by severity is sorted and stable for each checker (`BySeverityIs`,
  `FromBySeverity`); `_collapse_missing_sections` gives the verdict, the order and all
  else that was there (`CollapsedIs`); `enrich_suggestions` changes nothing but the
  advice, and that under the right finding (`EnrichedIs`, `SameKeeps`); the engine
  finds after the promotion exactly the sections whose title is understood
  (`HeadingsUnderstood`); a Word file becomes lines (`DocxLinesIs`); a placed mark never
  overlaps another and a quote once served stays served (`PlacedIs`, `ServedStays`,
  `AllMarksIs`); written out from the left, marks that do not overlap give back the
  text (`RenderedIs`: after each turn what is written is the text up to the end of the
  last mark, and all marks left lie behind it).

* `DiagnosisProofs`, for any documents, form, findings and answers. `DiagnosisInv` has
  four parts: the file is half read as `HomeInv` allows, or there is none
  (`FileInv`); the text is the source with its headings promoted (`TextInv`); the
  findings are a `Report` about this very text, whichever way `run_lint` went
  (`FindingsInv`); the page is that of this text and these findings (`PageInv`). The
  properties are not inductive alone: what a report says of the sections depends on
  the text it was made from, and the verdict, the order and the rules' findings must
  hold *before* the enrichment for it to leave them true. `CollapsedReport` and
  `EnrichedReport` are the two steps of that argument. From it `DiagnosisTyped`,
  `FormVerdictHolds`, `RulesReported`, `CriticalAtTheTop`, `AdviceInPlace`,
  `SourceShown`, `QuotesMarked`, and, through `HomeNext` of `HwpxProofs`, `FileKept`.
  The assumptions say what the inputs are: the form has sections, finitely many, named
  unlike prose (`SectionsAssumption`); texts of documents are lines
  (`LinesAssumption`, `DocumentsAssumption`); findings have one of the three
  severities and a quote is not empty (`FindsAssumption`); the indexes of an answer
  are integers, as `enrich.py:57` tests before it uses one (`AnswersAssumption`).

Only model-checked: what is temporal under fairness (`CancelledFallsSilent`,
`EveryRequestAnswered`, `LlmSlotReturns`, `SubmitComesBack`), which is beyond the
prover. Every other property of a passing run is a theorem.

## 6. What is not modelled

* Midnight inside one segment of the handler between two awaits (`Quota` has it inside
  `try_consume` and between any two calls).
* Time: a timer may fire at any moment while its await is pending; the 10 s of the
  semaphore only when no permit is free.
* SQLite is taken not to raise; the rules engine, the building of the client, the
  provider, a conversion and a connection of the page may. The code keeps the charge
  with the 500 that follows, and also when the AI ran without any call (nothing to
  ask, or every ask cut, as with `PLW_MAX_LLM_CALLS=0`): `KeptChargeExplained` names
  exactly these exceptions, and in the last one the report says that checks were cut.
* The regular expressions of `headings.py` (what counts as decoration, a short line, a
  date), the table of titles of the profile, the styles of Word beyond "a heading or
  not", pages of a PDF: a line carries what they decide. A line joined from several
  strings or cells reads as prose: `hwpx.py` and `docx.py` join the cells of a row with
  ` | ` and keep the empty ones, and what is left of a title then matches no section
  (as a numbered line it may still become a heading, of no section).
* Zip bombs, sizes, extensions and encodings: `RefuseFile` is any refusal before reading.
* Empty quotes (`app.js:54` would place one at 0): the quotes of the models have a token.
* `promote_headings` of `headings.py`, which only its tests call.
* The refund reads `calls_started` right after `cancel()`; a call counted between
  the two is as one counted just before.
* A second process on the database file, proxies and headers, how a key is derived
  from an address or a token, the wording of findings and prompts, the cards, badges
  and banner of the page.
* `LintService` treats a share and the total of `LlmBudget` as one nondeterministic
  refusal under `MaxCalls`.
* `Frontend` takes the server's number of checks to change only by this page's own
  diagnoses, and `renderReport` not to throw.

## 7. Plan

Done: the quota, the budget, the handler, the page's control and the diagnosis, and
a theorem for every property of the passing runs that is not about fairness. What is
left are the hazards of `PROJECT.json` without a property, and a second connection on
the quota's database.
