# A TLA+ development of cfr-compliance-mcp

The repository holds two programs. The **MCP server** (`src/cfr_compliance_mcp`)
serves the text of the US Code of Federal Regulations from the eCFR API as MCP
tools. The **compliance agent** (`agent/`, `api.py`, `dashboard.py`) splits a
contract into clauses, finds the regulation each clause is about, reaches a
verdict, cross-checks it, remembers it, persists a report, and lets humans review
what was not certain. Paths below are relative to `src/`; the server's files are
at `src/src/cfr_compliance_mcp/` of this repository.

This directory models the stateful core of both: TLA+ modules, TLC configurations
that check them on small instances, and TLAPS proofs for every value of the
constants. `PROJECT.json` maps each definition to the lines it translates.

## 1. The system

| Part | State it keeps | Operations | Modelled in |
| --- | --- | --- | --- |
| Review workflow, PostgreSQL backend (`agent/persistence/postgres_repository.py`) | tables `clause_analyses`, `review_decisions`, `review_decision_events` | `save_report`, `get_review_detail`, `transition_review`; `list_review_queue`, `count_review_queue` | `ReviewWorkflow`; `ReviewQueue` |
| Review lifecycle (`agent/persistence/review_lifecycle.py`) | - | which transitions are legal | `ReviewStates`, `ReviewLifecycle` |
| In-memory backend (`inmemory_repository.py`) | dicts of analyses and records | the same calls, atomic | `InMemoryRepository` |
| File backend and reports (`agent/reporting.py`, `file_repository.py`) | a directory of JSON files | `save_report`, `list_analyses`, `count_analyses` | `ReportFiles` |
| Memory store (`agent/memory_store.py`) | `memory.jsonl`, one id set per instance | `append`, load | `MemoryStore` |
| Compliance memory (`agent/memory.py`) | records of the store | reuse, near-duplicates, indexing | `CompliancePipeline` |
| Pipeline (`agent/compliance_pipeline.py`) and API evaluation (`api.py`) | tasks of a run | retrieval, evaluation, gather | `CompliancePipeline`, `VerdictRules` |
| Retrieval (`agent/mcp_search.py`) | semaphore, MCP session | search, text, history, versioned text | `CompliancePipeline`; which text: `Retrieval` |
| Query optimizer (`agent/cfr_query_optimizer.py`) | - | a clause's query and predicted title | `CfrQuery`, `Retrieval` |
| Rules, LLM agent, verifier, security gate (`deterministic_rules.py`, `compliance_agent.py`, `verification_agent.py`, `security.py`) | none | the verdict on one clause | `VerdictRules` |
| HTTP client (`clients/http_client.py`) | window of timestamps, lock | rate-limited GET with retries | `HttpClient` |
| eCFR client, tools and their cache (`clients/ecfr_client.py`, `tools/*.py`, `cache/cache_backend.py`) | latest dates, title documents, cache entries | the eight tools | `ToolCache` |
| XML parser (`parsing/xml_parser.py`) | - | the text and citation of a part or section | `XmlTree`, `Retrieval` |
| REST API and dashboard (`api.py`, `dashboard.py`) | forms and pages of their users | review form, queue and history pages, bulk evaluation | `ReviewWorkflow`, `ReviewQueue`, `ReportFiles`, `CompliancePipeline` |

How they interact. A pipeline run opens an MCP session, retrieves every clause's
regulation (tasks that share a semaphore), then evaluates the clauses as
concurrent tasks that give way to each other only while they await the LLM. An
evaluation passes the security gate, the rules, compliance memory, the LLM and the
verifier; a verified result is indexed in memory, which appends it to a file that
other processes append to. The API evaluates clauses beside it and saves reports
through a repository; reviewers load a clause from the repository and decide on it
with the version they saw. The server's tools answer from a cache, or through the
eCFR client, whose requests all pass one rate limiter.

### What is hard

* **Interleavings**: reviewers racing on a record; pages read by several
  statements while reports are saved; clauses of one run, and several runs, over
  one memory; store instances on one file; tasks in the rate limiter; tool calls
  filling the same caches.
* **Stale state**: the version in a review form, the "latest" date of a title
  kept for a server's lifetime, the total that decides whether a history page is
  the last.
* **Failures**: a crash between any two system calls of an append or a save, a
  full disk, a connection lost in a transaction, any tool or LLM call.
* **Boundaries**: the edge of the rate window, the page after the last.
* **Protocol over time**: verdicts that feed on their own kind through memory;
  reports saved again after humans have decided.

### What makes each part correct

* Review: no decision lost, none made on a record the reviewer had not seen,
  histories legal and append-only, saves that leave reviews alone, everything that
  needs a human queued, every submission answered; a reader of the queue misses no
  more than left it meanwhile.
* Reports: readable files are whole and never go back; no page change hides one.
* Memory file: copies and losses stay within what the faults account for.
* Pipeline: reuse rests on grounded verdicts of the same regulation and version,
  the rules prevail, what the LLM is shown as precedent was reached without memory
  and goes against no rule, places of the semaphore come back, each run ends.
* Verdict: the most confident rule decides, no LLM overrules a rule's violation, verified verdicts have evidence, an
  accepted verdict agrees with the rules.
* Retrieval: the query keeps what the domain was recognised by, a predicted title
  never costs a usable hit, a cited text is that section's, all of it and only it.
* Server: the documented rate in every window, every GET ends, citations tell the
  date of their text, a cache fails nobody.

## 2. The modules

| Module | Role |
| --- | --- |
| `ReviewStates` | states and transitions of `review_lifecycle.py`, shared by the next four |
| `ReviewLifecycle` | abstract specification: one clause's review as its history promises it |
| `InMemoryRepository` | the test double, one action per call; refines the lifecycle and is itself what `ReviewWorkflow` refines |
| `ReviewWorkflow`, `ReviewWorkflowProofs` | transactions, pages and forms |
| `ReviewQueue`, `ReviewQueueProofs` | extends `InMemoryRepository`: who reads the queue page by page while it changes; the proofs are about both |
| `CompliancePipeline`, `CompliancePipelineProofs` | runs, retrieval, evaluation and memory |
| `Order` | finite sets as sequences, by rank; used by the next two |
| `CfrQuery` | operators: query, domain, choice among search hits |
| `XmlTree` | operators: what the parser makes of a document, and what it should make |
| `Retrieval` | composes the two with search and tools: which text a clause is judged against |
| `VerdictRules`, `VerdictRulesProofs` | one clause against one text |
| `ReportFiles`, `ReportFilesProofs` | saves and history pages |
| `MemoryStore`, `MemoryStoreProofs` | the JSONL file under faults |
| `HttpClient`, `HttpClientProofs` | limiter and retries, on a clock |
| `ToolCache` | tools, their cache and the client's caches |
| `RegulationProofs` | proofs about the two modules that deliver regulations, `Retrieval` and `ToolCache` |
| `MC*` | values of the constants for TLC |

Operators whose comment begins with `Mutant:` are what a plausible bug would turn
the next definition into; each property is checked to fail under one of them.

### ReviewWorkflow

PostgreSQL runs each repository call as a READ COMMITTED transaction. So a detail
page is five reads (`OpenDetail`, `ReadEvidence`, `ReadAudit`, `ReadRecord`,
`ReadHistory`) between which anything may commit. A decision is `Submit` (the request
with the page's version, or none), `LockAndWrite` or `LockAndReject` (`SELECT ... FOR
UPDATE`, the lifecycle and version checks, the UPDATE and the INSERT), `ClosingRead`
(the response is loaded within the transaction, which fails if the clause is gone), and
`Commit` or `RollBack`. A save may drop the clause between the closing read and the
COMMIT: the decision is committed all the same. `SaveReport` is one action: saves of one analysis queue at
their first statement and show nothing before the commit; it upserts the rows,
drops clauses that are gone, and inserts missing review records (`ON CONFLICT DO
NOTHING`). `SaveRejected` is a report with a duplicate clause id. Rows of other
analyses never meet, so there is one.

`events` is the audit table with two history fields: the version its author sent
and how many events their page showed. The refinement mapping to
`ReviewLifecycle` is the committed tables themselves. To `InMemoryRepository` it is the
tables with each decision that has passed its closing read and is bound to be
committed (`EffectiveReviews`, `EffectiveEvents`): a decision on a clause that is gone is
no call of the double, so that the committed tables alone do not follow it, but a
decision takes effect at its closing read, before the save that drops the clause.
`ImplementsDouble` is therefore linearizability of the calls that write: saves and
decisions have the effect of calls made one after the other, each at an instant
between its request and its answer. It says nothing of reads, which may lag behind
such an instant. `ClosingRead` decides at once whether the COMMIT will happen (a
worker or its connection may still die), which is a prophecy: the outcomes are those
of the code, only told earlier, so that the instant is known when it passes.

### ReviewQueue

`FirstPage`, `Count` and `NextPage` are the statements of the dashboard's
`reviews_list` (and of a client of `GET /reviews`), each a snapshot of its own;
between them `SaveWhileRead` and `DecideWhileRead` change what is committed. Since
PostgreSQL may commit a decision on a clause that was just dropped, `DecideWhileRead`
is `CommitDecision`, which does not ask for the clause as the double's call does. Order
is that of the SQL: last decision first, undecided records last, then by id.
`decidedAt` comes from the clocks of several processes and may take any value at
each decision. `seen`, `due` and `departed` are history.

### CompliancePipeline

`version` is the newest issue date of the regulation at eCFR; `Amend` moves it at
any time. `asOf[r]` is the "current" date that run `r`'s server process resolved
first and keeps. A job (one clause of one run) goes through `Acquire` and the
calls of `retrieve_for_clause`, any of which may fail, then the evaluation in the
order of `_evaluate_match`: gate, rules, exact reuse, near-duplicate context, LLM,
verifier, indexing. Since tasks only give way in the LLM call, everything before
and after it is one step. Rules that raise leave the clause to the LLM, and the verifier
runs them again, without part and section, where they may not raise: the last argument
of `Rules` says which of the two runs is meant, and `VerifierMayAccept` says when the
second lets an LLM verdict pass (it raises not and says not the opposite).
`shown` is what the LLM saw as precedents when it answered. `match.text` is the version
of the text that was fetched, `match.effective` the version it is filed under,
`match.specific` whether the text was fetched for that version. `basis` and `assisted` in records are
history: the version the verdict was reached on, and whether memory helped.
`Rules` is any table of rule outcomes; how they come about is `VerdictRules`.
API runs have no retrieval; their caller supplies the regulation.

### CfrQuery, XmlTree and Retrieval

A clause is a sequence of words and what separates them, since hyphens and line
breaks decide which phrases the optimizer finds. `optimize_clause` scores the
domain tables of the code, and `select_best_candidate` picks a hit by its title.
A document is its elements in document order with their depths, which determine the
tree; an element has its tag, type, number, text and tail, abstracted to what the
parser looks at. `parse_regulation_xml` is compared with `ExactText`, which is
defined on the tree alone: all text below the unit, in reading order. A behaviour of
`Retrieval` is one clause (`BuildQuery`, `SearchAnswers`, `Choose`) or one call of a
tool (`CallTool`), up to the text that comes back; a search may answer with any hits
and a fetch with any document.

Filters, sorting and the search for a first element are stated by rank (`Order`: the
r-th element of a set is the one with r - 1 before it), lengths of queries and tokens
as numbers of characters, and the order in which the streaming parser sees end tags
as a relation (`EndsBefore`): nothing is recursive, so that it can be proved about.
`Regular`, `Proper` and `RegularRegulations` say what a document and a request without
irregularities are: the hypothesis of a theorem below. `MCRetrieval` assumes it of
its instance without inline markup (`MCRegular`), so TLC evaluates that it holds there.

### VerdictRules

Texts are sets of words and phrases, since no rule looks at order or number. The
reserved words are those of the code's marker lists that its tokenizer treats in
different ways: stop words, phrases it takes apart, plain words. One evaluation is
`Block`/`Pass` (gate), `RuleDecides`/`RulesPass`, `LlmFails`/`LlmAnswers` (a reply
with any status, and evidence that quotes the regulation, quotes something else or
is an empty object, coerced as the code coerces it), `Accept`/`Downgrade` (the
verifier). The rules can raise: the part of the scope is put into a regular
expression unescaped.

### ReportFiles

A save is `BeginSave` (temporary file opened), `WriteFile`, `ReplaceFile`, with
`Abandon` (a death, a full disk) at any point. The history page is the two scans of
the dashboard's handler, listing and count, file by file while others save, and
`OpenNextPage` follows the link while `offset + limit < total`. `due` and `seen` are
history.

### MemoryStore

The file is complete lines, a tail without newline, and how far it is on disk
(`synced`, which counts the tail as the last line). An append is `Check` (which loads
on the first use), `Write` or `ShortWrite` or `WriteFails`, and `Sync` or `SyncFails`;
`Renew` is a new instance. `Crash(k)` keeps what was on disk and any prefix of the
rest. Two things are taken of the operating system: an fsync that succeeds has
written everything, also what an earlier one failed to write; and a line that was
glued to a torn one is not cut exactly where it was glued. Records whose text holds
U+2028 are those of `Separated`: the loader splits them.

### HttpClient and ToolCache

`HttpClient` keeps the limiter's timestamps as ages, so that its clock may run for
ever; `WithoutOlder` is the loop that drops the old ones from the left and stops at
the first that is not. `Acquire` is the whole of `acquire()` up to its sleep, which keeps the lock;
`Wakes` is what follows. `ToolCache` takes as one step what runs from one answer of
eCFR to the next request; the index of titles, or the reply to a search, may arrive
after a newer one. A tool is what its `compute` does: whether it resolves a date, and
whether the client keeps its document.

## 3. The runs

| Run | Question | Instance |
| --- | --- | --- |
| `ReviewWorkflow_race` | Do racing reviewers, pages and saves keep decisions, histories and queue; do the committed tables follow the lifecycle, and do saves and decisions act like calls to the test double; is every submission answered? | one clause, two reviewers, a result that needs a human and one that does not, two saves |
| `ReviewQueue_pages` | What can a reader of the queue miss? | three clauses, one reviewer, pages of one row |
| `CompliancePipeline_runs` | While the regulation is amended, what is reused, against which rules, and what is the LLM shown? Does each run end whatever fails? | two similar clauses in a run with one place in its semaphore, an API request beside it, two versions |
| `CompliancePipeline_hierarchy` | The documented authority order (violated, section 6) | two runs of one clause, two versions |
| `VerdictRules_verdicts` | Which verdicts can a clause get? | every clause of seven words against every regulation text of seven, five scopes, every reply |
| `ReportFiles_pages` | Are reports whole and monotone, and does a walk through the pages see all? | two processes, three reports, two saves of each, pages of one |
| `MemoryStore_faults` | What do faults cost? | two instances, three records (one with a separator), one crash, one short write, one failing fsync, four lines |
| `MemoryStore_glued` | The documented durability (violated) | one instance, two records, one crash |
| `HttpClient_rate` | Is the rate kept in every window, and does every GET end? | three tasks, two calls per window of three ticks, one retry |
| `ToolCache_calls` | Do citations tell the date of their text; can a cache fail a call? | two calls, a tool of each kind, dated and undated, two issue dates |
| `Retrieval_clauses` | Is the query faithful, does the prediction cost a hit, is the text exact? | every clause of up to three of seven words, every list of up to three of six hits, some 3,600 shapes of document |
| `Retrieval_inline` | The documented exactness of a section's text (violated) | one section, documents with inline markup |

### Bounds, and why they are enough

* *Clauses and analyses.* Rows of a clause are only ever touched through its own
  id and locked one by one, so that one clause carries every race of
  `ReviewWorkflow`; the queue over several is in `ReviewQueue`, and the proofs are for
  any set. Two reviewers make every pairwise race.
* `Limit = 1`, `MaxStamp` (`ReviewQueue`): three pages, so that records cross both
  borders; stamps that agree, and stamps in either order.
* `MaxSaves` (`ReviewWorkflow`): a save between any two statements, a clause dropped
  and put back. `MaxSaves` (`ReportFiles`): a first save and one that replaces it,
  of every report.
* `MaxVersion = 2`: a version before and one after an amendment; every comparison in
  the code is for equality.
* `MaxWords`, `MaxHits`, the words, hits and documents of `MCRetrieval`: keywords one
  inside the other, of two domains, and none; a hit of each kind the code
  distinguishes at each place of a list; documents with and without attributes and
  headings, with another unit before, around or inside the one asked for.
* `Permits = 1`: the tightest semaphore; the code's has four places.
* `MaxCrashes`, `MaxShortWrites`, `MaxSyncFails`, `MaxLines` (`MemoryStore`): one fault
  of each kind in one behaviour, with lines to spare for both instances' copies. `MaxLines` only
  stops growth.
* `Window`, `MaxPerMinute`, `MaxRetries` (`HttpClient`): a window that fills, drains
  partly and has all its edges; a retry competing with first attempts. Ages beyond
  the window are capped at `Window + 1`, which changes no comparison.
* `MaxDate`, `TTL` (`ToolCache`): an index from before and one from after an issue; an
  entry that is fresh, at its end and gone. Part and structure behave as section,
  version history and agencies as search, so one of each kind is called.
* `Limit = 1` (`ReportFiles`): three pages for three reports, so that reports move
  over both page borders.
* The words of `VerdictRules`: one of every kind the marker lists, the tokenizer and
  the scope search distinguish, including numbers that contain one another.

Symmetry is used in the two `MemoryStore` runs, `ToolCache_calls` and
`ReportFiles_pages`, whose processes or calls are interchangeable, and in no run with a liveness
property.

Deadlock is checked except where the system stops: a `MemoryStore` whose file was
cut inside a character refuses every new instance; pipeline runs and evaluations
end; in `ReviewWorkflow`, when no save is left (a bound), a last report that
dropped all clauses leaves nothing to open. (`CompliancePipeline`, `VerdictRules`,
`MemoryStore` and `ReviewWorkflow` are the runs without the check.)

### Fairness

* `ReviewWorkflow`: weak fairness of the transaction that holds the lock (it commits
  or is rolled back: the driver reports a lost connection), strong fairness of the
  locking statement (the lock queue serves whoever keeps waiting). Nothing forces
  a reviewer to act nor a worker to crash.
* `CompliancePipeline`: weak fairness of each task's steps (the event loop runs what
  is ready, and every tool and LLM call has a timeout, so an answer or a failure
  comes), strong fairness of `Acquire` (the waiters of an asyncio semaphore are
  served in order).
* `HttpClient`: the clock runs, ready tasks run, httpx times out. The lock's queue is
  in the model, so weak fairness suffices.
* The other modules claim safety only.

Assumptions on the environment that the code does not check: `FineClock` (two
readings of the monotonic clock around a sleep differ: with a coarser clock the
limiter can keep an old timestamp, see section 6) and `NameFree` (one save of a
report name at a time: the API gives every analysis a new id, `api.py:1037-1042`).
Both are named in their modules. The environment of `CompliancePipeline` may fail
any call and amend the regulation at any step; the LLM may say anything.

## 4. What is proved

All theorems are for every value of the constants under the `ASSUME`s of their
modules, which TLC also evaluates. Each proof goes through an inductive invariant,
`IInv`.

**`ReviewWorkflowProofs`.** `Invariance`, `TypeCorrect`, `VersionsAreEventCounts`,
`HistoriesAreLegal`, `NoLostUpdate`, `QueueIsComplete`, `AppendOnly`,
`ResaveIsHarmless`, `Refinement`, `DoubleRefinement`. The properties are not
inductive alone: that a decision was informed rests on what the form of its author
holds. `IInv` adds `SessionInv` (what a page has loaded so far is a prefix of what is
committed: its version is at most the record's, the events it showed are
events of it) and `LockInv` (at most one transaction writes a record, so what it
read under the lock is still so when it commits), and that no record is blank. With
these each action preserves each conjunct, and both refinements follow step by
step. Of the lifecycle every commit is a step. Of the double a save is a call
(`SaveIsDoubles`: a record with a decision bound to be committed is there, and is kept),
so is a closing read that will be followed by its COMMIT (`ClosingReadIsDoubles`), and
that COMMIT stutters, whether or not the clause is still there (`CommitIsUnseen`).

**`CompliancePipelineProofs`.** `Invariance`, `TypeCorrect`, `SemaphoreIsSound`,
`PrecedentsGrounded`, `ReuseGrounded`, `RulesPrevail`. `IInv` says what a record guarantees
(`RecordInv`: reached without memory, in agreement with the rules on its text, and
when version-specific judged on the version it is filed under), what a match
guarantees at each stage (`MatchInv`), that a result still fits the match it was reached
on (`ResultInv`), and that what an LLM was shown is on file (`ShownInv`). `RulesPrevail`
is then an argument over versions: the record and the match have one effective
version, both texts are of it, so the rules say the same of both. Counting the places of the semaphore uses cardinalities of
finite sets of jobs.

**`VerdictRulesProofs`.** `Invariance`, `TypeCorrect`, `MostConfidentRuleDecides`,
`ViolationsAreNotOverruled`, `VerdictsAreGrounded`, `NoConflictUnlessRaised`,
`OnlyMustIsMandatory`. `IInv` ties the recorded rule outcome to the texts at every later
stage. That the first rule that decides is as good as the most confident one follows
from the confidences, rule by rule. That the LLM overrules no violation is about the
rules' second run: without part and section rule 3 is silent, so whatever rule 1 or 2
found before rule 3 raised is found again (`ViolationIsFoundAgain`).

**`ReportFilesProofs`.** `Invariance`, `TypeCorrect`, `NothingIsMissed`, `ReportsStay`.
`IInv` says that a saver holds something newer than the file it will replace
(`SavesAreNewer`), and where a report is that a reader should still see (`Unseen`): it
is listed at a position no smaller than the offset of the page being read, or than
the next one's once it is shown. New reports only push others to later
positions, files never disappear, and the total counted after the list is no
smaller than what it listed, so the walk does not end early.

**`ReviewQueueProofs`.** Of the repository: `TypeCorrect`, `Refinement`. The double would open a record on the fly for a decision without one;
that it never does follows from `RequiredIsQueued`, which is part of the invariant, and
with it every call is a step of the lifecycle. `DoubleRefinement` of
`ReviewWorkflowProofs` then carries this over to what concurrent transactions have
decided. Of the queue: `QueueInvHolds`, `QueueTypeCorrect`, `MissesAreAccountedHolds`. The
order of the list is total (`RowsAreOrdered`), so no two records share a row. A decision takes one record
out of the list and moves each of the others up by one row at most, a save moves none
up; so with each record that leaves, at most one that is due crosses the end of the
reader's page unseen (`OvertakingCosts`). When the count ends the walk, every due
record that was not shown is in front of that end (`NoMoreToShow`).

**`MemoryStoreProofs`.** `IInvHolds`, `TypeCorrect`, `CopiesAreBoundedHolds`,
`LossIsBoundedHolds`. `CopyBudget`: once a record can be read from the file,
its copies and the instances that may still add one (`MayAdd`: those that loaded the
file before it was there, and have not written it since) are no more than instances
and failed fsyncs. `LossBudget`: the acknowledged records that no complete line on disk
holds (`NotDurable`), the instances that are about to acknowledge one that no complete
line holds (`Stranded`), and the tail that the next write will be glued to (`Loose`) are
paid for by crashes and short writes, one for each crash and two for each short write.

**`HttpClientProofs`.** `IInvHolds`, `TypeCorrect`, `NothingIsForgottenHolds`,
`RateIsBoundedHolds`. The calls let through are in order of their age (`OldestFirst`),
and the deque is what is left of them once the old ones have gone (`InStep`), so both
have as many inside the window; the deque never exceeds its limit (`DequeIsBounded`),
because who finds it full sleeps with the lock until its oldest call is outside
(`SleeperHolds`). `RateIsBoundedHolds` is for a fine clock: on a coarse one it is false
(section 6), while the other theorems hold on any clock.

**`RegulationProofs`.** Of the caches: `Invariance`, `TypeCorrect`, `CitationsAreTrue`,
`CachesFailNobody`. The latest date may be overwritten at any moment, by an older one
too; but once a call has resolved its date it does not look again, so that the date it
cites suits its key at every later place (`CallInv`), and every entry of the cache came
from such a call (`StoreInv`).

Of retrieval: `RetrievalTypeCorrect`, `QueryIsFaithfulHolds`, `HintNeverCostsHolds`,
`TextIsExactWhenRegular`. They rest on what a rank is: in a finite set of numbers every
rank is taken once (`RanksAreFilled`, `RankIsTaken`), so `Ascending` lists the set and
`Kept` keeps exactly what a filter should (`KeptComesFrom`, `KeptGoesTo`).

* The query: a domain that wins has at least as many keywords in the clause as
  any other (`WinnerIsBest`), and of the keywords found each lies within one
  that `dedupe_contained` keeps, namely a longest one that holds it
  (`DedupeKeepsTheLongest`).
* The choice: the best candidate is the first of those that can be fetched and have
  the predicted title, or else the first that can be fetched (`BestIsFetchable`).
* The text: what the parser takes out and what it should have taken list the same
  elements in the same order (`OneListing`), one by end tags and the other by the
  tree; this carries over to the text (`RegularText`), the unit found is the one cited
  (`TargetIsCited`), and so is the heading. `AnswerInv` is the inductive invariant.

`TextIsExact` is false of the code in general: section 6 lists a paragraph with
inline markup, a part without heading, a section that does not begin with its part.
The theorem's hypothesis, `RegularRegulations`, excludes these and no more than the
argument uses: text only in elements that hold no others and none after an end tag,
headings that open their element, numbers that occur once, sections inside their part,
and requests whose section begins with its part or can be put behind it. Run
`Retrieval_inline` shows the theorem false without the first of these.

### Checked only by TLC

* Liveness (`DecisionIsAnswered`, `EveryRunEnds`, `EveryGetEnds`) and `ENABLED` are beyond
  the prover.
* Induction over data is, too; no module declares a recursive operator, and where
  code loops, ranks or the least-element principle (`HttpClientProofs!LeastElement`)
  stand in for it.
* `RateIsBounded` on a coarse clock and `TextIsExact` of irregular documents are
  false, and runs or section 6 say how; there is nothing left to prove of them.
* No backend proves that a string literal is in `STRING`. So `RetrievalAssumption` states
  the type of the code's domain table, and TLC evaluates that it has it.

## 5. What is not modelled, and why

* Listing and counting of analyses, and the metrics, of the SQL backend: one statement
  each, which reads one snapshot. The hazards of paging are studied on the file
  backend's history and on PostgreSQL's queue.
* Similarity of clauses (`Similar` is any relation). `CompliancePipeline` lets retrieval
  find any citation; how one is found is `Retrieval`.
* Eligibility for memory beyond what the pipeline can produce, title and length
  limits of the gate, prompts, credentials.
* Names and their sanitizing in `reporting.py`; input validation, response shapes and
  health checks of the API; rendering of the dashboard.
* White space, links and footnotes of regulation texts. Empty documents and documents
  that are no XML are failed fetches.
* The three cache backends are one store that may fail; which HTTP error becomes which
  exception.
* Extraction of contracts from PDF and their split into clauses, server wiring,
  configuration, logging, the migrations script, benchmarks: conversions, wiring or
  one-off scripts. Two notes from reading them: the heading pattern's `\s+` spans line
  ends (`agent/contract_parser.py:15`), so that a bare "SECTION 2" swallows the next line;
  and of two concurrent runs of `scripts/migrate.py` the second fails on its INSERT and
  rolls back whole.

## 6. Where the code and its documentation disagree

Three are shown by runs:

1. `agent/memory_store.py:107`: nobody repairs a torn last line, so the next record is
   glued to it and lost though its append returned True (`:9`, `:12-14` promise
   otherwise). Run `MemoryStore_glued`; `LossIsBounded` says how much it can cost.
2. `agent/mcp_search.py:595`: a match whose versioned text could not be fetched keeps
   the current text under the new effective version, so that a verdict on the old
   text is reused where a rule would now decide otherwise (`agent/memory.py:15-20`,
   `:472-475`). Run `CompliancePipeline_hierarchy`; `RulesPrevailWhenSpecific` is the part
   that holds.
3. `parsing/xml_parser.py:371`: of each element only `text` is taken, so the words that
   follow an inline element within a paragraph (its tail) are missing from what
   `tools/retrieve_section.py:41` calls the exact legal text. Run `Retrieval_inline`;
   without inline markup `TextIsExact` holds (`Retrieval_clauses`; for every regular
   document by `TextIsExactWhenRegular`).

Others were met while reading and follow from the modelled definitions.

Review:

* `agent/persistence/postgres_repository.py:104` replaces stored results, which
  `base.py:21-23` calls immutable; `:609` puts a detail page together from five
  statements that may see different commits (`api.py:1114-1117`).
* `agent/persistence/postgres_repository.py:593`: a save may drop a clause between the
  closing read of a decision and its COMMIT, so that the tables show a decision made on
  no clause. The double (`inmemory_repository.py:4-5`: "mirrors the semantics of
  PostgresRepository") knows no such step; that saves and decisions still have an order
  in which each is a call of it is `ImplementsDouble`.
* A clause that a later save drops leaves its record in the queue, where every decision
  on it answers 404 (`postgres_repository.py:507-517`; `README.md:142` calls the queue
  actionable).
* `agent/persistence/inmemory_repository.py:160-194` orders the double's queue by
  analysis only and counts at most 50 of it, and `:113-119` at most 50 analyses; it
  accepts duplicate clause ids that PostgreSQL rejects.

Memory:

* `agent/memory_store.py:124`: `splitlines()` also breaks at U+2028, so such a record is
  never read back; a file cut inside a character makes load raise (`:116-119` says it
  skips); two instances can write a record twice (`:15-16`), `CopiesAreBounded` says how
  often.
* `agent/memory.py:289` accepts "Needs Review" results, which `:286-287` excludes.

Retrieval:

* `agent/cfr_query_optimizer.py:185-197` says that "non-hazardous waste-adjacent" does
  not match "hazardous waste"; it does, since `\b` also matches at a hyphen. A phrase
  broken by a line end does not match.
* `agent/mcp_search.py:245-247` calls a hit usable when its title is a number; one
  whose title is not passes the test and fails the clause at `:539`, though another hit
  would do (the exception in `HintNeverCosts`).
* `parsing/xml_parser.py:180` says document order; the streaming parser yields an
  element at its end, so that in a whole title inline words come before the paragraph
  they stand in.
* A section that does not begin with its part is qualified twice ("3160.3161.1"), one
  equal to its part is cited as the part, a part without heading gets that of its first
  section, and a missing part makes the search for a section go through the whole
  document (`clients/ecfr_client.py:226-230`, `parsing/xml_parser.py:297-345`).
* `parsing/xml_parser.py:337` compares section numbers exactly, `_find_all` without regard
  to case.

Verdict:

* `agent/deterministic_rules.py:318` says
  "The verdict hierarchy: Non-Compliant > Compliant > Needs Review", but rule 3 is tried
  first (`:326`) and the first rule that decides wins. A clause that names the section and shares no keyword with a text that says
  "must" is Compliant with 0.90, where rule 1 says Non-Compliant with 0.80. The other
  order that the file names, by confidence (`:14-15`), is the one that holds
  (`HighestConfidenceWins`). `ViolationsPrevail` says that rule 3 is the only exception to
  the hierarchy: in particular the LLM never overrules a violation that a rule finds,
  also where rules raise, and this is the verifier's doing.
* `agent/compliance_pipeline.py:476` raises when the session cannot be opened;
  `:454-457` promises results.
* `agent/deterministic_rules.py:64-73`: the markers "shall", "will be", "without
  exception" and "may not" never match, since the tokenizer drops or splits them
  (`OnlyMustIsMandatory`). A scope with only a part finds its marker among keywords,
  from which numbers are dropped, so it never yields "Compliant". Rules run in the order
  3, 1, 2 (`:308`).
* `agent/verification_agent.py:55-136`: the comparison with the rules can only fire
  when they raised (`NoConflictUnlessRaised`).
* `agent/compliance_agent.py:298-302` promises that one malformed item does not sink an
  evaluation; an infinite or undefined number raises out of `:309-323`.
* `agent/verification_agent.py:171`: the overlap of evidence and regulation is computed
  and ignored, though the docstring at `:147-149` makes it part of the check. Evidence
  that quotes something else, or an object without any content
  (`agent/compliance_agent.py:279`), makes a verdict verified; `VerifiedIsGrounded` is
  what holds.

Reports and server:

* `agent/reporting.py:195` promises that distinct ids never overwrite one another;
  sanitizing maps different ids to one name, and the fallback of `:151` is never used,
  so that reports without id are all "analysis". Concurrent saves of one name share
  a temporary file (`:206`).
* `clients/http_client.py:130`: the sleep treats the window's edge as outside and the
  eviction as inside, so on a clock that stands still for an instant the limiter lets
  calls through that `:99-101` excludes: `RateIsBounded` is false of `HttpClient` with
  `FineClock = FALSE`.
* `clients/ecfr_client.py:134`: of two answers of the titles index that were asked for at
  once the older one may arrive last; it is kept until the server restarts, so that
  calls without a date get an older one than was cited before
  (`tools/retrieve_section.py:47-48` speaks of the latest available date). Each citation is
  still true of its text (`CitationIsTrue`).
* `clients/ecfr_client.py:129`: the latest date is resolved once per server process, and
  what eCFR issues later is not seen (`:64-66` calls that acceptable).
* `clients/ecfr_client.py:169`: a title document is kept before it is parsed, so one that was
  cut short fails every later call of that date. `FailuresAreUpstream` excepts it.

## 7. Plan

Done: the modules above, in this order of importance: review workflow, memory
store, pipeline, HTTP client, tool cache, verdict, report files, retrieval with its
query and parser, review queue.

Every invariant and every safety action property of the passing runs is a theorem, under
the hypotheses that section 4 names. Left to prove: `TextIsExact` under weaker
hypotheses, one for each irregularity of section 6 that turns out not to matter (a
number that occurs twice, when the first occurrence is the one meant).

Further to model, if the code grows there: eligibility for memory
(`agent/memory.py:276-308`) and the remaining gates of `agent/security.py` as parts of
`VerdictRules`; a save of reports through a shared temporary file, to drop `NameFree`.
