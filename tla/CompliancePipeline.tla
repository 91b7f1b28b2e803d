-------------------------- MODULE CompliancePipeline --------------------------
(***************************************************************************)
(* Evaluation runs of agent/compliance_pipeline.py and bulk requests of    *)
(* api.py over one Compliance Memory (agent/memory.py), while the          *)
(* regulation is being amended.                                            *)
(*                                                                         *)
(* A pipeline run retrieves the regulation of all its clauses              *)
(* (agent/mcp_search.py, at most Permits at a time), then evaluates them   *)
(* as concurrent tasks that give way only while the LLM answers. A run is  *)
(* a process of its own; an API run is a request whose caller supplies     *)
(* the regulation. A version is an issue date; 0 stands for "not known".   *)
(***************************************************************************)
EXTENDS Naturals, Sequences, FiniteSets, Functions

CONSTANTS
    Runs,           \* pipeline runs and API requests
    ApiRuns,        \* those that are API requests
    Jobs,           \* one evaluation of one clause
    RunOf,          \* RunOf[j]: the run the job belongs to
    Clauses,        \* clause fingerprints
    ClauseOf,       \* ClauseOf[j]: the clause it evaluates
    Suspicious,     \* clauses the security gate refuses
    Similar,        \* pairs of clauses that are near-duplicates
    Citations,      \* the regulations retrieval may find
    TitleOf,        \* TitleOf[c]: the CFR title of a citation
    Rules,          \* evaluate_deterministic of a clause, a regulation and its
                    \* version, told the part and section to look for or not
    MaxVersion,     \* bound on the issue dates of the regulation
    Permits,        \* RETRIEVAL_SEMAPHORE
    NoCitation,     \* retrieval found no regulation
    Unloaded        \* the store has not read the file yet

Verdicts == {"Compliant", "Non-Compliant"}
Statuses == Verdicts \cup {"Needs Review"}
Versions == 1..MaxVersion

ASSUME ConstantsAssumption ==
    /\ ApiRuns \subseteq Runs
    /\ IsFiniteSet(Jobs)
    /\ RunOf \in [Jobs -> Runs] /\ ClauseOf \in [Jobs -> Clauses]
    /\ Suspicious \subseteq Clauses
    /\ Similar \subseteq Clauses \X Clauses
    /\ DOMAIN TitleOf = Citations /\ NoCitation \notin Citations
    /\ Rules \in [Clauses \X Citations \X Versions \X BOOLEAN -> Statuses \cup {"raises"}]
    /\ MaxVersion \in Nat \ {0} /\ Permits \in Nat \ {0}

VARIABLES
    version,    \* the latest issue date of the regulation
    asOf,       \* asOf[r]: the "current" date the run's MCP server resolved once
    phase,      \* where each run is
    permits,    \* permits[r]: free places of the run's retrieval semaphore
    pc,         \* where each job is
    match,      \* match[j]: its CfrMatch
    shown,      \* shown[j]: the records its LLM call got as historical context
    result,     \* result[j]: its ComplianceResult
    memory,     \* the records of the memory file, in file order
    known       \* known[r]: the record ids the run's MemoryStore holds

vars == <<version, asOf, phase, permits, pc, match, shown, result, memory, known>>

Matches == [citation : Citations \cup {NoCitation}, text : 0..MaxVersion,
            effective : 0..MaxVersion, specific : BOOLEAN]

\* effective is the version a record is filed under, basis the version of the
\* text its verdict was reached on (its evidence), scoped whether the rules knew
\* its part and section, assisted whether memory had a part in the verdict.
Records == [clause : Clauses, citation : Citations, effective : 0..MaxVersion,
            status : Statuses, via : {"rule", "llm"}, basis : Versions,
            specific : BOOLEAN, scoped : BOOLEAN, assisted : BOOLEAN]

RecordIds == Clauses \X Citations \X (0..MaxVersion)

NoMatch == [citation |-> NoCitation, text |-> 0, effective |-> 0, specific |-> FALSE]

\* via tells how a result was reached; of a reused one, source is the record.
Pending == [status |-> "Needs Review", via |-> "none"]
Review == [status |-> "Needs Review", via |-> "review"]
Results == {Pending, Review}
    \cup [status : Statuses, via : {"rule", "llm"}]
    \cup [status : Verdicts, via : {"memory"}, source : Records]

TypeOK ==
    /\ version \in Versions
    /\ asOf \in [Runs -> 0..MaxVersion]
    /\ phase \in [Runs -> {"new", "retrieving", "evaluating", "done", "raised"}]
    /\ permits \in [Runs -> 0..Permits]
    /\ pc \in [Jobs -> {"start", "search", "text", "history", "versioned",
                        "matched", "llm", "done"}]
    /\ match \in [Jobs -> Matches]
    /\ shown \in [Jobs -> SUBSET Records]
    /\ result \in [Jobs -> Results]
    /\ memory \in Seq(Records)
    /\ known \in [Runs -> {Unloaded} \cup SUBSET RecordIds]

JobsOf(r) == {j \in Jobs : RunOf[j] = r}

Init ==
    /\ version = 1
    /\ asOf = [r \in Runs |-> 0]
    /\ phase = [r \in Runs |-> "new"]
    /\ permits = [r \in Runs |-> Permits]
    /\ pc = [j \in Jobs |-> "start"]
    /\ match = [j \in Jobs |-> NoMatch]
    /\ shown = [j \in Jobs |-> {}]
    /\ result = [j \in Jobs |-> Pending]
    /\ memory = <<>>
    /\ known = [r \in Runs |-> Unloaded]

-----------------------------------------------------------------------------
(* Retrieval: retrieve_for_clauses and retrieve_for_clause *)

\* A new issue of the regulation is published.
Amend ==
    /\ version < MaxVersion
    /\ version' = version + 1
    /\ UNCHANGED <<asOf, phase, permits, pc, match, shown, result, memory, known>>

\* The run opens its session with a new MCP server.
Connect(r) ==
    /\ phase[r] = "new" /\ r \notin ApiRuns
    /\ phase' = [phase EXCEPT ![r] = "retrieving"]
    /\ UNCHANGED <<version, asOf, permits, pc, match, shown, result, memory, known>>

\* The session cannot be opened: run_compliance_pipeline re-raises.
ConnectFails(r) ==
    /\ phase[r] = "new" /\ r \notin ApiRuns
    /\ phase' = [phase EXCEPT ![r] = "raised"]
    /\ UNCHANGED <<version, asOf, permits, pc, match, shown, result, memory, known>>

\* Mutant: a retrieval starts without taking its place in the semaphore.
Acquire_NoWait(j) ==
    /\ pc[j] = "start"
    /\ phase[RunOf[j]] = "retrieving"
    /\ pc' = [pc EXCEPT ![j] = "search"]
    /\ UNCHANGED <<version, asOf, phase, permits, match, shown, result, memory, known>>

\* A retrieval waits for a place in the semaphore and takes it.
Acquire(j) ==
    /\ pc[j] = "start"
    /\ phase[RunOf[j]] = "retrieving"
    /\ permits[RunOf[j]] > 0
    /\ permits' = [permits EXCEPT ![RunOf[j]] = @ - 1]
    /\ pc' = [pc EXCEPT ![j] = "search"]
    /\ UNCHANGED <<version, asOf, phase, match, shown, result, memory, known>>

\* The retrieval of j ends with match m, and its place in the semaphore is free.
Retrieved(j, m) ==
    /\ match' = [match EXCEPT ![j] = m]
    /\ pc' = [pc EXCEPT ![j] = "matched"]
    /\ permits' = [permits EXCEPT ![RunOf[j]] = @ + 1]

\* The search finds a regulation with a usable title and part.
Search(j, c) ==
    /\ pc[j] = "search"
    /\ match' = [match EXCEPT ![j].citation = c]
    /\ pc' = [pc EXCEPT ![j] = "text"]
    /\ UNCHANGED <<version, asOf, phase, permits, shown, result, memory, known>>

\* Mutant: the place in the semaphore is given back only by a full retrieval.
RetrievalFails_KeepsPermit(j) ==
    /\ pc[j] \in {"search", "text"}
    /\ match' = [match EXCEPT ![j] = NoMatch]
    /\ pc' = [pc EXCEPT ![j] = "matched"]
    /\ UNCHANGED <<version, asOf, phase, permits, shown, result, memory, known>>

\* No usable search result, or the search or the first fetch fails.
RetrievalFails(j) ==
    /\ pc[j] \in {"search", "text"}
    /\ Retrieved(j, NoMatch)
    /\ UNCHANGED <<version, asOf, phase, shown, result, memory, known>>

\* The current text: as of the date the run's server resolved at its first
\* fetch and never resolves again.
FetchText(j) ==
    LET r == RunOf[j]
        date == IF asOf[r] = 0 THEN version ELSE asOf[r]
    IN  /\ pc[j] = "text"
        /\ asOf' = [asOf EXCEPT ![r] = date]
        /\ match' = [match EXCEPT ![j].text = date]
        /\ pc' = [pc EXCEPT ![j] = "history"]
        /\ UNCHANGED <<version, phase, permits, shown, result, memory, known>>

\* The version history names the latest issue, whatever text was fetched.
FetchHistory(j) ==
    /\ pc[j] = "history"
    /\ match' = [match EXCEPT ![j].effective = version]
    /\ pc' = [pc EXCEPT ![j] = "versioned"]
    /\ UNCHANGED <<version, asOf, phase, permits, shown, result, memory, known>>

\* No version history: retrieval goes on without an effective version.
HistoryFails(j) ==
    /\ pc[j] = "history"
    /\ Retrieved(j, match[j])
    /\ UNCHANGED <<version, asOf, phase, shown, result, memory, known>>

\* The text as of the effective version.
FetchVersioned(j) ==
    /\ pc[j] = "versioned"
    /\ Retrieved(j, [match[j] EXCEPT !.text = match[j].effective, !.specific = TRUE])
    /\ UNCHANGED <<version, asOf, phase, shown, result, memory, known>>

\* That fetch fails: the current text is kept, and the effective version too.
VersionedFails(j) ==
    /\ pc[j] = "versioned"
    /\ Retrieved(j, match[j])
    /\ UNCHANGED <<version, asOf, phase, shown, result, memory, known>>

\* gather returns every match, and one evaluation task per match is created.
StartEvaluation(r) ==
    /\ phase[r] = "retrieving"
    /\ \A j \in JobsOf(r) : pc[j] = "matched"
    /\ phase' = [phase EXCEPT ![r] = "evaluating"]
    /\ UNCHANGED <<version, asOf, permits, pc, match, shown, result, memory, known>>

\* An API request brings regulation text of any date, or none, and no version.
ApiRequest(r) ==
    /\ phase[r] = "new" /\ r \in ApiRuns
    /\ \E m \in [JobsOf(r) -> {NoMatch} \cup
                    [citation : Citations, text : 1..version,
                     effective : {0}, specific : {FALSE}]] :
          match' = [j \in Jobs |-> IF j \in JobsOf(r) THEN m[j] ELSE match[j]]
    /\ pc' = [j \in Jobs |-> IF j \in JobsOf(r) THEN "matched" ELSE pc[j]]
    /\ phase' = [phase EXCEPT ![r] = "evaluating"]
    /\ UNCHANGED <<version, asOf, permits, shown, result, memory, known>>

-----------------------------------------------------------------------------
(* Compliance Memory *)

RecordId(rec) == <<rec.clause, rec.citation, rec.effective>>

\* Mutant: any version of the regulation will do.
ExactReuseAllowed_AnyVersion(rec, j) ==
    /\ rec.clause = ClauseOf[j]
    /\ rec.status \in Verdicts
    /\ rec.citation = match[j].citation

\* _exact_reuse_allowed, for a record of a compatible scope.
ExactReuseAllowed(rec, j) ==
    /\ rec.clause = ClauseOf[j]
    /\ rec.status \in Verdicts
    /\ rec.citation = match[j].citation
    /\ match[j].effective # 0
    /\ rec.effective = match[j].effective

\* The records a lookup sees: none when the file cannot be read.
Seen(readable) == IF readable THEN memory ELSE <<>>

\* The positions of the records of job j's clause that may be reused.
Exact(j, recs) == {i \in DOMAIN recs : ExactReuseAllowed(recs[i], j)}

\* Near-duplicates: a similar clause under the same title.
Near(j, recs) ==
    {i \in DOMAIN recs : /\ recs[i].clause # ClauseOf[j]
                         /\ <<recs[i].clause, ClauseOf[j]>> \in Similar
                         /\ TitleOf[recs[i].citation] = TitleOf[match[j].citation]}

\* ComplianceMemory.index of an eligible result: refused when this run's store
\* knows the id. An incomplete evidence passage, an unreadable file or a failed
\* write leaves the memory as it was.
Index(j, rec) ==
    LET r == RunOf[j]
        ids == IF known[r] = Unloaded THEN {RecordId(rec2) : rec2 \in Range(memory)}
               ELSE known[r]
    IN  \/ /\ RecordId(rec) \notin ids
           /\ memory' = Append(memory, rec)
           /\ known' = [known EXCEPT ![r] = ids \cup {RecordId(rec)}]
        \/ /\ known' \in {known, [known EXCEPT ![r] = ids]}
           /\ UNCHANGED memory

\* The API neither retrieves nor knows the part and section of its text.
InApi(j) == RunOf[j] \in ApiRuns

\* The record of a verdict of job j, reached with the help of memory or not.
RecordOf(j, status, how, assisted) ==
    [clause |-> ClauseOf[j], citation |-> match[j].citation,
     effective |-> match[j].effective, status |-> status, via |-> how,
     basis |-> match[j].text, specific |-> match[j].specific,
     scoped |-> ~InApi(j), assisted |-> assisted]

-----------------------------------------------------------------------------
(* Evaluation: _evaluate_match and the API's _evaluate_clause *)

\* Job j may be evaluated; an API request evaluates its clauses one by one.
MayEvaluate(j) ==
    /\ pc[j] = "matched"
    /\ phase[RunOf[j]] = "evaluating"
    /\ InApi(j) => \A k \in JobsOf(RunOf[j]) : pc[k] # "llm"

\* The security gate lets the clause pass and the regulation text is there.
Usable(j) == ClauseOf[j] \notin Suspicious /\ match[j].text # 0

RuleFor(j) == Rules[<<ClauseOf[j], match[j].citation, match[j].text, ~InApi(j)>>]

\* verify_compliance runs the rules again, never told the part and section.
VerifierRule(j) == Rules[<<ClauseOf[j], match[j].citation, match[j].text, FALSE>>]

Finish(j, res) ==
    /\ result' = [result EXCEPT ![j] = res]
    /\ pc' = [pc EXCEPT ![j] = "done"]

\* The gate refuses the clause, or there is no regulation to judge it by.
CannotJudge(j) ==
    /\ MayEvaluate(j)
    /\ ~Usable(j)
    /\ Finish(j, Review)
    /\ UNCHANGED <<version, asOf, phase, permits, match, shown, memory, known>>

\* An exact match: the verdict of the last such record is reused.
Reuse(j) ==
    /\ MayEvaluate(j) /\ Usable(j)
    /\ \E i \in Exact(j, memory) :
          /\ \A k \in Exact(j, memory) : k <= i
          /\ Finish(j, [status |-> memory[i].status, via |-> "memory",
                        source |-> memory[i]])
    /\ UNCHANGED <<version, asOf, phase, permits, match, shown, memory, known>>

\* A deterministic rule decides, when the lookup finds no exact match or fails.
\* It takes no notice of historical context.
Rule(j) ==
    /\ MayEvaluate(j) /\ Usable(j)
    /\ RuleFor(j) \in Verdicts
    /\ Finish(j, [status |-> RuleFor(j), via |-> "rule"])
    /\ Index(j, RecordOf(j, RuleFor(j), "rule", FALSE))
    /\ UNCHANGED <<version, asOf, phase, permits, match, shown>>

\* No rule decides: the LLM is asked, and shown the near-duplicates (the prompt
\* has room for the first few). Only the pipeline goes on when the rules raise.
AskLlm(j) ==
    /\ MayEvaluate(j) /\ Usable(j)
    /\ RuleFor(j) \in {"Needs Review"} \cup (IF InApi(j) THEN {} ELSE {"raises"})
    /\ \E readable \in BOOLEAN :
          /\ Exact(j, Seen(readable)) = {}
          /\ shown' = [shown EXCEPT ![j] = {memory[i] : i \in Near(j, Seen(readable))}]
    /\ pc' = [pc EXCEPT ![j] = "llm"]
    /\ UNCHANGED <<version, asOf, phase, permits, match, result, memory, known>>

\* In an API request an exception of the rules becomes a review.
RulesRaise(j) ==
    /\ MayEvaluate(j) /\ Usable(j)
    /\ InApi(j) /\ RuleFor(j) = "raises"
    /\ Finish(j, Review)
    /\ UNCHANGED <<version, asOf, phase, permits, match, shown, memory, known>>

\* The LLM call raises (or no LLM is configured), or the verifier does not accept
\* what it said, for one of its own reasons or by the rules.
LlmRefused(j) ==
    /\ pc[j] = "llm"
    /\ Finish(j, Review)
    /\ UNCHANGED <<version, asOf, phase, permits, match, shown, memory, known>>

\* The rules, run again, neither raise nor say the opposite.
VerifierMayAccept(j, status) ==
    /\ VerifierRule(j) # "raises"
    /\ {status, VerifierRule(j)} # Verdicts

\* Mutant: results reached with historical context are indexed too.
LlmAccepted_AlwaysIndexed(j, status) ==
    /\ pc[j] = "llm"
    /\ VerifierMayAccept(j, status)
    /\ Finish(j, [status |-> status, via |-> "llm"])
    /\ Index(j, RecordOf(j, status, "llm", shown[j] # {}))
    /\ UNCHANGED <<version, asOf, phase, permits, match, shown>>

\* The verifier accepts, whatever the status, and also when the rules had raised
\* before. Only a result reached without historical context is indexed.
LlmAccepted(j, status) ==
    /\ pc[j] = "llm"
    /\ VerifierMayAccept(j, status)
    /\ Finish(j, [status |-> status, via |-> "llm"])
    /\ IF shown[j] # {} THEN UNCHANGED <<memory, known>>
       ELSE Index(j, RecordOf(j, status, "llm", FALSE))
    /\ UNCHANGED <<version, asOf, phase, permits, match, shown>>

\* gather returns one result per clause.
EndRun(r) ==
    /\ phase[r] = "evaluating"
    /\ \A j \in JobsOf(r) : pc[j] = "done"
    /\ phase' = [phase EXCEPT ![r] = "done"]
    /\ UNCHANGED <<version, asOf, permits, pc, match, shown, result, memory, known>>

Retrieve(j) ==
    \/ Acquire(j) \/ \E c \in Citations : Search(j, c)
    \/ RetrievalFails(j) \/ FetchText(j) \/ FetchHistory(j) \/ HistoryFails(j)
    \/ FetchVersioned(j) \/ VersionedFails(j)

Evaluate(j) ==
    \/ CannotJudge(j) \/ Reuse(j) \/ Rule(j) \/ AskLlm(j) \/ RulesRaise(j)
    \/ LlmRefused(j) \/ \E status \in Statuses : LlmAccepted(j, status)

Advance(r) ==
    \/ Connect(r) \/ ConnectFails(r) \/ ApiRequest(r)
    \/ StartEvaluation(r) \/ EndRun(r)

Next ==
    \/ Amend
    \/ \E r \in Runs : Advance(r)
    \/ \E j \in Jobs : Retrieve(j) \/ Evaluate(j)

Spec == Init /\ [][Next]_vars

\* The event loop runs every task that is ready, tool and LLM calls have
\* timeouts, and the semaphore is first come, first served.
FairSpec ==
    /\ Spec
    /\ \A r \in Runs : WF_vars(Advance(r))
    /\ \A j \in Jobs : SF_vars(Acquire(j)) /\ WF_vars(Retrieve(j)) /\ WF_vars(Evaluate(j))

-----------------------------------------------------------------------------
(* Properties *)

\* The jobs of a run that hold a place in its semaphore.
Retrieving(r) ==
    {j \in JobsOf(r) : pc[j] \in {"search", "text", "history", "versioned"}}

\* "the concurrency cap applies to the full request": whichever way a retrieval
\* ends, the place it held is free again, once.
PlacesAddUp == \A r \in Runs : permits[r] + Cardinality(Retrieving(r)) = Permits

\* A result is settled: it is verified, by whatever way.
Verified(j) == result[j].via \in {"rule", "llm", "memory"}

\* What the current rules decide on the text the job retrieved, the result says.
RulesPrevailFor(j) ==
    (Verified(j) /\ RuleFor(j) \in Verdicts) => result[j].status = RuleFor(j)

\* memory.py "Authority hierarchy", as far as it holds: a verdict never goes
\* against the current rules on the current text; for a reused verdict, provided
\* both texts were fetched for the effective version.
RulesPrevailWhenSpecific ==
    \A j \in Jobs :
        (Verified(j) /\ (result[j].via = "memory" =>
                           match[j].specific /\ result[j].source.specific))
            => RulesPrevailFor(j)

\* What the rules say of a record's regulation text, run as they were for it.
RuleOn(rec) == Rules[<<rec.clause, rec.citation, rec.basis, rec.scoped>>]

\* "prior VERIFIED compliance outcomes for this or a similar contract clause"
\* (memory.py:638) and "Feedback-loop prevention" (memory.py:31): what an LLM is
\* shown is on file and of another clause, was itself reached on the regulation
\* alone, in whichever run and however the runs overlapped, and goes against
\* no rule. A verdict is never its own precedent, by way of another's either.
PrecedentsAreGrounded ==
    \A j \in Jobs : \A rec \in shown[j] :
        /\ rec \in Range(memory)
        /\ rec.clause # ClauseOf[j]
        /\ ~rec.assisted
        /\ RuleOn(rec) \in Verdicts => rec.status = RuleOn(rec)

\* A reused verdict was reached without memory, on the same regulation, by a
\* rule or an accepted LLM answer, and is a final verdict still on file.
ReuseIsGrounded ==
    \A j \in Jobs : result[j].via = "memory" =>
        LET rec == result[j].source
        IN  /\ rec \in Range(memory)
            /\ rec.clause = ClauseOf[j]
            /\ rec.citation = match[j].citation
            /\ ~rec.assisted
            /\ match[j].specific /\ rec.specific => rec.basis = match[j].text

\* A record: reached without memory, in agreement with the rules on its text,
\* when version-specific, judged on the version it is filed under, and filed
\* under none by the API.
RecordInv(rec) ==
    /\ ~rec.assisted
    /\ rec.specific => rec.basis = rec.effective
    /\ ~rec.scoped => rec.effective = 0
    /\ rec.via = "rule" => rec.status = RuleOn(rec)
    /\ rec.via = "llm" => RuleOn(rec) \notin Verdicts

\* A match: complete or empty, of the effective version when specific, and of no
\* known version in the API.
MatchInv(j) ==
    /\ InApi(j) => /\ match[j].effective = 0 /\ phase[RunOf[j]] # "retrieving"
                   /\ pc[j] \notin {"search", "text", "history", "versioned"}
    /\ match[j].specific => match[j].text = match[j].effective /\ match[j].text # 0
    /\ match[j].text # 0 => match[j].citation # NoCitation
    /\ pc[j] \in {"text", "history", "versioned"} =>
          match[j].citation # NoCitation /\ ~match[j].specific
    /\ pc[j] = "versioned" => match[j].effective # 0
    /\ pc[j] = "llm" => match[j].text # 0 /\ RuleFor(j) \notin Verdicts
    /\ pc[j] \in {"start", "search"} => match[j] = NoMatch

\* A result, once there, still fits the match it was reached on.
ResultInv(j) ==
    /\ pc[j] # "done" => result[j] = Pending
    /\ phase[RunOf[j]] = "new" => pc[j] = "start"
    /\ Verified(j) => match[j].text # 0
    /\ result[j].via = "rule" => result[j].status = RuleFor(j)
    /\ result[j].via = "llm" => RuleFor(j) \notin Verdicts
    /\ result[j].via = "memory" =>
          /\ result[j].source \in Range(memory)
          /\ result[j].status = result[j].source.status
          /\ result[j].source.clause = ClauseOf[j]
          /\ result[j].source.citation = match[j].citation
          /\ result[j].source.effective = match[j].effective

\* What an LLM was shown is on file, of another clause.
ShownInv(j) ==
    \A rec \in shown[j] : rec \in Range(memory) /\ rec.clause # ClauseOf[j]

\* The inductive invariant behind the safety properties.
IInv ==
    /\ TypeOK
    /\ PlacesAddUp
    /\ \A i \in DOMAIN memory : RecordInv(memory[i])
    /\ \A j \in Jobs : MatchInv(j) /\ ResultInv(j) /\ ShownInv(j)

\* One result per clause in the end, unless the session could not be opened: no
\* task is left waiting for a place in the semaphore.
EveryRunEnds == \A r \in Runs : <>(phase[r] \in {"done", "raised"})

-----------------------------------------------------------------------------
(* What the repository says of itself *)

\* "Authority hierarchy (strict, never reordered)": retrieval and deterministic
\* validation rank above historical memory.
AuthorityHierarchy == \A j \in Jobs : RulesPrevailFor(j)
=============================================================================
