----------------------- MODULE CompliancePipelineProofs -----------------------
(***************************************************************************)
(* Proofs about CompliancePipeline for every set of runs, jobs, clauses    *)
(* and regulations, and every behaviour of the rules.                      *)
(***************************************************************************)
EXTENDS CompliancePipeline, FiniteSetTheorems, TLAPS

\* The invariant holds at the start.
LEMMA InitInv == Init => IInv
<1> SUFFICES ASSUME Init PROVE IInv
  OBVIOUS
<1> USE ConstantsAssumption DEF ConstantsAssumption
<1>1. TypeOK
  BY DEF Init, TypeOK, Versions, Matches, NoMatch, Results
<1>2. PlacesAddUp
  <2> SUFFICES ASSUME NEW r \in Runs
               PROVE  permits[r] + Cardinality(Retrieving(r)) = Permits
    BY DEF PlacesAddUp
  <2>1. Retrieving(r) = {}
    BY DEF Init, Retrieving, JobsOf
  <2> QED BY <2>1, FS_EmptySet DEF Init
<1>3. DOMAIN memory = {}
  BY DEF Init
<1>4. \A j \in Jobs : MatchInv(j) /\ ResultInv(j) /\ ShownInv(j)
  BY DEF Init, MatchInv, ResultInv, ShownInv, NoMatch, Pending, Verified
<1> QED BY <1>1, <1>2, <1>3, <1>4 DEF IInv

-----------------------------------------------------------------------------
(* The retrieval semaphore *)

\* A run whose jobs neither start nor end a retrieval keeps its places.
LEMMA SamePlaces ==
    ASSUME PlacesAddUp, NEW r \in Runs, Retrieving(r)' = Retrieving(r),
           permits'[r] = permits[r]
    PROVE  permits'[r] + Cardinality(Retrieving(r)') = Permits
BY DEF PlacesAddUp

\* Which jobs are retrieving depends on pc alone.
LEMMA RetrievingByPc ==
    ASSUME NEW r \in Runs,
           \A j \in JobsOf(r) :
              pc'[j] \in {"search", "text", "history", "versioned"}
                 <=> pc[j] \in {"search", "text", "history", "versioned"}
    PROVE  Retrieving(r)' = Retrieving(r)
BY DEF Retrieving, JobsOf

\* The jobs of a run that are retrieving are finitely many.
LEMMA RetrievingFinite == ASSUME NEW r \in Runs PROVE IsFiniteSet(Retrieving(r))
<1>1. Retrieving(r) \subseteq Jobs
  BY DEF Retrieving, JobsOf
<1> QED BY <1>1, FS_Subset, ConstantsAssumption DEF ConstantsAssumption

\* A retrieval that starts takes one place.
LEMMA PlacesAcquire ==
    ASSUME TypeOK, PlacesAddUp, NEW j \in Jobs, Acquire(j)
    PROVE  PlacesAddUp'
<1> USE ConstantsAssumption DEF ConstantsAssumption
<1> SUFFICES ASSUME NEW r \in Runs
             PROVE  permits'[r] + Cardinality(Retrieving(r)') = Permits
  BY DEF PlacesAddUp
<1>1. CASE r = RunOf[j]
  <2>1. Retrieving(r)' = Retrieving(r) \cup {j} /\ j \notin Retrieving(r)
    BY <1>1 DEF Acquire, Retrieving, JobsOf, TypeOK
  <2>2. Cardinality(Retrieving(r)') = Cardinality(Retrieving(r)) + 1
    BY <2>1, RetrievingFinite, FS_AddElement
  <2>3. Cardinality(Retrieving(r)) \in Nat
    BY RetrievingFinite, FS_CardinalityType
  <2>4. permits'[r] = permits[r] - 1 /\ permits[r] \in Nat
    BY <1>1 DEF Acquire, TypeOK
  <2> QED BY <2>2, <2>3, <2>4 DEF PlacesAddUp
<1>2. CASE r # RunOf[j]
  <2>1. Retrieving(r)' = Retrieving(r)
    BY <1>2 DEF Acquire, Retrieving, JobsOf, TypeOK
  <2>2. permits'[r] = permits[r]
    BY <1>2 DEF Acquire, TypeOK
  <2> QED BY <2>1, <2>2, SamePlaces
<1> QED BY <1>1, <1>2

\* A retrieval that ends, however it ends, gives its place back.
LEMMA PlacesRetrieved ==
    ASSUME TypeOK, PlacesAddUp, NEW j \in Jobs, NEW m, Retrieved(j, m),
           pc[j] \in {"search", "text", "history", "versioned"}
    PROVE  PlacesAddUp' /\ permits' \in [Runs -> 0..Permits]
<1> USE ConstantsAssumption DEF ConstantsAssumption
<1>1. PlacesAddUp'
  <2> SUFFICES ASSUME NEW r \in Runs
               PROVE  permits'[r] + Cardinality(Retrieving(r)') = Permits
    BY DEF PlacesAddUp
  <2>1. CASE r = RunOf[j]
    <3>1. Retrieving(r)' = Retrieving(r) \ {j} /\ j \in Retrieving(r)
      BY <2>1 DEF Retrieved, Retrieving, JobsOf, TypeOK
    <3>2. Cardinality(Retrieving(r)') = Cardinality(Retrieving(r)) - 1
      BY ZenonT(60), <3>1, RetrievingFinite, FS_RemoveElement
    <3>3. Cardinality(Retrieving(r)) \in Nat
      BY RetrievingFinite, FS_CardinalityType
    <3>4. permits'[r] = permits[r] + 1 /\ permits[r] \in Nat
      BY <2>1 DEF Retrieved, TypeOK
    <3> QED BY <3>2, <3>3, <3>4 DEF PlacesAddUp
  <2>2. CASE r # RunOf[j]
    <3>1. Retrieving(r)' = Retrieving(r)
      BY <2>2 DEF Retrieved, Retrieving, JobsOf, TypeOK
    <3>2. permits'[r] = permits[r]
      BY <2>2 DEF Retrieved, TypeOK
    <3> QED BY <3>1, <3>2, SamePlaces
  <2> QED BY <2>1, <2>2
<1>2. permits' \in [Runs -> 0..Permits]
  <2>1. permits' = [permits EXCEPT ![RunOf[j]] = @ + 1]
    BY DEF Retrieved
  <2>2. permits[RunOf[j]] + 1 \in 0..Permits
    <3>1. j \in Retrieving(RunOf[j]) /\ RunOf[j] \in Runs
      BY DEF Retrieving, JobsOf
    <3>2. Cardinality(Retrieving(RunOf[j])) \in Nat
      BY <3>1, RetrievingFinite, FS_CardinalityType
    <3>3. Cardinality(Retrieving(RunOf[j])) # 0
      BY <3>1, RetrievingFinite, FS_EmptySet
    <3>4. permits[RunOf[j]] + Cardinality(Retrieving(RunOf[j])) = Permits
      BY <3>1 DEF PlacesAddUp
    <3>5. permits[RunOf[j]] \in Nat
      BY <3>1 DEF TypeOK
    <3> QED BY <3>2, <3>3, <3>4, <3>5
  <2> QED BY <2>1, <2>2 DEF TypeOK
<1> QED BY <1>1, <1>2

-----------------------------------------------------------------------------
(* What a step leaves alone *)

\* A job whose state a step does not touch keeps its invariant.
LEMMA OtherJob ==
    ASSUME NEW k \in Jobs, MatchInv(k), ResultInv(k),
           match'[k] = match[k], pc'[k] = pc[k], result'[k] = result[k],
           phase'[RunOf[k]] = "new" => phase[RunOf[k]] = "new",
           phase'[RunOf[k]] = "retrieving" => phase[RunOf[k]] = "retrieving" \/ ~InApi(k),
           Range(memory) \subseteq Range(memory')
    PROVE  MatchInv(k)' /\ ResultInv(k)'
<1>1. RuleFor(k)' = RuleFor(k) /\ Verified(k)' = Verified(k) /\ InApi(k)' = InApi(k)
  BY DEF RuleFor, Verified, InApi
<1>2. MatchInv(k)'
  BY <1>1 DEF MatchInv
<1>3. ResultInv(k)'
  BY <1>1, Zenon DEF ResultInv, Range
<1> QED BY <1>2, <1>3

\* Records stay on file, so what was shown still is.
LEMMA ShownKept ==
    ASSUME IInv, shown' = shown, Range(memory) \subseteq Range(memory')
    PROVE  \A k \in Jobs : ShownInv(k)'
BY DEF IInv, ShownInv

\* What the indexing of a record does to the memory: nothing, or one more record.
LEMMA IndexEffect ==
    ASSUME TypeOK, NEW j \in Jobs, NEW rec \in Records, Index(j, rec),
           RecordInv(rec), \A i \in DOMAIN memory : RecordInv(memory[i])
    PROVE  /\ memory' \in Seq(Records)
           /\ known' \in [Runs -> {Unloaded} \cup SUBSET RecordIds]
           /\ Range(memory) \subseteq Range(memory')
           /\ \A i \in DOMAIN memory' : RecordInv(memory'[i])
<1> DEFINE ids == IF known[RunOf[j]] = Unloaded
                  THEN {RecordId(rec2) : rec2 \in Range(memory)}
                  ELSE known[RunOf[j]]
<1>1. \A rec2 \in Records : RecordId(rec2) \in RecordIds
  BY DEF RecordId, RecordIds, Records
<1>2. Range(memory) \subseteq Records
  <2>1. \A i \in DOMAIN memory : memory[i] \in Records
    BY DEF TypeOK
  <2> QED BY <2>1 DEF Range
<1>3. ids \in SUBSET RecordIds
  <2>1. CASE known[RunOf[j]] = Unloaded
    BY <2>1, <1>1, <1>2
  <2>2. CASE known[RunOf[j]] # Unloaded
    <3>1. RunOf[j] \in Runs
      BY ConstantsAssumption DEF ConstantsAssumption
    <3> QED BY <2>2, <3>1 DEF TypeOK
  <2> QED BY <2>1, <2>2
<1>4. \/ memory' = Append(memory, rec) /\
           known' = [known EXCEPT ![RunOf[j]] = ids \cup {RecordId(rec)}]
      \/ memory' = memory /\ known' \in {known, [known EXCEPT ![RunOf[j]] = ids]}
  BY DEF Index
<1> HIDE DEF ids
<1>5. known' \in [Runs -> {Unloaded} \cup SUBSET RecordIds]
  <2>1. RecordId(rec) \in RecordIds
    BY <1>1
  <2>2. ids \cup {RecordId(rec)} \in SUBSET RecordIds
    BY <2>1, <1>3
  <2> QED BY <1>3, <1>4, <2>2 DEF TypeOK
<1>6. CASE memory' = memory
  BY <1>5, <1>6 DEF TypeOK
<1>7. CASE memory' = Append(memory, rec)
  <2>1. memory \in Seq(Records)
    BY DEF TypeOK
  <2>2. memory' \in Seq(Records)
    BY <2>1, <1>7
  <2>3. /\ DOMAIN memory' = 1..(Len(memory) + 1) /\ DOMAIN memory = 1..Len(memory)
        /\ Len(memory) \in Nat
        /\ \A i \in 1..Len(memory) : memory'[i] = memory[i]
        /\ memory'[Len(memory) + 1] = rec
    BY <2>1, <1>7
  <2>4. Range(memory) \subseteq Range(memory')
    BY <2>3 DEF Range
  <2>5. \A i \in 1..(Len(memory) + 1) : i \in 1..Len(memory) \/ i = Len(memory) + 1
    BY <2>3
  <2>6. \A i \in DOMAIN memory' : RecordInv(memory'[i])
    <3> SUFFICES ASSUME NEW i \in DOMAIN memory' PROVE RecordInv(memory'[i])
      OBVIOUS
    <3>1. CASE i \in 1..Len(memory)
      BY <3>1, <2>3
    <3>2. CASE i = Len(memory) + 1
      BY <3>2, <2>3
    <3> QED BY <3>1, <3>2, <2>3, <2>5
  <2> QED BY <1>5, <2>2, <2>4, <2>6
<1> QED BY <1>4, <1>6, <1>7

\* The record of a verdict reached now is well typed and satisfies its
\* invariant, provided no historical context was used and the verdict agrees
\* with the rules.
LEMMA RecordOfInv ==
    ASSUME TypeOK, NEW j \in Jobs, MatchInv(j), match[j].text # 0,
           NEW assisted \in BOOLEAN, ~assisted,
           NEW status \in Statuses, NEW how \in {"rule", "llm"},
           how = "rule" => status = RuleFor(j),
           how = "llm" => RuleFor(j) \notin Verdicts
    PROVE  RecordOf(j, status, how, assisted) \in Records /\ RecordInv(RecordOf(j, status, how, assisted))
<1>1. /\ match[j].citation \in Citations /\ match[j].text \in Versions
      /\ match[j].effective \in 0..MaxVersion /\ match[j].specific \in BOOLEAN
      /\ ClauseOf[j] \in Clauses
  <2>1. match[j] \in Matches
    BY DEF TypeOK
  <2> QED BY <2>1, ConstantsAssumption DEF ConstantsAssumption, TypeOK, Matches, MatchInv, Versions
<1>2. RecordOf(j, status, how, assisted) \in Records
  BY <1>1 DEF RecordOf, Records, InApi
<1>3. RuleOn(RecordOf(j, status, how, assisted)) = RuleFor(j)
  BY DEF RecordOf, RuleOn, RuleFor
<1>4. /\ RecordOf(j, status, how, assisted).assisted = assisted
      /\ RecordOf(j, status, how, assisted).specific = match[j].specific
      /\ RecordOf(j, status, how, assisted).basis = match[j].text
      /\ RecordOf(j, status, how, assisted).effective = match[j].effective
      /\ RecordOf(j, status, how, assisted).status = status
      /\ RecordOf(j, status, how, assisted).via = how
      /\ RecordOf(j, status, how, assisted).scoped = ~InApi(j)
  BY DEF RecordOf
<1>5. RecordInv(RecordOf(j, status, how, assisted))
  BY <1>3, <1>4 DEF RecordInv, MatchInv
<1> QED BY <1>2, <1>5

\* A step on one job preserves the invariant if what it does to that job, to
\* the memory and to the semaphore does.
LEMMA JobStep ==
    ASSUME IInv, NEW j \in Jobs, TypeOK', PlacesAddUp',
           phase' = phase,
           \A k \in Jobs \ {j} : match'[k] = match[k] /\ pc'[k] = pc[k] /\ result'[k] = result[k],
           Range(memory) \subseteq Range(memory'),
           \A i \in DOMAIN memory' : RecordInv(memory'[i]),
           MatchInv(j)', ResultInv(j)',
           shown' = shown \/ \A k \in Jobs : ShownInv(k)'
    PROVE  IInv'
<1>1. ASSUME NEW k \in Jobs PROVE MatchInv(k)' /\ ResultInv(k)'
  <2>1. CASE k = j
    BY <2>1
  <2>2. CASE k # j
    <3>1. MatchInv(k) /\ ResultInv(k)
      BY DEF IInv
    <3>2. match'[k] = match[k] /\ pc'[k] = pc[k] /\ result'[k] = result[k]
      BY <2>2
    <3> QED BY <3>1, <3>2, OtherJob
  <2> QED BY <2>1, <2>2
<1>2. \A k \in Jobs : ShownInv(k)'
  BY ShownKept
<1> QED BY <1>1, <1>2 DEF IInv

-----------------------------------------------------------------------------
(* Retrieval *)

\* pc' of a retrieving job changes within the retrieval: the places are as before.
LEMMA PlacesWithin ==
    ASSUME TypeOK, PlacesAddUp, NEW j \in Jobs, permits' = permits,
           \A k \in Jobs : pc'[k] \in {"search", "text", "history", "versioned"}
                       <=> pc[k] \in {"search", "text", "history", "versioned"}
    PROVE  PlacesAddUp'
<1> SUFFICES ASSUME NEW r \in Runs
             PROVE  permits'[r] + Cardinality(Retrieving(r)') = Permits
  BY DEF PlacesAddUp
<1>1. Retrieving(r)' = Retrieving(r)
  BY RetrievingByPc DEF JobsOf
<1> QED BY <1>1, SamePlaces

LEMMA AcquireInv == ASSUME IInv, NEW j \in Jobs, Acquire(j) PROVE IInv'
<1> USE ConstantsAssumption DEF ConstantsAssumption
<1>0. TypeOK /\ PlacesAddUp /\ MatchInv(j) /\ ResultInv(j)
  BY DEF IInv
<1>1. permits' \in [Runs -> 0..Permits] /\ TypeOK'
  BY <1>0 DEF Acquire, TypeOK
<1>2. PlacesAddUp'
  BY <1>0, PlacesAcquire
<1>3. MatchInv(j)' /\ ResultInv(j)'
  BY <1>0 DEF Acquire, MatchInv, ResultInv, TypeOK, RuleFor, Verified, NoMatch
<1>4. \A i \in DOMAIN memory' : RecordInv(memory'[i])
  BY DEF Acquire, IInv
<1> QED BY <1>1, <1>2, <1>3, <1>4, JobStep DEF Acquire, TypeOK

LEMMA SearchInv ==
    ASSUME IInv, NEW j \in Jobs, NEW c \in Citations, Search(j, c) PROVE IInv'
<1> USE ConstantsAssumption DEF ConstantsAssumption
<1>0. TypeOK /\ PlacesAddUp /\ MatchInv(j) /\ ResultInv(j)
  BY DEF IInv
<1>1. TypeOK'
  <2>1. match[j] \in Matches
    BY <1>0 DEF TypeOK
  <2>2. [match[j] EXCEPT !.citation = c] \in Matches
    BY <2>1 DEF Matches
  <2>3. match' = [match EXCEPT ![j].citation = c]
    BY DEF Search
  <2>4. match' \in [Jobs -> Matches]
    BY <1>0, <2>2, <2>3 DEF TypeOK
  <2>5. pc' = [pc EXCEPT ![j] = "text"]
        /\ UNCHANGED <<version, asOf, phase, permits, shown, result, memory, known>>
    BY DEF Search
  <2> QED BY <1>0, <2>4, <2>5 DEF TypeOK
<1>2. PlacesAddUp'
  BY <1>0, PlacesWithin DEF Search, TypeOK
<1>3. MatchInv(j)' /\ ResultInv(j)'
  <2>1. /\ match'[j].citation = c /\ match'[j].text = 0 /\ match'[j].specific = FALSE
        /\ pc'[j] = "text" /\ result'[j] = Pending /\ ~InApi(j)
    BY <1>0 DEF Search, MatchInv, ResultInv, TypeOK, NoMatch
  <2>2. phase'[RunOf[j]] # "new"
    BY <1>0 DEF Search, ResultInv
  <2>3. MatchInv(j)'
    BY <2>1 DEF MatchInv, InApi
  <2>4. Pending.via = "none"
    BY DEF Pending
  <2>5. ResultInv(j)'
    BY <2>1, <2>2, <2>4 DEF ResultInv, Verified
  <2> QED BY <2>3, <2>5
<1>4. \A i \in DOMAIN memory' : RecordInv(memory'[i])
  BY DEF Search, IInv
<1> QED BY <1>1, <1>2, <1>3, <1>4, JobStep DEF Search, TypeOK

\* A job without a result has nothing to agree with.
LEMMA PendingInv ==
    ASSUME NEW j \in Jobs, pc'[j] # "done", result'[j] = Pending,
           phase'[RunOf[j]] = "new" => pc'[j] = "start"
    PROVE  ResultInv(j)'
<1>1. Pending.via = "none"
  BY DEF Pending
<1> QED BY <1>1 DEF ResultInv, Verified

LEMMA FetchTextInv == ASSUME IInv, NEW j \in Jobs, FetchText(j) PROVE IInv'
<1> USE ConstantsAssumption DEF ConstantsAssumption
<1> DEFINE date == IF asOf[RunOf[j]] = 0 THEN version ELSE asOf[RunOf[j]]
<1>0. TypeOK /\ PlacesAddUp /\ MatchInv(j) /\ ResultInv(j)
  BY DEF IInv
<1>1. date \in Versions
  BY <1>0 DEF TypeOK, Versions
<1>2. /\ asOf' = [asOf EXCEPT ![RunOf[j]] = date]
      /\ match' = [match EXCEPT ![j].text = date]
      /\ pc' = [pc EXCEPT ![j] = "history"] /\ pc[j] = "text"
      /\ UNCHANGED <<version, phase, permits, shown, result, memory, known>>
  BY DEF FetchText
<1> HIDE DEF date
<1>3. match[j] \in Matches /\ match'[j] = [match[j] EXCEPT !.text = date]
  BY <1>0, <1>2 DEF TypeOK
<1>4. TypeOK'
  <2>1. [match[j] EXCEPT !.text = date] \in Matches
    BY <1>1, <1>3 DEF Matches, Versions
  <2>2. match' \in [Jobs -> Matches]
    BY <1>0, <1>2, <2>1 DEF TypeOK
  <2>3. asOf' \in [Runs -> 0..MaxVersion]
    BY <1>0, <1>1, <1>2 DEF TypeOK, Versions
  <2> QED BY <1>0, <1>2, <2>2, <2>3 DEF TypeOK
<1>5. PlacesAddUp'
  BY <1>0, <1>2, PlacesWithin DEF TypeOK
<1>6. MatchInv(j)'
  <2>1. /\ match'[j].citation = match[j].citation /\ match'[j].text = date
        /\ match'[j].specific = match[j].specific
    BY <1>3 DEF Matches
  <2>2. match[j].citation # NoCitation /\ ~match[j].specific /\ pc'[j] = "history" /\ ~InApi(j)
    BY <1>0, <1>2 DEF MatchInv, TypeOK
  <2> QED BY <2>1, <2>2 DEF MatchInv, InApi
<1>7. ResultInv(j)'
  BY <1>0, <1>2, PendingInv DEF ResultInv, TypeOK
<1>8. \A i \in DOMAIN memory' : RecordInv(memory'[i])
  BY <1>2 DEF IInv
<1> QED BY <1>0, <1>2, <1>4, <1>5, <1>6, <1>7, <1>8, JobStep DEF TypeOK

LEMMA FetchHistoryInv == ASSUME IInv, NEW j \in Jobs, FetchHistory(j) PROVE IInv'
<1> USE ConstantsAssumption DEF ConstantsAssumption
<1>0. TypeOK /\ PlacesAddUp /\ MatchInv(j) /\ ResultInv(j)
  BY DEF IInv
<1>1. match[j] \in Matches /\ match'[j] = [match[j] EXCEPT !.effective = version]
  BY <1>0 DEF FetchHistory, TypeOK
<1>2. TypeOK'
  <2>0. version \in 0..MaxVersion
    BY <1>0 DEF TypeOK, Versions
  <2>1. [match[j] EXCEPT !.effective = version] \in Matches
    BY <1>1, <2>0 DEF Matches
  <2>2. match' \in [Jobs -> Matches]
    BY <1>0, <2>1 DEF FetchHistory, TypeOK
  <2> QED BY <1>0, <2>2 DEF FetchHistory, TypeOK
<1>3. PlacesAddUp'
  BY <1>0, PlacesWithin DEF FetchHistory, TypeOK
<1>4. MatchInv(j)'
  <2>1. /\ match'[j].citation = match[j].citation /\ match'[j].text = match[j].text
        /\ match'[j].specific = match[j].specific /\ match'[j].effective = version
    BY <1>1 DEF Matches
  <2>2. match[j].citation # NoCitation /\ ~match[j].specific /\ pc'[j] = "versioned" /\ ~InApi(j)
    BY <1>0 DEF FetchHistory, MatchInv, TypeOK
  <2>3. version # 0
    BY <1>0 DEF TypeOK, Versions
  <2> QED BY <2>1, <2>2, <2>3 DEF MatchInv, InApi
<1>5. ResultInv(j)'
  BY <1>0, PendingInv DEF FetchHistory, ResultInv, TypeOK
<1>6. \A i \in DOMAIN memory' : RecordInv(memory'[i])
  BY DEF FetchHistory, IInv
<1> QED BY <1>2, <1>3, <1>4, <1>5, <1>6, JobStep DEF FetchHistory, TypeOK

\* The end of a retrieval, with a match that is empty, or as it was, or the
\* text of the effective version.
LEMMA RetrievedInv ==
    ASSUME IInv, NEW j \in Jobs, NEW m \in Matches, Retrieved(j, m),
           pc[j] \in {"search", "text", "history", "versioned"},
           UNCHANGED <<version, asOf, phase, shown, result, memory, known>>,
           m.specific => m.text = m.effective /\ m.text # 0,
           m.text # 0 => m.citation # NoCitation
    PROVE  IInv'
<1> USE ConstantsAssumption DEF ConstantsAssumption
<1>0. TypeOK /\ PlacesAddUp /\ MatchInv(j) /\ ResultInv(j)
  BY DEF IInv
<1>1. PlacesAddUp' /\ permits' \in [Runs -> 0..Permits]
  BY <1>0, PlacesRetrieved
<1>2. match'[j] = m /\ pc'[j] = "matched" /\ ~InApi(j)
  BY <1>0 DEF Retrieved, TypeOK, MatchInv
<1>3. TypeOK'
  BY <1>0, <1>1 DEF Retrieved, TypeOK
<1>4. MatchInv(j)'
  BY <1>2 DEF MatchInv, InApi
<1>5. ResultInv(j)'
  BY <1>0, <1>2, PendingInv DEF ResultInv
<1>6. \A i \in DOMAIN memory' : RecordInv(memory'[i])
  BY DEF IInv
<1> QED BY <1>0, <1>1, <1>3, <1>4, <1>5, <1>6, JobStep DEF Retrieved, TypeOK

LEMMA EndOfRetrievalInv ==
    ASSUME IInv, NEW j \in Jobs,
           RetrievalFails(j) \/ HistoryFails(j) \/ FetchVersioned(j) \/ VersionedFails(j)
    PROVE  IInv'
<1> USE ConstantsAssumption DEF ConstantsAssumption
<1>0. TypeOK /\ MatchInv(j) /\ match[j] \in Matches
  BY DEF IInv, TypeOK
<1>1. CASE RetrievalFails(j)
  <2>1. NoMatch \in Matches
    BY DEF NoMatch, Matches
  <2> QED BY <1>1, <2>1, RetrievedInv DEF RetrievalFails, NoMatch
<1>2. CASE HistoryFails(j)
  BY <1>0, <1>2, RetrievedInv DEF HistoryFails, MatchInv
<1>3. CASE FetchVersioned(j)
  <2> DEFINE m == [match[j] EXCEPT !.text = match[j].effective, !.specific = TRUE]
  <2>1. m \in Matches /\ m.text = match[j].effective /\ m.effective = match[j].effective
        /\ m.citation = match[j].citation
    BY <1>0 DEF Matches
  <2>2. Retrieved(j, m) /\ pc[j] = "versioned"
        /\ UNCHANGED <<version, asOf, phase, shown, result, memory, known>>
    BY <1>3 DEF FetchVersioned
  <2>3. m.text # 0 /\ m.citation # NoCitation
    BY <1>0, <2>1, <2>2 DEF MatchInv
  <2> HIDE DEF m
  <2> QED BY <2>1, <2>2, <2>3, RetrievedInv
<1>4. CASE VersionedFails(j)
  BY <1>0, <1>4, RetrievedInv DEF VersionedFails, MatchInv
<1> QED BY <1>1, <1>2, <1>3, <1>4

-----------------------------------------------------------------------------
(* Steps of the regulation and of a run *)

\* A step that touches no job and no memory preserves the invariant.
LEMMA RunStep ==
    ASSUME IInv, TypeOK',
           UNCHANGED <<permits, pc, match, shown, result, memory, known>>,
           \A r \in Runs :
              /\ phase'[r] = "new" => phase[r] = "new"
              /\ phase'[r] = "retrieving" => phase[r] = "retrieving" \/ r \notin ApiRuns
    PROVE  IInv'
<1> USE ConstantsAssumption DEF ConstantsAssumption
<1>1. PlacesAddUp'
  <2> SUFFICES ASSUME NEW r \in Runs
               PROVE  permits'[r] + Cardinality(Retrieving(r)') = Permits
    BY DEF PlacesAddUp
  <2>1. Retrieving(r)' = Retrieving(r)
    BY RetrievingByPc
  <2> QED BY <2>1, SamePlaces DEF IInv
<1>2. ASSUME NEW k \in Jobs PROVE MatchInv(k)' /\ ResultInv(k)'
  <2>1. MatchInv(k) /\ ResultInv(k) /\ RunOf[k] \in Runs
    BY DEF IInv
  <2> QED BY <2>1, OtherJob DEF InApi
<1>3. \A i \in DOMAIN memory' : RecordInv(memory'[i])
  BY DEF IInv
<1>4. \A k \in Jobs : ShownInv(k)'
  BY ShownKept
<1> QED BY <1>1, <1>2, <1>3, <1>4 DEF IInv

LEMMA QuietStepsInv ==
    ASSUME IInv,
           \/ Amend
           \/ \E r \in Runs : Connect(r) \/ ConnectFails(r) \/ StartEvaluation(r) \/ EndRun(r)
    PROVE  IInv'
<1> USE ConstantsAssumption DEF ConstantsAssumption
<1>0. TypeOK
  BY DEF IInv
<1>1. CASE Amend
  <2>1. version' \in Versions
    BY <1>0, <1>1 DEF Amend, TypeOK, Versions
  <2> QED BY <1>0, <1>1, <2>1, RunStep DEF Amend, TypeOK
<1>2. ASSUME NEW r \in Runs, Connect(r) \/ ConnectFails(r) \/ StartEvaluation(r) \/ EndRun(r)
      PROVE  IInv'
  <2>1. /\ UNCHANGED <<version, asOf, permits, pc, match, shown, result, memory, known>>
        /\ \E ph \in {"retrieving", "raised", "evaluating", "done"} :
              /\ phase' = [phase EXCEPT ![r] = ph]
              /\ ph = "retrieving" => r \notin ApiRuns
    BY <1>2 DEF Connect, ConnectFails, StartEvaluation, EndRun
  <2>2. TypeOK' /\ \A r2 \in Runs :
            /\ phase'[r2] = "new" => phase[r2] = "new"
            /\ phase'[r2] = "retrieving" => phase[r2] = "retrieving" \/ r2 \notin ApiRuns
    BY <1>0, <2>1 DEF TypeOK
  <2> QED BY <2>1, <2>2, RunStep
<1> QED BY <1>1, <1>2

LEMMA ApiRequestInv == ASSUME IInv, NEW r \in Runs, ApiRequest(r) PROVE IInv'
<1> USE ConstantsAssumption DEF ConstantsAssumption
<1> DEFINE Supplied == {NoMatch} \cup [citation : Citations, text : 1..version,
                                       effective : {0}, specific : {FALSE}]
<1>0. TypeOK
  BY DEF IInv
<1>1. PICK m \in [JobsOf(r) -> Supplied] :
          match' = [j \in Jobs |-> IF j \in JobsOf(r) THEN m[j] ELSE match[j]]
  BY DEF ApiRequest
<1>2. \A x \in Supplied : /\ x \in Matches /\ x.specific = FALSE /\ x.effective = 0
                          /\ x.text # 0 => x.citation # NoCitation
  <2>1. /\ NoMatch \in Matches /\ NoMatch.specific = FALSE /\ NoMatch.text = 0
        /\ NoMatch.effective = 0
    BY DEF NoMatch, Matches
  <2>2. version \in Nat /\ 1..version \subseteq 0..MaxVersion
    BY <1>0 DEF TypeOK, Versions
  <2>3. ASSUME NEW x \in [citation : Citations, text : 1..version,
                          effective : {0}, specific : {FALSE}]
        PROVE  x \in Matches /\ x.specific = FALSE /\ x.effective = 0 /\ x.citation # NoCitation
    <3>1. {0} \subseteq 0..MaxVersion /\ {FALSE} \subseteq BOOLEAN
      OBVIOUS
    <3>2. x.specific = FALSE /\ x.effective = 0 /\ x.citation \in Citations
      BY <2>3
    <3>3. [citation : Citations, text : 1..version, effective : {0}, specific : {FALSE}]
             \subseteq Matches
      BY <2>2, <3>1 DEF Matches
    <3> QED BY <2>3, <3>2, <3>3
  <2> QED BY <2>1, <2>3
<1> HIDE DEF Supplied
<1>3. \A j \in JobsOf(r) : m[j] \in Supplied /\ match'[j] = m[j] /\ pc'[j] = "matched"
                           /\ pc[j] = "start" /\ result[j] = Pending
  <2>1. \A j \in JobsOf(r) : j \in Jobs /\ RunOf[j] = r
    BY DEF JobsOf
  <2>2. \A j \in JobsOf(r) : pc[j] = "start" /\ result[j] = Pending
    BY <2>1 DEF ApiRequest, IInv, ResultInv
  <2> QED BY <1>1, <2>1, <2>2 DEF ApiRequest
<1>4. \A j \in Jobs \ JobsOf(r) : match'[j] = match[j] /\ pc'[j] = pc[j]
  BY <1>1 DEF ApiRequest
<1>5. TypeOK'
  <2>1. match' \in [Jobs -> Matches]
    BY <1>0, <1>1, <1>2 DEF TypeOK
  <2>2. pc' \in [Jobs -> {"start", "search", "text", "history", "versioned",
                          "matched", "llm", "done"}]
    BY <1>0 DEF ApiRequest, TypeOK
  <2> QED BY <1>0, <2>1, <2>2 DEF ApiRequest, TypeOK
<1>6. PlacesAddUp'
  <2>1. \A k \in Jobs : pc'[k] \in {"search", "text", "history", "versioned"}
                    <=> pc[k] \in {"search", "text", "history", "versioned"}
    BY <1>3, <1>4
  <2> SUFFICES ASSUME NEW q \in Runs
               PROVE  permits'[q] + Cardinality(Retrieving(q)') = Permits
    BY DEF PlacesAddUp
  <2>2. Retrieving(q)' = Retrieving(q)
    BY <2>1, RetrievingByPc DEF JobsOf
  <2> QED BY <2>2, SamePlaces DEF IInv, ApiRequest
<1>7. ASSUME NEW k \in Jobs PROVE MatchInv(k)' /\ ResultInv(k)'
  <2>1. CASE k \in JobsOf(r)
    <3>2. phase'[RunOf[k]] = "evaluating"
      BY <1>0, <2>1 DEF ApiRequest, TypeOK, JobsOf
    <3>1. MatchInv(k)'
      BY <1>2, <1>3, <2>1, <3>2 DEF MatchInv
    <3>3. ResultInv(k)'
      BY <1>3, <2>1, <3>2, PendingInv DEF ApiRequest
    <3> QED BY <3>1, <3>3
  <2>2. CASE k \notin JobsOf(r)
    <3>1. MatchInv(k) /\ ResultInv(k)
      BY DEF IInv
    <3>2. /\ phase'[RunOf[k]] = "new" => phase[RunOf[k]] = "new"
          /\ phase'[RunOf[k]] = "retrieving" => phase[RunOf[k]] = "retrieving"
      BY <1>0 DEF ApiRequest, TypeOK
    <3> QED BY <1>4, <2>2, <3>1, <3>2, OtherJob DEF ApiRequest
  <2> QED BY <2>1, <2>2
<1>8. \A i \in DOMAIN memory' : RecordInv(memory'[i])
  BY DEF ApiRequest, IInv
<1>9. \A k \in Jobs : ShownInv(k)'
  BY ShownKept DEF ApiRequest
<1> QED BY <1>5, <1>6, <1>7, <1>8, <1>9 DEF IInv

-----------------------------------------------------------------------------
(* Evaluation *)

\* An evaluation step moves no job into or out of its retrieval.
LEMMA PlacesEvaluate ==
    ASSUME TypeOK, PlacesAddUp, NEW j \in Jobs, NEW to \in {"llm", "done"},
           pc[j] \in {"matched", "llm"},
           pc' = [pc EXCEPT ![j] = to], permits' = permits
    PROVE  PlacesAddUp'
BY PlacesWithin DEF TypeOK

\* A job that finishes with a fitting result preserves the invariant.
LEMMA FinishInv ==
    ASSUME IInv, NEW j \in Jobs, NEW res \in Results, Finish(j, res),
           pc[j] \in {"matched", "llm"}, phase[RunOf[j]] # "new",
           UNCHANGED <<version, asOf, phase, permits, match, shown>>,
           memory' \in Seq(Records),
           known' \in [Runs -> {Unloaded} \cup SUBSET RecordIds],
           Range(memory) \subseteq Range(memory'),
           \A i \in DOMAIN memory' : RecordInv(memory'[i]),
           res.via \in {"rule", "llm", "memory"} => match[j].text # 0,
           res.via = "rule" => res.status = RuleFor(j),
           res.via = "llm" => RuleFor(j) \notin Verdicts,
           res.via = "memory" =>
              /\ res.source \in Range(memory)
              /\ res.status = res.source.status
              /\ res.source.clause = ClauseOf[j]
              /\ res.source.citation = match[j].citation
              /\ res.source.effective = match[j].effective
    PROVE  IInv'
<1>0. TypeOK /\ PlacesAddUp /\ MatchInv(j) /\ ResultInv(j)
  BY DEF IInv
<1>1. /\ result'[j] = res /\ pc'[j] = "done" /\ match'[j] = match[j]
      /\ pc' = [pc EXCEPT ![j] = "done"]
  BY <1>0 DEF Finish, TypeOK
<1>2. TypeOK'
  BY <1>0 DEF Finish, TypeOK
<1>3. PlacesAddUp'
  BY <1>0, <1>1, PlacesEvaluate
<1>4. RuleFor(j)' = RuleFor(j)
  BY <1>1 DEF RuleFor
<1>5. MatchInv(j)'
  BY <1>0, <1>1 DEF MatchInv
<1>6. ResultInv(j)'
  <2>1. result'[j].via = "memory" => res.source \in Range(memory')
    BY <1>1
  <2> QED BY <1>1, <1>4, <2>1 DEF ResultInv, Verified
<1>7. \A k \in Jobs \ {j} : match'[k] = match[k] /\ pc'[k] = pc[k] /\ result'[k] = result[k]
  BY <1>0 DEF Finish, TypeOK
<1> QED BY <1>2, <1>3, <1>5, <1>6, <1>7, JobStep

\* A job that may be evaluated, or whose LLM call is under way, has a run that
\* has started.
LEMMA RunHasStarted ==
    ASSUME IInv, NEW j \in Jobs, pc[j] \in {"matched", "llm"}
    PROVE  phase[RunOf[j]] # "new"
BY DEF IInv, ResultInv

\* A review, by whichever path.
LEMMA ReviewInv ==
    ASSUME IInv, NEW j \in Jobs, CannotJudge(j) \/ RulesRaise(j) \/ LlmRefused(j)
    PROVE  IInv'
<1>1. /\ pc[j] \in {"matched", "llm"} /\ Finish(j, Review)
      /\ UNCHANGED <<version, asOf, phase, permits, match, shown, memory, known>>
  BY DEF CannotJudge, RulesRaise, LlmRefused, MayEvaluate
<1>2. Review \in Results /\ Review.via = "review"
  BY DEF Results, Review
<1>3. TypeOK /\ \A i \in DOMAIN memory : RecordInv(memory[i])
  BY DEF IInv
<1> QED BY <1>1, <1>2, <1>3, FinishInv, RunHasStarted DEF TypeOK

LEMMA ReuseInv == ASSUME IInv, NEW j \in Jobs, Reuse(j) PROVE IInv'
<1>0. TypeOK /\ \A i \in DOMAIN memory : RecordInv(memory[i])
  BY DEF IInv
<1>1. PICK i \in Exact(j, memory) :
          Finish(j, [status |-> memory[i].status, via |-> "memory", source |-> memory[i]])
  BY DEF Reuse
<1>2. i \in DOMAIN memory /\ ExactReuseAllowed(memory[i], j)
  BY <1>1 DEF Exact
<1>3. memory[i] \in Records /\ memory[i] \in Range(memory)
  BY <1>0, <1>2 DEF TypeOK, Range
<1> DEFINE res == [status |-> memory[i].status, via |-> "memory", source |-> memory[i]]
<1>4. /\ res \in Results /\ res.via = "memory" /\ res.source = memory[i]
      /\ res.status = memory[i].status
  BY <1>2, <1>3 DEF Results, ExactReuseAllowed
<1>5. /\ memory[i].clause = ClauseOf[j] /\ memory[i].citation = match[j].citation
      /\ memory[i].effective = match[j].effective
  BY <1>2 DEF ExactReuseAllowed
<1>6. /\ pc[j] = "matched" /\ match[j].text # 0
      /\ UNCHANGED <<version, asOf, phase, permits, match, shown, memory, known>>
  BY DEF Reuse, MayEvaluate, Usable
<1> HIDE DEF res
<1>7. Finish(j, res)
  BY <1>1 DEF res
<1> QED BY <1>0, <1>3, <1>4, <1>5, <1>6, <1>7, FinishInv, RunHasStarted DEF TypeOK

LEMMA RuleInv == ASSUME IInv, NEW j \in Jobs, Rule(j) PROVE IInv'
<1>0. TypeOK /\ MatchInv(j) /\ \A i \in DOMAIN memory : RecordInv(memory[i])
  BY DEF IInv
<1> DEFINE status == RuleFor(j)
           res == [status |-> status, via |-> "rule"]
           rec == RecordOf(j, status, "rule", FALSE)
<1>1. /\ pc[j] = "matched" /\ match[j].text # 0 /\ status \in Verdicts
      /\ Finish(j, res) /\ Index(j, rec)
      /\ UNCHANGED <<version, asOf, phase, permits, match, shown>>
  BY DEF Rule, MayEvaluate, Usable
<1>2. status \in Statuses
  BY <1>1 DEF Statuses
<1>3. rec \in Records /\ RecordInv(rec)
  BY <1>0, <1>1, <1>2, RecordOfInv
<1>4. /\ memory' \in Seq(Records)
      /\ known' \in [Runs -> {Unloaded} \cup SUBSET RecordIds]
      /\ Range(memory) \subseteq Range(memory')
      /\ \A i \in DOMAIN memory' : RecordInv(memory'[i])
  <2> HIDE DEF rec
  <2> QED BY <1>0, <1>1, <1>3, IndexEffect
<1>5. res \in Results /\ res.via = "rule" /\ res.status = status
  BY <1>2 DEF Results
<1> HIDE DEF res
<1> QED BY <1>1, <1>4, <1>5, FinishInv, RunHasStarted

LEMMA LlmAcceptedInv ==
    ASSUME IInv, NEW j \in Jobs, NEW status \in Statuses, LlmAccepted(j, status)
    PROVE  IInv'
<1>0. TypeOK /\ MatchInv(j) /\ \A i \in DOMAIN memory : RecordInv(memory[i])
  BY DEF IInv
<1> DEFINE res == [status |-> status, via |-> "llm"]
           rec == RecordOf(j, status, "llm", FALSE)
<1>1. /\ pc[j] = "llm" /\ Finish(j, res)
      /\ IF shown[j] # {} THEN UNCHANGED <<memory, known>> ELSE Index(j, rec)
      /\ UNCHANGED <<version, asOf, phase, permits, match, shown>>
  BY DEF LlmAccepted
<1>2. match[j].text # 0 /\ RuleFor(j) \notin Verdicts
  BY <1>0, <1>1 DEF MatchInv
<1>3. /\ memory' \in Seq(Records)
      /\ known' \in [Runs -> {Unloaded} \cup SUBSET RecordIds]
      /\ Range(memory) \subseteq Range(memory')
      /\ \A i \in DOMAIN memory' : RecordInv(memory'[i])
  <2>1. CASE shown[j] # {}
    BY <1>0, <1>1, <2>1 DEF TypeOK
  <2>2. CASE shown[j] = {}
    <3>1. rec \in Records /\ RecordInv(rec)
      BY <1>0, <1>2, RecordOfInv
    <3>2. Index(j, rec)
      BY <1>1, <2>2
    <3> HIDE DEF rec
    <3> QED BY <1>0, <3>1, <3>2, IndexEffect
  <2> QED BY <2>1, <2>2
<1>4. res \in Results /\ res.via = "llm"
  BY DEF Results
<1> HIDE DEF res
<1> QED BY <1>1, <1>2, <1>3, <1>4, FinishInv, RunHasStarted

LEMMA AskLlmInv == ASSUME IInv, NEW j \in Jobs, AskLlm(j) PROVE IInv'
<1>0. TypeOK /\ PlacesAddUp /\ MatchInv(j) /\ ResultInv(j)
  BY DEF IInv
<1>1. PICK readable \in BOOLEAN :
          shown' = [shown EXCEPT ![j] = {memory[i] : i \in Near(j, Seen(readable))}]
  BY DEF AskLlm
<1> DEFINE precedents == {memory[i] : i \in Near(j, Seen(readable))}
<1>a. \A rec \in precedents : /\ rec \in Records /\ rec \in Range(memory)
                               /\ rec.clause # ClauseOf[j]
  <2> SUFFICES ASSUME NEW i \in Near(j, Seen(readable))
               PROVE  /\ memory[i] \in Records /\ memory[i] \in Range(memory)
                      /\ memory[i].clause # ClauseOf[j]
    OBVIOUS
  <2>1. readable /\ i \in DOMAIN memory /\ memory[i].clause # ClauseOf[j]
    BY DEF Near, Seen
  <2> QED BY <1>0, <2>1 DEF TypeOK, Range
<1> HIDE DEF precedents
<1>b. /\ shown' = [shown EXCEPT ![j] = precedents]
      /\ shown' \in [Jobs -> SUBSET Records]
  BY <1>0, <1>1, <1>a DEF TypeOK, precedents
<1>2. /\ pc[j] = "matched" /\ pc' = [pc EXCEPT ![j] = "llm"] /\ match[j].text # 0
      /\ RuleFor(j) \notin Verdicts
      /\ UNCHANGED <<version, asOf, phase, permits, match, result, memory, known>>
  BY DEF AskLlm, MayEvaluate, Usable, Verdicts
<1>3. TypeOK'
  BY <1>0, <1>2, <1>b DEF TypeOK
<1>4. PlacesAddUp'
  BY <1>0, <1>2, PlacesEvaluate
<1>5. pc'[j] = "llm" /\ match'[j] = match[j] /\ RuleFor(j)' = RuleFor(j)
  BY <1>0, <1>2 DEF TypeOK, RuleFor
<1>6. MatchInv(j)'
  BY <1>0, <1>2, <1>5 DEF MatchInv
<1>7. ResultInv(j)'
  BY <1>0, <1>2, <1>5, PendingInv DEF ResultInv
<1>8. \A i \in DOMAIN memory' : RecordInv(memory'[i])
  BY <1>2 DEF IInv
<1>9. \A k \in Jobs : ShownInv(k)'
  <2> SUFFICES ASSUME NEW k \in Jobs, NEW rec \in shown'[k]
               PROVE  rec \in Range(memory) /\ rec.clause # ClauseOf[k]
    BY <1>2 DEF ShownInv
  <2>1. CASE k = j
    BY <1>0, <1>a, <1>b, <2>1 DEF TypeOK
  <2>2. CASE k # j
    BY <1>0, <1>b, <2>2 DEF TypeOK, IInv, ShownInv
  <2> QED BY <2>1, <2>2
<1> QED BY <1>0, <1>2, <1>3, <1>4, <1>6, <1>7, <1>8, <1>9, JobStep DEF TypeOK

-----------------------------------------------------------------------------
(* The theorems *)

\* Every step preserves the invariant.
LEMMA NextInv == IInv /\ [Next]_vars => IInv'
<1> SUFFICES ASSUME IInv, [Next]_vars PROVE IInv'
  OBVIOUS
<1>1. CASE Amend \/ \E r \in Runs : Advance(r)
  BY <1>1, QuietStepsInv, ApiRequestInv DEF Advance
<1>2. ASSUME NEW j \in Jobs, Retrieve(j) PROVE IInv'
  BY <1>2, AcquireInv, SearchInv, FetchTextInv, FetchHistoryInv, EndOfRetrievalInv DEF Retrieve
<1>3. ASSUME NEW j \in Jobs, Evaluate(j) PROVE IInv'
  <2>1. CASE CannotJudge(j) \/ RulesRaise(j) \/ LlmRefused(j)
    BY <2>1, ReviewInv
  <2>2. CASE Reuse(j)
    BY <2>2, ReuseInv
  <2>3. CASE Rule(j)
    BY <2>3, RuleInv
  <2>4. CASE AskLlm(j)
    BY <2>4, AskLlmInv
  <2>5. CASE \E status \in Statuses : LlmAccepted(j, status)
    BY <2>5, LlmAcceptedInv
  <2> QED BY <1>3, <2>1, <2>2, <2>3, <2>4, <2>5 DEF Evaluate
<1>4. CASE UNCHANGED vars
  BY <1>4, RunStep DEF vars, IInv, TypeOK
<1> QED BY <1>1, <1>2, <1>3, <1>4 DEF Next

\* The invariant holds throughout, whatever the rules, the amendments, the
\* failures and the interleaving.
THEOREM Invariance == Spec => []IInv
BY InitInv, NextInv, PTL DEF Spec

\* The variables keep their types.
THEOREM TypeCorrect == Spec => []TypeOK
<1>1. IInv => TypeOK
  BY DEF IInv
<1> QED BY <1>1, Invariance, PTL

\* Every place of the retrieval semaphore is free or held by one retrieval.
THEOREM SemaphoreIsSound == Spec => []PlacesAddUp
<1>1. IInv => PlacesAddUp
  BY DEF IInv
<1> QED BY <1>1, Invariance, PTL

\* A record on file satisfies the record invariant.
LEMMA OnFile ==
    ASSUME IInv, NEW rec \in Range(memory)
    PROVE  rec \in Records /\ RecordInv(rec)
<1>1. PICK i \in DOMAIN memory : rec = memory[i]
  BY DEF Range
<1> QED BY <1>1 DEF IInv, TypeOK

\* What an LLM is shown is on file, of another clause, rests on the regulation
\* alone and goes against no rule.
THEOREM PrecedentsGrounded == Spec => []PrecedentsAreGrounded
<1>1. ASSUME IInv PROVE PrecedentsAreGrounded
  <2> SUFFICES ASSUME NEW j \in Jobs, NEW rec \in shown[j]
               PROVE  /\ rec \in Range(memory)
                      /\ rec.clause # ClauseOf[j]
                      /\ ~rec.assisted
                      /\ RuleOn(rec) \in Verdicts => rec.status = RuleOn(rec)
    BY DEF PrecedentsAreGrounded
  <2>1. rec \in Range(memory) /\ rec.clause # ClauseOf[j]
    BY <1>1 DEF IInv, ShownInv
  <2>2. rec \in Records /\ RecordInv(rec)
    BY <1>1, <2>1, OnFile
  <2> QED BY <2>1, <2>2 DEF Records, RecordInv
<1> QED BY <1>1, Invariance, PTL

\* What a reused verdict rests on is still on file, and is a record that
\* satisfies the record invariant.
LEMMA SourceOnFile ==
    ASSUME IInv, NEW j \in Jobs, result[j].via = "memory"
    PROVE  result[j].source \in Range(memory) /\ RecordInv(result[j].source)
<1>1. result[j].source \in Range(memory)
  BY DEF IInv, ResultInv
<1> QED BY <1>1, OnFile

\* A reused verdict is grounded in an independent record of the same clause and
\* regulation, and of the same text when both are version-specific.
THEOREM ReuseGrounded == Spec => []ReuseIsGrounded
<1>1. ASSUME IInv PROVE ReuseIsGrounded
  <2> SUFFICES ASSUME NEW j \in Jobs, result[j].via = "memory"
               PROVE  LET rec == result[j].source
                      IN  /\ rec \in Range(memory)
                          /\ rec.clause = ClauseOf[j]
                          /\ rec.citation = match[j].citation
                          /\ ~rec.assisted
                          /\ match[j].specific /\ rec.specific => rec.basis = match[j].text
    BY DEF ReuseIsGrounded
  <2>1. MatchInv(j) /\ ResultInv(j)
    BY <1>1 DEF IInv
  <2>2. result[j].source \in Range(memory) /\ RecordInv(result[j].source)
    BY <1>1, SourceOnFile
  <2> QED BY <2>1, <2>2 DEF MatchInv, ResultInv, RecordInv
<1> QED BY <1>1, Invariance, PTL

\* No verdict goes against the current rules on the current text, but for a
\* reused one whose text, or whose source's, is not version-specific.
THEOREM RulesPrevail == Spec => []RulesPrevailWhenSpecific
<1>1. ASSUME IInv PROVE RulesPrevailWhenSpecific
  <2> SUFFICES ASSUME NEW j \in Jobs, Verified(j), RuleFor(j) \in Verdicts,
                      result[j].via = "memory" =>
                         match[j].specific /\ result[j].source.specific
               PROVE  result[j].status = RuleFor(j)
    BY DEF RulesPrevailWhenSpecific, RulesPrevailFor
  <2>1. MatchInv(j) /\ ResultInv(j)
    BY <1>1 DEF IInv
  <2>2. CASE result[j].via \in {"rule", "llm"}
    BY <2>1, <2>2 DEF ResultInv
  <2>3. CASE result[j].via = "memory"
    <3> DEFINE rec == result[j].source
    <3>1. RecordInv(rec)
      BY <1>1, <2>3, SourceOnFile
    <3>2. rec.basis = match[j].text
      BY <2>1, <2>3, <3>1 DEF MatchInv, ResultInv, RecordInv
    <3>4. rec \in Records
      BY <1>1, <2>3, SourceOnFile, OnFile
    <3>6. rec.scoped /\ ~InApi(j)
      BY <2>1, <2>3, <3>1, <3>4 DEF MatchInv, ResultInv, RecordInv, Records
    <3>3. RuleOn(rec) = RuleFor(j)
      BY <2>1, <2>3, <3>2, <3>6 DEF ResultInv, RuleOn, RuleFor
    <3>5. rec.via \in {"rule", "llm"}
      BY <3>4 DEF Records
    <3> QED BY <2>1, <2>3, <3>1, <3>3, <3>5 DEF RecordInv, ResultInv
  <2> QED BY <2>2, <2>3 DEF Verified
<1> QED BY <1>1, Invariance, PTL
=============================================================================
