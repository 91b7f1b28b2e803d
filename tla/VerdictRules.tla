----------------------------- MODULE VerdictRules -----------------------------
(***************************************************************************)
(* How one clause gets its verdict from one regulation text: the gate of   *)
(* agent/security.py, the rules of agent/deterministic_rules.py, the LLM   *)
(* when they decide nothing, what agent/compliance_agent.py makes of its   *)
(* reply, and the cross-check of agent/verification_agent.py, as           *)
(* _evaluate_match (pipeline) and _evaluate_clause (API) put them together.*)
(*                                                                         *)
(* A text is the set of the words and phrases in it: no rule looks at      *)
(* order or number. The LLM may reply anything at all. Titles and lengths, *)
(* which the gate looks at too, are in range.                              *)
(***************************************************************************)
EXTENDS Naturals, FiniteSets

CONSTANTS
    Topics,     \* ordinary words
    Numbers,    \* "words" that begin with a digit, such as a section number
    Within,     \* Within[n]: the scope markers that are substrings of number n
    Named,      \* Named[n]: the section numbers that \bsection\b finds in n
    Malformed,  \* parts that are no valid regular expression
    Scopes,     \* part, section and last component of the section, or None
    ClauseTexts, RegulationTexts,
    None

Reserved == {"shall", "must", "will be", "agrees to", "you must", "always answer",
             "prohibited", "forbidden", "without exception", "may not"}
Words == Reserved \cup Topics \cup Numbers

NoScope == [part |-> None, section |-> None, last |-> None]

ASSUME ConstantsAssumption ==
    /\ ClauseTexts \subseteq SUBSET Words /\ RegulationTexts \subseteq SUBSET Words
    /\ NoScope \in Scopes
    /\ \A s \in Scopes : DOMAIN s = {"part", "section", "last"}

-----------------------------------------------------------------------------
(* deterministic_rules *)

\* _extract_keywords of one word: stop words ("shall", "will", "be", "not", "to")
\* go, and so does what begins with a digit; phrases are taken apart.
KeywordsOf(w) ==
    IF w \in Numbers \cup {"shall", "will be"} THEN {}
    ELSE IF w = "without exception" THEN {"without", "exception"}
    ELSE IF w = "may not" THEN {"may"}
    ELSE IF w = "agrees to" THEN {"agrees"}
    ELSE IF w = "you must" THEN {"you", "must"}
    ELSE IF w = "always answer" THEN {"always", "answer"}
    ELSE {w}

Keywords(t) == UNION {KeywordsOf(w) : w \in t}

HasMandatoryLanguage(t) == \E w \in {"shall", "must", "will be"} : w \in Keywords(t)

HasProhibitedLanguage(t) ==
    \E w \in {"prohibited", "forbidden", "without exception", "may not"} :
        w \in Keywords(t)

Verdicts == {"Compliant", "Non-Compliant"}
Undecided == [verdict |-> "Needs Review", confidence |-> 0]
Raises == [verdict |-> "raises", confidence |-> 0]

\* Rule 1: the regulation demands something and the clause shares no keyword.
Rule1(c, t) ==
    IF HasMandatoryLanguage(t) /\ Keywords(c) \cap Keywords(t) = {}
    THEN [verdict |-> "Non-Compliant", confidence |-> 80] ELSE Undecided

\* Rule 2: the regulation prohibits something and the clause uses an action verb.
Rule2(c, t) ==
    IF HasProhibitedLanguage(t)
       /\ c \cap {"shall", "must", "will be", "agrees to", "you must"} # {}
    THEN [verdict |-> "Non-Compliant", confidence |-> 70] ELSE Undecided

\* The markers of a scope that occur in text t. (A marker that is a keyword of
\* the text is a substring of it: the second search of the code finds no more.)
MarkersIn(s, t) ==
    {m \in {s.section, s.last, s.part} \ {None} :
        m \in Keywords(t) \/ \E n \in t \cap Numbers : m \in Within[n]}

NamesSection(c, s) ==
    s.section # None /\ \E n \in c \cap Numbers : s.section \in Named[n]

\* Rule 3: the regulation has the part or section number, and so has the clause,
\* or not. The second pattern of the section search, tried when the first finds
\* nothing, holds the part unescaped.
Rule3(c, t, s) ==
    LET found == MarkersIn(s, t)
    IN  IF found = {} THEN Undecided
        ELSE IF found \cap Keywords(c) # {} \/ NamesSection(c, s)
             THEN [verdict |-> "Compliant", confidence |-> 90]
        ELSE IF s.section # None /\ s.part \in Malformed THEN Raises
        ELSE [verdict |-> "Non-Compliant", confidence |-> 75]

\* Mutant: the rules in the order of their names.
Evaluate_InOrder(c, t, s) ==
    IF Rule1(c, t) # Undecided THEN Rule1(c, t)
    ELSE IF Rule2(c, t) # Undecided THEN Rule2(c, t)
    ELSE Rule3(c, t, s)

\* evaluate_deterministic: the first rule of 3, 1, 2 that decides.
Evaluate(c, t, s) ==
    IF Rule3(c, t, s) # Undecided THEN Rule3(c, t, s)
    ELSE IF Rule1(c, t) # Undecided THEN Rule1(c, t)
    ELSE Rule2(c, t)

-----------------------------------------------------------------------------
(* security, compliance_agent and verification_agent *)

\* detect_prompt_injection: what no clause says that is not meant for the LLM.
Blocked(c) == "always answer" \in c

\* A reply of the LLM: the status it names, and which kinds of evidence it gives,
\* "quote" from the regulation, an object that quotes nothing in it ("other",
\* {} included), or no object at all ("noise").
Replies == [status : Verdicts \cup {"Needs Review", "gibberish"},
            items : SUBSET {"quote", "other", "noise"}]

\* What evaluate makes of it: an unknown status asks for review, and every
\* object is evidence, with the fields it lacks filled in.
Coerced(reply) ==
    [verdict |-> IF reply.status = "gibberish" THEN "Needs Review" ELSE reply.status,
     evidence |-> reply.items \ {"noise"}]

\* Mutant: rules that raised before are not asked again.
Conflicts_Never(verdict, det) == FALSE

\* Mutant: a verdict the rules do not share is a conflict.
Conflicts_Unshared(verdict, det) == verdict # det

\* An LLM verdict opposite to the rules' is a conflict.
Conflicts(verdict, det) == {verdict, det} = Verdicts

\* Mutant: no evidence is asked for.
Sufficient_Always(answer) == TRUE

\* A verdict needs evidence, of whatever kind: the overlap with the regulation is
\* reported and decides nothing.
Sufficient(answer) == answer.evidence # {} \/ answer.verdict \notin Verdicts

\* The clause talks to the model, by the verifier's list, which is not the gate's.
Suspicious(c) == c \cap {"you must", "always answer"} # {}

\* The checks look at the rules again, without part and section. (The version
\* check compares what retrieval wrote into the evidence with where it took it
\* from and cannot fail.)
Recommendation(answer, c, t) ==
    IF Suspicious(c) THEN "reject"
    ELSE IF \/ Conflicts(answer.verdict, Evaluate(c, t, NoScope).verdict)
            \/ ~Sufficient(answer)
         THEN "review"
    ELSE "accept"

-----------------------------------------------------------------------------
(* The evaluation of one clause *)

VARIABLES
    clause, text, scope,    \* the input
    stage,      \* "gate", "rules", "llm", "verify" or "done"
    det,        \* det_result; Raises when the rules raise
    answer,     \* the LLM's verdict and evidence
    outcome     \* status, verification_status, evidence and who decided

vars == <<clause, text, scope, stage, det, answer, outcome>>

Answers == [verdict : Verdicts \cup {"Needs Review"},
            evidence : SUBSET {"quote", "other"}]

\* A rule's evidence is an excerpt of the regulation.
Evidence == SUBSET {"excerpt", "quote", "other"}

Outcomes ==
    [status : Verdicts \cup {"Needs Review"}, verification : {"verified"},
     evidence : Evidence, by : {"rule", "llm"}]
    \cup [status : {"Needs Review"}, verification : {"needs_review"},
          evidence : Evidence, by : {"gate", "llm"}]

Results == {Undecided, Raises} \cup [verdict : Verdicts, confidence : 0..100]

TypeOK ==
    /\ clause \in ClauseTexts /\ text \in RegulationTexts /\ scope \in Scopes
    /\ stage \in {"gate", "rules", "llm", "verify", "done"}
    /\ det \in Results
    /\ answer \in Answers \cup {None}
    /\ outcome \in Outcomes \cup {None}

\* A pipeline match comes with its part and perhaps its section, an API request
\* without either.
Init ==
    /\ clause \in ClauseTexts /\ text \in RegulationTexts /\ scope \in Scopes
    /\ stage = "gate"
    /\ det = Undecided
    /\ answer = None
    /\ outcome = None

Finish(status, verification, evidence, by) ==
    /\ outcome' = [status |-> status, verification |-> verification,
                   evidence |-> evidence, by |-> by]
    /\ stage' = "done"

\* The gate refuses the clause, and a human is to look at it.
Block ==
    /\ stage = "gate"
    /\ Blocked(clause)
    /\ Finish("Needs Review", "needs_review", {}, "gate")
    /\ UNCHANGED <<clause, text, scope, det, answer>>

Pass ==
    /\ stage = "gate"
    /\ ~Blocked(clause)
    /\ stage' = "rules"
    /\ UNCHANGED <<clause, text, scope, det, answer, outcome>>

\* A rule decides; its passage is the evidence. Nobody verifies it.
RuleDecides ==
    /\ stage = "rules"
    /\ det' = Evaluate(clause, text, scope)
    /\ det'.verdict \in Verdicts
    /\ Finish(det'.verdict, "verified", {"excerpt"}, "rule")
    /\ UNCHANGED <<clause, text, scope, answer>>

\* No rule decides, or the pipeline catches what a rule raises.
RulesPass ==
    /\ stage = "rules"
    /\ det' = Evaluate(clause, text, scope)
    /\ det'.verdict \notin Verdicts
    /\ stage' = "llm"
    /\ UNCHANGED <<clause, text, scope, answer, outcome>>

\* The LLM is not configured, its call fails, or its reply cannot be read: it is
\* no JSON object, has no confidence, or names a number that is infinite, on
\* which the coercion of an evidence item raises.
LlmFails ==
    /\ stage = "llm"
    /\ Finish("Needs Review", "needs_review", {}, "llm")
    /\ UNCHANGED <<clause, text, scope, det, answer>>

LlmAnswers ==
    /\ stage = "llm"
    /\ \E reply \in Replies : answer' = Coerced(reply)
    /\ stage' = "verify"
    /\ UNCHANGED <<clause, text, scope, det, outcome>>

Accept ==
    /\ stage = "verify"
    /\ Recommendation(answer, clause, text) = "accept"
    /\ Finish(answer.verdict, "verified", answer.evidence, "llm")
    /\ UNCHANGED <<clause, text, scope, det, answer>>

\* Mutant: the result goes to review with the verdict it had.
Downgrade_KeepsVerdict ==
    /\ stage = "verify"
    /\ Recommendation(answer, clause, text) # "accept"
    /\ Finish(answer.verdict, "needs_review", answer.evidence, "llm")
    /\ UNCHANGED <<clause, text, scope, det, answer>>

\* A human is to decide; the proposal's evidence is kept.
Downgrade ==
    /\ stage = "verify"
    /\ Recommendation(answer, clause, text) # "accept"
    /\ Finish("Needs Review", "needs_review", answer.evidence, "llm")
    /\ UNCHANGED <<clause, text, scope, det, answer>>

Next ==
    \/ Block \/ Pass \/ RuleDecides \/ RulesPass
    \/ LlmFails \/ LlmAnswers \/ Accept \/ Downgrade

Spec == Init /\ [][Next]_vars

-----------------------------------------------------------------------------
(* Properties *)

\* What each rule says of the input.
RuleResults == {Rule1(clause, text), Rule2(clause, text), Rule3(clause, text, scope)}

\* "the highest-confidence non-'Needs Review' verdict wins" (deterministic_rules.py:
\* 14-15), although evaluate_deterministic stops at the first rule that decides and
\* so reports a lower confidence at times. The same file names another order, which
\* the code does not keep: see ViolationsPrevail.
HighestConfidenceWins ==
    outcome # None /\ outcome.by = "rule" =>
        \E r \in RuleResults : /\ r.verdict = outcome.status
                               /\ \A other \in RuleResults : other.confidence <= r.confidence

\* "The verdict hierarchy: Non-Compliant > Compliant > Needs Review"
\* (deterministic_rules.py:318): a clause in which some rule finds a violation is
\* not called Compliant, by the rules or, should they raise, by LLM and verifier.
\* The code departs from this in one case, where it follows the confidences: when
\* rule 3 finds the section in the clause, the others are not asked.
ViolationsPrevail ==
    outcome # None /\ outcome.status = "Compliant"
        /\ (\E r \in RuleResults : r.verdict = "Non-Compliant")
    => outcome.by = "rule" /\ Rule3(clause, text, scope).verdict = "Compliant"

\* The verifier's comparison with the rules (verification_agent.py:55-136) can
\* find a conflict only when the rules had raised before: where they had decided
\* nothing with part and section they decide nothing without.
ConflictOnlyAfterRaise ==
    stage = "verify" /\ Conflicts(answer.verdict, Evaluate(clause, text, NoScope).verdict)
        => det = Raises

\* A verdict that counts as verified rests on evidence and is about no clause
\* that the gate refuses, and one by the LLM about none that talks to it (the
\* HITL boundary, compliance_pipeline.py:94-117).
VerifiedIsGrounded ==
    outcome # None /\ outcome.verification = "verified" /\ outcome.status \in Verdicts =>
        /\ outcome.evidence # {}
        /\ ~Blocked(clause)
        /\ outcome.by = "llm" => ~Suspicious(clause)

\* What the proofs need: det is what the rules said, once they have been asked,
\* and an outcome belongs to its stage.
IInv ==
    /\ TypeOK
    /\ stage \in {"llm", "verify"} =>
        /\ det = Evaluate(clause, text, scope)
        /\ det.verdict \notin Verdicts
    /\ stage \in {"rules", "llm", "verify"} => ~Blocked(clause)
    /\ stage = "verify" => answer \in Answers
    /\ stage # "done" => outcome = None
    /\ stage = "done" => outcome \in Outcomes
    /\ HighestConfidenceWins
    /\ ViolationsPrevail
    /\ VerifiedIsGrounded
=============================================================================
