-------------------------- MODULE VerdictRulesProofs --------------------------
(***************************************************************************)
(* Theorems about VerdictRules, for any texts, scopes and words: the rules *)
(* as a function first, then the invariant of an evaluation.               *)
(***************************************************************************)
EXTENDS VerdictRules, TLAPS

-----------------------------------------------------------------------------
(* The rules *)

\* What each rule may say.
LEMMA RuleOutcomes ==
    ASSUME NEW c, NEW t, NEW s
    PROVE  /\ Rule1(c, t) \in {Undecided, [verdict |-> "Non-Compliant", confidence |-> 80]}
           /\ Rule2(c, t) \in {Undecided, [verdict |-> "Non-Compliant", confidence |-> 70]}
           /\ Rule3(c, t, s) \in {Undecided, Raises,
                                  [verdict |-> "Compliant", confidence |-> 90],
                                  [verdict |-> "Non-Compliant", confidence |-> 75]}
  <1>1. Rule1(c, t) \in {Undecided, [verdict |-> "Non-Compliant", confidence |-> 80]}
    BY DEF Rule1
  <1>2. Rule2(c, t) \in {Undecided, [verdict |-> "Non-Compliant", confidence |-> 70]}
    BY DEF Rule2
  <1>3. Rule3(c, t, s) \in {Undecided, Raises,
                            [verdict |-> "Compliant", confidence |-> 90],
                            [verdict |-> "Non-Compliant", confidence |-> 75]}
    <2> DEFINE found == MarkersIn(s, t)
               meets == found \cap Keywords(c) # {} \/ NamesSection(c, s)
    <2>1. CASE found = {}
      BY <2>1 DEF Rule3
    <2>2. CASE found # {} /\ meets
      BY <2>2 DEF Rule3
    <2>3. CASE found # {} /\ ~meets
      BY <2>3 DEF Rule3
    <2> QED
      BY <2>1, <2>2, <2>3
  <1> QED
    BY <1>1, <1>2, <1>3

\* evaluate_deterministic gives a result of its type.
LEMMA EvaluateType ==
    ASSUME NEW c, NEW t, NEW s
    PROVE  Evaluate(c, t, s) \in Results
  <1>1. /\ [verdict |-> "Non-Compliant", confidence |-> 80] \in Results
        /\ [verdict |-> "Non-Compliant", confidence |-> 70] \in Results
        /\ [verdict |-> "Compliant", confidence |-> 90] \in Results
        /\ [verdict |-> "Non-Compliant", confidence |-> 75] \in Results
        /\ Undecided \in Results /\ Raises \in Results
    BY DEF Results, Verdicts
  <1>2. Evaluate(c, t, s) \in {Rule1(c, t), Rule2(c, t), Rule3(c, t, s)}
    BY DEF Evaluate
  <1> QED
    BY <1>1, <1>2, RuleOutcomes

\* A decision of evaluate_deterministic is the one of its most confident rule.
LEMMA EvaluateIsMostConfident ==
    ASSUME NEW c, NEW t, NEW s, Evaluate(c, t, s).verdict \in Verdicts
    PROVE  LET rules == {Rule1(c, t), Rule2(c, t), Rule3(c, t, s)}
           IN  \E r \in rules : /\ r.verdict = Evaluate(c, t, s).verdict
                                /\ \A other \in rules : other.confidence <= r.confidence
  <1> DEFINE one == Rule1(c, t)
             two == Rule2(c, t)
             three == Rule3(c, t, s)
  <1>1. /\ one = Undecided \/ one = [verdict |-> "Non-Compliant", confidence |-> 80]
        /\ two = Undecided \/ two = [verdict |-> "Non-Compliant", confidence |-> 70]
        /\ \/ three = Undecided \/ three = Raises
           \/ three = [verdict |-> "Compliant", confidence |-> 90]
           \/ three = [verdict |-> "Non-Compliant", confidence |-> 75]
    BY RuleOutcomes
  <1>2. Evaluate(c, t, s) =
            IF three # Undecided THEN three ELSE IF one # Undecided THEN one ELSE two
    BY DEF Evaluate
  <1>3. /\ Undecided.verdict \notin Verdicts /\ Undecided.confidence = 0
        /\ Raises.verdict \notin Verdicts /\ Raises # Undecided
    BY DEF Undecided, Raises, Verdicts
  <1> HIDE DEF one, two, three
  <1>4. \E r \in {one, two, three} :
            /\ r.verdict = Evaluate(c, t, s).verdict
            /\ \A other \in {one, two, three} : other.confidence <= r.confidence
    <2>1. CASE three = [verdict |-> "Compliant", confidence |-> 90]
      <3>1. Evaluate(c, t, s) = three
        BY <1>2, <2>1 DEF Undecided
      <3>2. \A other \in {one, two, three} : other.confidence <= three.confidence
        BY <1>1, <1>3, <2>1
      <3> QED BY <3>1, <3>2
    <2>2. CASE three = [verdict |-> "Non-Compliant", confidence |-> 75]
      <3>1. Evaluate(c, t, s) = three
        BY <1>2, <2>2 DEF Undecided
      <3>2. CASE one = Undecided
        <4>1. \A other \in {one, two, three} : other.confidence <= three.confidence
          BY <1>1, <1>3, <2>2, <3>2
        <4> QED BY <3>1, <4>1
      <3>3. CASE one = [verdict |-> "Non-Compliant", confidence |-> 80]
        <4>1. \A other \in {one, two, three} : other.confidence <= one.confidence
          BY <1>1, <1>3, <2>2, <3>3
        <4>2. one.verdict = three.verdict
          BY <2>2, <3>3
        <4> QED BY <3>1, <4>1, <4>2
      <3> QED BY <1>1, <3>2, <3>3
    <2>3. CASE three = Undecided
      <3>1. CASE one = [verdict |-> "Non-Compliant", confidence |-> 80]
        <4>1. Evaluate(c, t, s) = one
          BY <1>2, <2>3, <3>1 DEF Undecided
        <4>2. \A other \in {one, two, three} : other.confidence <= one.confidence
          BY <1>1, <1>3, <2>3, <3>1
        <4> QED BY <4>1, <4>2
      <3>2. CASE one = Undecided
        <4>1. Evaluate(c, t, s) = two
          BY <1>2, <2>3, <3>2
        <4>2. two = [verdict |-> "Non-Compliant", confidence |-> 70]
          BY <1>1, <1>3, <4>1
        <4>3. \A other \in {one, two, three} : other.confidence <= two.confidence
          BY <1>3, <2>3, <3>2, <4>2
        <4> QED BY <4>1, <4>3
      <3> QED BY <1>1, <3>1, <3>2
    <2>4. CASE three = Raises
      BY <1>2, <1>3, <2>4
    <2> QED BY <1>1, <2>1, <2>2, <2>3, <2>4
  <1> QED
    BY <1>4 DEF one, two, three

\* Where the rules decide nothing they decide nothing without a scope either.
LEMMA ScopeOnlyHelps ==
    ASSUME NEW c, NEW t, NEW s, Evaluate(c, t, s) = Undecided
    PROVE  Evaluate(c, t, NoScope) = Undecided
  <1>1. Rule1(c, t) = Undecided /\ Rule2(c, t) = Undecided
    BY DEF Evaluate
  <1>2. MarkersIn(NoScope, t) = {}
    BY DEF MarkersIn, NoScope
  <1>3. Rule3(c, t, NoScope) = Undecided
    BY <1>2 DEF Rule3
  <1> QED
    BY <1>1, <1>3 DEF Evaluate

\* Only rule 3 ever says Compliant.
LEMMA OnlyRule3IsCompliant ==
    ASSUME NEW c, NEW t, NEW s, Evaluate(c, t, s).verdict = "Compliant"
    PROVE  Rule3(c, t, s).verdict = "Compliant"
  <1>1. Rule1(c, t).verdict # "Compliant" /\ Rule2(c, t).verdict # "Compliant"
    <2>1. /\ Rule1(c, t) \in {Undecided, [verdict |-> "Non-Compliant", confidence |-> 80]}
          /\ Rule2(c, t) \in {Undecided, [verdict |-> "Non-Compliant", confidence |-> 70]}
      BY RuleOutcomes
    <2>2. Undecided.verdict # "Compliant"
      BY DEF Undecided
    <2> QED BY <2>1, <2>2
  <1>2. Evaluate(c, t, s) \in {Rule1(c, t), Rule2(c, t), Rule3(c, t, s)}
    BY DEF Evaluate
  <1> QED
    BY <1>1, <1>2

\* Where the rules raise although rule 1 or 2 finds a violation, they find it when
\* they are run again without a scope.
LEMMA ViolationIsFoundAgain ==
    ASSUME NEW c, NEW t, NEW s, Evaluate(c, t, s).verdict \notin Verdicts,
           "Non-Compliant" \in {Rule1(c, t).verdict, Rule2(c, t).verdict, Rule3(c, t, s).verdict}
    PROVE  Evaluate(c, t, NoScope).verdict = "Non-Compliant"
  <1>1. Undecided.verdict # "Non-Compliant" /\ "Non-Compliant" \in Verdicts
    BY DEF Undecided, Verdicts
  <1>2. Rule3(c, t, s).verdict # "Non-Compliant"
    <2>1. CASE Rule3(c, t, s) = Undecided
      BY <1>1, <2>1
    <2>2. CASE Rule3(c, t, s) # Undecided
      <3>1. Evaluate(c, t, s) = Rule3(c, t, s)
        BY <2>2 DEF Evaluate
      <3> QED BY <1>1, <3>1
    <2> QED BY <2>1, <2>2
  <1>3. MarkersIn(NoScope, t) = {}
    BY DEF MarkersIn, NoScope
  <1>4. Rule3(c, t, NoScope) = Undecided
    BY <1>3 DEF Rule3
  <1>5. Evaluate(c, t, NoScope) =
            IF Rule1(c, t) # Undecided THEN Rule1(c, t) ELSE Rule2(c, t)
    BY <1>4 DEF Evaluate
  <1>6. Rule1(c, t) # Undecided => Rule1(c, t).verdict = "Non-Compliant"
    <2>1. Rule1(c, t) \in {Undecided, [verdict |-> "Non-Compliant", confidence |-> 80]}
      BY RuleOutcomes
    <2> QED BY <2>1
  <1> QED
    BY <1>1, <1>2, <1>5, <1>6

\* Of the markers of mandatory language that the code lists, "shall" and "will
\* be" never count: only "must" does, alone or in "you must".
THEOREM OnlyMustIsMandatory ==
    ASSUME NEW t \in SUBSET Words, Topics \cap {"shall", "will be", "must"} = {},
           Numbers \cap Reserved = {}
    PROVE  HasMandatoryLanguage(t) <=> t \cap {"must", "you must"} # {}
  <1>1. \A w \in Words : {"shall", "will be"} \cap KeywordsOf(w) = {}
    BY DEF KeywordsOf, Words, Reserved
  <1>2. \A w \in Words : "must" \in KeywordsOf(w) <=> w \in {"must", "you must"}
    BY DEF KeywordsOf, Words, Reserved
  <1>3. \A k : k \in Keywords(t) <=> \E w \in t : k \in KeywordsOf(w)
    BY DEF Keywords
  <1>4. "shall" \notin Keywords(t) /\ "will be" \notin Keywords(t)
    BY <1>1, <1>3
  <1>5. "must" \in Keywords(t) <=> \E w \in t : w \in {"must", "you must"}
    BY <1>2, <1>3
  <1> QED
    BY <1>4, <1>5 DEF HasMandatoryLanguage

\* What the coercion of a reply gives has the shape the verifier expects.
LEMMA CoercedType ==
    ASSUME NEW reply \in Replies
    PROVE  Coerced(reply) \in Answers
  <1>1. /\ reply.status \in Verdicts \cup {"Needs Review", "gibberish"}
        /\ reply.items \in SUBSET {"quote", "other", "noise"}
    BY DEF Replies
  <1>2. /\ Coerced(reply).verdict \in Verdicts \cup {"Needs Review"}
        /\ reply.items \ {"noise"} \in SUBSET {"quote", "other"}
    BY <1>1 DEF Coerced
  <1> QED
    BY <1>2 DEF Coerced, Answers

-----------------------------------------------------------------------------
(* The evaluation *)

\* Every stage leaves det, answer and outcome as the next one expects them.
LEMMA InitIInv == Init => IInv
  <1> SUFFICES ASSUME Init PROVE IInv
    OBVIOUS
  <1>1. TypeOK
    BY DEF Init, TypeOK, Results
  <1>2. HighestConfidenceWins /\ ViolationsPrevail /\ VerifiedIsGrounded
    BY DEF Init, HighestConfidenceWins, ViolationsPrevail, VerifiedIsGrounded
  <1> QED
    BY <1>1, <1>2 DEF Init, IInv

LEMMA NextIInv == IInv /\ [Next]_vars => IInv'
  <1> SUFFICES ASSUME IInv, [Next]_vars PROVE IInv'
    OBVIOUS
  <1> USE DEF IInv
  <1>1. CASE RuleDecides
    <2>1. /\ det' = Evaluate(clause, text, scope) /\ det'.verdict \in Verdicts
          /\ UNCHANGED <<clause, text, scope, answer>> /\ stage' = "done"
          /\ outcome' = [status |-> det'.verdict, verification |-> "verified",
                         evidence |-> {"excerpt"}, by |-> "rule"]
      BY <1>1 DEF RuleDecides, Finish
    <2>2. outcome' \in Outcomes
      BY <2>1 DEF Outcomes, Evidence
    <2>3. det' \in Results
      BY <2>1, EvaluateType
    <2>4. TypeOK'
      BY <2>1, <2>2, <2>3 DEF TypeOK
    <2>5. HighestConfidenceWins'
      BY <2>1, EvaluateIsMostConfident DEF HighestConfidenceWins, RuleResults
    <2>7. ViolationsPrevail'
      <3> SUFFICES ASSUME outcome'.status = "Compliant"
                   PROVE  Rule3(clause, text, scope).verdict = "Compliant"
        BY <2>1 DEF ViolationsPrevail
      <3>1. Evaluate(clause, text, scope).verdict = "Compliant"
        BY <2>1
      <3> QED
        BY <3>1, OnlyRule3IsCompliant
    <2>6. VerifiedIsGrounded'
      <3>1. outcome'.evidence # {} /\ outcome'.by = "rule" /\ ~Blocked(clause)
        BY <1>1, <2>1 DEF RuleDecides
      <3> QED
        BY <2>1, <3>1 DEF VerifiedIsGrounded
    <2> QED
      BY <2>1, <2>2, <2>4, <2>5, <2>6, <2>7
  <1>2. CASE RulesPass
    <2>1. /\ det' = Evaluate(clause, text, scope) /\ det'.verdict \notin Verdicts
          /\ UNCHANGED <<clause, text, scope, answer, outcome>> /\ stage' = "llm"
          /\ stage = "rules"
      BY <1>2 DEF RulesPass
    <2>2. det' \in Results
      BY <2>1, EvaluateType
    <2>3. TypeOK'
      BY <2>1, <2>2 DEF TypeOK
    <2>4. outcome' = None
      BY <2>1
    <2> QED
      BY <2>1, <2>3, <2>4 DEF HighestConfidenceWins, ViolationsPrevail, VerifiedIsGrounded
  <1>3. CASE LlmFails
    <2>1. /\ UNCHANGED <<clause, text, scope, det, answer>> /\ stage' = "done"
          /\ outcome' = [status |-> "Needs Review", verification |-> "needs_review",
                         evidence |-> {}, by |-> "llm"]
      BY <1>3 DEF LlmFails, Finish
    <2>2. outcome' \in Outcomes
      BY <2>1 DEF Outcomes, Evidence
    <2>3. TypeOK'
      BY <2>1, <2>2 DEF TypeOK
    <2>4. HighestConfidenceWins' /\ ViolationsPrevail' /\ VerifiedIsGrounded'
      BY <2>1 DEF HighestConfidenceWins, ViolationsPrevail, VerifiedIsGrounded
    <2> QED
      BY <2>1, <2>2, <2>3, <2>4
  <1>4. CASE LlmAnswers
    <2>0. PICK reply \in Replies : answer' = Coerced(reply)
      BY <1>4 DEF LlmAnswers
    <2>1. /\ UNCHANGED <<clause, text, scope, det, outcome>> /\ stage = "llm"
          /\ stage' = "verify" /\ answer' \in Answers
      BY <1>4, <2>0, CoercedType DEF LlmAnswers
    <2>2. TypeOK'
      BY <2>1 DEF TypeOK
    <2>3. outcome' = None
      BY <2>1
    <2> QED
      BY <2>1, <2>2, <2>3 DEF HighestConfidenceWins, ViolationsPrevail, VerifiedIsGrounded
  <1>5. CASE Accept
    <2>1. /\ UNCHANGED <<clause, text, scope, det, answer>> /\ stage = "verify"
          /\ stage' = "done" /\ Recommendation(answer, clause, text) = "accept"
          /\ outcome' = [status |-> answer.verdict, verification |-> "verified",
                         evidence |-> answer.evidence, by |-> "llm"]
      BY <1>5 DEF Accept, Finish
    <2>2. answer.verdict \in Verdicts \cup {"Needs Review"} /\ answer.evidence \in Evidence
      BY <2>1 DEF Answers, Evidence
    <2>3. outcome' \in Outcomes
      BY <2>1, <2>2 DEF Outcomes
    <2>4. TypeOK'
      BY <2>1, <2>3 DEF TypeOK
    <2>5. Sufficient(answer) /\ ~Suspicious(clause)
      BY <2>1 DEF Recommendation
    <2>6. VerifiedIsGrounded'
      BY <2>1, <2>2, <2>5 DEF VerifiedIsGrounded, Sufficient
    <2>7. HighestConfidenceWins'
      BY <2>1 DEF HighestConfidenceWins, RuleResults
    <2>8. ViolationsPrevail'
      <3> SUFFICES ASSUME answer.verdict = "Compliant",
                          \E r \in RuleResults : r.verdict = "Non-Compliant"
                   PROVE  FALSE
        BY <2>1 DEF ViolationsPrevail, RuleResults
      <3>1. "Non-Compliant" \in {Rule1(clause, text).verdict, Rule2(clause, text).verdict,
                                 Rule3(clause, text, scope).verdict}
        BY DEF RuleResults
      <3>2. Evaluate(clause, text, scope).verdict \notin Verdicts
        BY <2>1
      <3>3. Evaluate(clause, text, NoScope).verdict = "Non-Compliant"
        BY <3>1, <3>2, ViolationIsFoundAgain
      <3>4. ~Conflicts(answer.verdict, Evaluate(clause, text, NoScope).verdict)
        BY <2>1 DEF Recommendation
      <3> QED
        BY <3>3, <3>4 DEF Conflicts, Verdicts
    <2> QED
      BY <2>1, <2>3, <2>4, <2>6, <2>7, <2>8
  <1>6. CASE Downgrade
    <2>1. /\ UNCHANGED <<clause, text, scope, det, answer>> /\ stage = "verify"
          /\ stage' = "done"
          /\ outcome' = [status |-> "Needs Review", verification |-> "needs_review",
                         evidence |-> answer.evidence, by |-> "llm"]
      BY <1>6 DEF Downgrade, Finish
    <2>2. answer.evidence \in Evidence
      BY <2>1 DEF Answers, Evidence
    <2>5. outcome' \in Outcomes
      BY <2>1, <2>2 DEF Outcomes
    <2>3. TypeOK'
      BY <2>1, <2>5 DEF TypeOK
    <2>4. HighestConfidenceWins' /\ ViolationsPrevail' /\ VerifiedIsGrounded'
      BY <2>1 DEF HighestConfidenceWins, ViolationsPrevail, VerifiedIsGrounded
    <2> QED
      BY <2>1, <2>3, <2>4, <2>5
  <1>8. CASE Block
    <2>1. /\ UNCHANGED <<clause, text, scope, det, answer>> /\ stage' = "done"
          /\ outcome' = [status |-> "Needs Review", verification |-> "needs_review",
                         evidence |-> {}, by |-> "gate"]
      BY <1>8 DEF Block, Finish
    <2>2. outcome' \in Outcomes
      BY <2>1 DEF Outcomes, Evidence
    <2>3. TypeOK'
      BY <2>1, <2>2 DEF TypeOK
    <2>4. HighestConfidenceWins' /\ ViolationsPrevail' /\ VerifiedIsGrounded'
      BY <2>1 DEF HighestConfidenceWins, ViolationsPrevail, VerifiedIsGrounded
    <2> QED
      BY <2>1, <2>2, <2>3, <2>4
  <1>9. CASE Pass
    <2>1. /\ UNCHANGED <<clause, text, scope, det, answer, outcome>>
          /\ stage = "gate" /\ stage' = "rules" /\ ~Blocked(clause)
      BY <1>9 DEF Pass
    <2>2. TypeOK'
      BY <2>1 DEF TypeOK
    <2>3. outcome' = None
      BY <2>1
    <2> QED
      BY <2>1, <2>2, <2>3 DEF HighestConfidenceWins, ViolationsPrevail, VerifiedIsGrounded
  <1>7. CASE UNCHANGED vars
    BY <1>7 DEF vars, TypeOK, HighestConfidenceWins, RuleResults, ViolationsPrevail,
                 VerifiedIsGrounded
  <1> QED
    BY <1>1, <1>2, <1>3, <1>4, <1>5, <1>6, <1>7, <1>8, <1>9 DEF Next

\* The invariant of an evaluation: what the rules said is known to the stages
\* after them, and an outcome has the shape and the grounds of its maker.
THEOREM Invariance == Spec => []IInv
  <1> QED BY InitIInv, NextIInv, PTL DEF Spec

\* Every variable of an evaluation keeps its type; in particular no result goes
\* to a human with a verdict, or counts as verified without one.
THEOREM TypeCorrect == Spec => []TypeOK
  <1>1. IInv => TypeOK
    BY DEF IInv
  <1> QED BY Invariance, <1>1, PTL

\* A verdict of evaluate_deterministic is one of the most confident rule.
THEOREM MostConfidentRuleDecides == Spec => []HighestConfidenceWins
  <1>1. IInv => HighestConfidenceWins
    BY DEF IInv
  <1> QED BY Invariance, <1>1, PTL

\* A violation that a rule finds is not overruled by the LLM, whether the rules
\* decide or raise; only rule 3 overrules it, when it finds the section.
THEOREM ViolationsAreNotOverruled == Spec => []ViolationsPrevail
  <1>1. IInv => ViolationsPrevail
    BY DEF IInv
  <1> QED BY Invariance, <1>1, PTL

\* A verified verdict has evidence, and the LLM's a clause free of instructions.
THEOREM VerdictsAreGrounded == Spec => []VerifiedIsGrounded
  <1>1. IInv => VerifiedIsGrounded
    BY DEF IInv
  <1> QED BY Invariance, <1>1, PTL

\* The verifier finds a conflict with the rules only when they had raised.
THEOREM NoConflictUnlessRaised == Spec => []ConflictOnlyAfterRaise
  <1>1. IInv => ConflictOnlyAfterRaise
    <2> SUFFICES ASSUME IInv, stage = "verify",
                        Conflicts(answer.verdict, Evaluate(clause, text, NoScope).verdict)
                 PROVE  det = Raises
      BY DEF ConflictOnlyAfterRaise
    <2>1. det = Evaluate(clause, text, scope) /\ det.verdict \notin Verdicts
      BY DEF IInv
    <2>2. det \in Results
      BY DEF IInv, TypeOK
    <2>3. det = Undecided \/ det = Raises
      BY <2>1, <2>2 DEF Results
    <2>4. ASSUME det = Undecided PROVE FALSE
      <3>1. Evaluate(clause, text, NoScope) = Undecided
        BY <2>1, <2>4, ScopeOnlyHelps
      <3>2. Evaluate(clause, text, NoScope).verdict = "Needs Review"
        <4>1. Undecided.verdict = "Needs Review"
          BY DEF Undecided
        <4> QED BY <3>1, <4>1
      <3>3. {answer.verdict, Evaluate(clause, text, NoScope).verdict} = Verdicts
        BY DEF Conflicts
      <3>4. "Needs Review" \in Verdicts
        BY <3>2, <3>3
      <3> QED BY <3>4 DEF Verdicts
    <2> QED BY <2>3, <2>4
  <1> QED BY Invariance, <1>1, PTL
=============================================================================
