------------------------------- MODULE CfrQuery -------------------------------
(***************************************************************************)
(* From a contract clause to a regulation to fetch: the keyword query      *)
(* (build_search_query, agent/mcp_search.py), the domain prediction over   *)
(* it (agent/cfr_query_optimizer.py) and the choice among the search hits. *)
(*                                                                         *)
(* A text is a sequence of lower-case words and of what follows each: one  *)
(* space, a hyphen, or a break, which is anything else. A phrase is a      *)
(* sequence of words.                                                      *)
(***************************************************************************)
EXTENDS Order

CONSTANTS
    StopWords,      \* STOP_WORDS, and the tokens of less than three letters
    Letters,        \* Letters[w]: the length of a word
    MaxQueryChars   \* _MAX_QUERY_CHARS

NoTitle == ""

-----------------------------------------------------------------------------
(* build_search_query *)

\* The positions where a token begins: a hyphen does not end one.
TokenStarts(text) == {i \in DOMAIN text : i = 1 \/ text[i - 1].then # "hyphen"}

\* The token that begins at i.
TokenAt(text, i) ==
    LET last == First({k \in i..Len(text) : k = Len(text) \/ text[k].then # "hyphen"})
    IN  [k \in 1..(last - i + 1) |-> text[i + k - 1].word]

\* Its length, with the hyphens.
TokenLength(token) ==
    Cardinality(UNION {{k} \X (1..Letters[token[k]]) : k \in DOMAIN token}) + Len(token) - 1

\* The tokens that are worth a keyword, without those seen before.
Keywords(text) ==
    LET starts == {i \in TokenStarts(text) :
                     /\ TokenAt(text, i) \notin StopWords
                     /\ \A k \in TokenStarts(text) :
                           k < i => TokenAt(text, k) # TokenAt(text, i)}
    IN  Kept([i \in DOMAIN text |-> TokenAt(text, i)], starts)

\* The length of the query of the first n keywords, with the spaces.
QueryLength(keywords, n) ==
    IF n = 0 THEN 0
    ELSE Cardinality(UNION {{k} \X (1..TokenLength(keywords[k])) : k \in 1..n}) + n - 1

\* Keywords are added as long as they fit: the first that does not ends the query.
build_search_query(text) ==
    LET keywords == Keywords(text)
        fits == {n \in 0..Len(keywords) : QueryLength(keywords, n) <= MaxQueryChars}
    IN  SubSeq(keywords, 1, Last(fits))

-----------------------------------------------------------------------------
(* cfr_query_optimizer *)

\* _DOMAIN_RULES, in the order that decides ties.
DOMAIN_RULES == <<
    [title |-> "40", keywords |-> << <<"hazardous", "waste">>, <<"waste">>,
        <<"disposal">>, <<"epa">>, <<"chemical">>, <<"pollution">> >>],
    [title |-> "41", keywords |-> << <<"discrimination">>, <<"equal", "opportunity">>,
        <<"affirmative", "action">>, <<"race">>, <<"gender">>, <<"employment">> >>],
    [title |-> "29", keywords |-> << <<"workplace", "safety">>,
        <<"construction", "safety">>, <<"fall", "protection">>, <<"scaffold">>,
        <<"hazard", "communication">>, <<"osha">> >>],
    [title |-> "29", keywords |-> << <<"wage">>, <<"payroll">>, <<"laborer">>,
        <<"mechanic">>, <<"certified", "payroll">> >>],
    [title |-> "48", keywords |-> << <<"government", "contract">>,
        <<"federal", "contract">>, <<"subcontractor">> >>] >>

\* A phrase occurs with single spaces inside; a word boundary is all it needs
\* outside, and a hyphen is one.
OccursIn(phrase, text) ==
    \E i \in 0..(Len(text) - Len(phrase)) :
        /\ \A k \in DOMAIN phrase : text[i + k].word = phrase[k]
        /\ \A k \in 1..(Len(phrase) - 1) : text[i + k].then = "space"

\* _matched_keywords, in the order of the table.
matched_keywords(rule, text) ==
    Kept(rule.keywords,
         {k \in DOMAIN rule.keywords : OccursIn(rule.keywords[k], text)})

Score(text) == [r \in DOMAIN DOMAIN_RULES |-> Len(matched_keywords(DOMAIN_RULES[r], text))]

\* The first of the best domains.
Winner(score) ==
    First({r \in DOMAIN score : \A s \in DOMAIN score : score[s] <= score[r]})

\* One phrase is part of another.
Within(phrase, other) ==
    \E i \in 0..(Len(other) - Len(phrase)) :
        \A k \in DOMAIN phrase : other[i + k] = phrase[k]

\* Mutant: a keyword is contained in itself.
dedupe_contained_All(keywords) ==
    Kept(keywords, {i \in DOMAIN keywords :
        \A k \in DOMAIN keywords : ~Within(keywords[i], keywords[k])})

\* _dedupe_contained
dedupe_contained(keywords) ==
    Kept(keywords, {i \in DOMAIN keywords : \A k \in DOMAIN keywords :
        keywords[k] # keywords[i] => ~Within(keywords[i], keywords[k])})

\* optimize_clause: the query and the predicted title.
optimize_clause(text, base) ==
    LET score == Score(text)
        winner == Winner(score)
    IN  IF score[winner] = 0 THEN [query |-> base, title |-> NoTitle]
        ELSE [query |-> dedupe_contained(matched_keywords(DOMAIN_RULES[winner], text)),
              title |-> DOMAIN_RULES[winner].title]

-----------------------------------------------------------------------------
(* The search hits *)

\* Mutant: an appendix is fetched like a part.
UsableHits_Appendix(results) ==
    {i \in DOMAIN results : results[i].title # NoTitle}

\* A hit with a title and a part; one of an appendix has no part.
UsableHits(results) ==
    {i \in DOMAIN results : results[i].title # NoTitle /\ results[i].part # <<>>}

\* Mutant: the predicted title as a filter.
select_best_candidate_Filter(results, predicted) ==
    LET pool == {i \in UsableHits(results) :
                    predicted = NoTitle \/ results[i].title = predicted}
    IN  IF pool = {} THEN 0 ELSE First(pool)

\* _select_best_candidate: the rank of the hit, 0 for none. The predicted title is
\* a preference and no filter.
select_best_candidate(results, predicted) ==
    LET usable == UsableHits(results)
        preferred == {i \in usable : predicted # NoTitle /\ results[i].title = predicted}
        pool == IF preferred = {} THEN usable ELSE preferred
    IN  IF pool = {} THEN 0 ELSE First(pool)

\* A section number that begins with its part.
Qualified(part, section) == Len(section) > 1 /\ SubSeq(section, 1, 1) = part

\* _format_citation, without the title; the number of the section is its last part.
format_citation(part, section) ==
    CASE section = <<>> -> part
      [] section # <<>> /\ (section = part \/ Qualified(part, section)) -> section
      [] OTHER -> part \o section
=============================================================================
