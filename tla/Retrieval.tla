------------------------------ MODULE Retrieval ------------------------------
(***************************************************************************)
(* How the regulation of a clause is found: retrieve_for_clause and        *)
(* _retrieve_text (agent/mcp_search.py) over the MCP tools                 *)
(* search_regulations, retrieve_section and retrieve_part, and how other   *)
(* clients call these tools and retrieve_title. eCFR may answer a search   *)
(* with any hits and a fetch with any document, whatever it was asked for. *)
(***************************************************************************)
EXTENDS CfrQuery, XmlTree

CONSTANTS
    Texts,          \* clauses: title and body
    ResultLists,    \* what a search may answer
    Requests,       \* what other clients ask for
    Documents,      \* what a fetch may answer
    Titles          \* the titles that int() and the tools accept

Words == [word : STRING, then : {"space", "hyphen", "break"}]
Hits == [title : STRING, part : Seq(STRING), section : Seq(STRING)]

ASSUME RetrievalAssumption ==
    /\ Texts \subseteq Seq(Words)
    /\ ResultLists \subseteq Seq(Hits)
    /\ Requests \subseteq [part : Seq(STRING), section : Seq(STRING)]
    /\ \A request \in Requests : request.part = NoNumber => request.section = NoNumber
    /\ Documents \subseteq Seq(Elements) /\ <<>> \notin Documents
    /\ DOMAIN_RULES \in Seq([title : Titles, keywords : Seq(Seq(STRING))])
    /\ NoTitle \notin Titles
    /\ MaxQueryChars \in Nat

VARIABLES
    place,      \* where the retrieval is
    text,       \* the clause, <<>> once its search has been answered
    query,      \* search_query
    predicted,  \* the predicted title
    results,    \* the ranked results of the search, <<>> once one is chosen
    asked,      \* the part and section to fetch
    document,   \* what eCFR returned, <<>> before that
    answer      \* what the parser made of it

retrievalVars == <<place, text, query, predicted, results, asked, document, answer>>

WholeTitle == [part |-> NoNumber, section |-> NoNumber]
NoAnswer == [ok |-> FALSE, text |-> <<>>, heading |-> 0]

RetrievalTypeOK ==
    /\ place \in {"idle", "search", "select", "fetch", "done", "error"}
    /\ text \in Seq(Words) /\ (text # <<>> => place = "search")
    /\ query \in Seq(Seq(STRING))
    /\ predicted \in Titles \cup {NoTitle}
    /\ results \in Seq(Hits) /\ (results # <<>> => place = "select")
    /\ asked \in [part : Seq(STRING), section : Seq(STRING)]
    /\ asked.part = NoNumber => asked.section = NoNumber
    /\ asked # WholeTitle => place \in {"fetch", "done", "error"}
    /\ document # <<>> => place \in {"done", "error"}
    /\ answer.heading \in 0..Len(document)
    /\ place = "done" <=> answer.ok

RetrievalInit ==
    /\ place = "idle"
    /\ text = <<>> /\ query = <<>> /\ predicted = NoTitle /\ results = <<>>
    /\ asked = WholeTitle /\ document = <<>> /\ answer = NoAnswer

-----------------------------------------------------------------------------
(* A clause *)

\* The optimizer reads the clause itself; the keyword query is its fallback.
BuildQuery(clause) ==
    LET optimized == optimize_clause(clause, build_search_query(clause))
    IN  /\ place = "idle"
        /\ place' = "search"
        /\ text' = clause
        /\ query' = optimized.query
        /\ predicted' = optimized.title
        /\ UNCHANGED <<results, asked, document, answer>>

Fail ==
    /\ place' = "error"
    /\ text' = <<>> /\ query' = <<>> /\ predicted' = NoTitle /\ results' = <<>>
    /\ UNCHANGED <<asked, document, answer>>

\* The tool refuses an empty query, or the search fails.
SearchFails ==
    /\ place = "search"
    /\ Fail

SearchAnswers(hits) ==
    /\ place = "search"
    /\ query # <<>>
    /\ place' = "select"
    /\ text' = <<>> /\ query' = <<>>
    /\ results' = hits
    /\ UNCHANGED <<predicted, asked, document, answer>>

\* No result, none that is usable, or the best one has a title that is no number.
NoCandidate ==
    LET best == select_best_candidate(results, predicted)
    IN  /\ place = "select"
        /\ best # 0 => results[best].title \notin Titles
        /\ Fail

Choose ==
    LET best == select_best_candidate(results, predicted)
    IN  /\ place = "select"
        /\ best # 0 /\ results[best].title \in Titles
        /\ place' = "fetch"
        /\ asked' = [part |-> results[best].part, section |-> results[best].section]
        /\ predicted' = NoTitle /\ results' = <<>>
        /\ UNCHANGED <<text, query, document, answer>>

-----------------------------------------------------------------------------
(* A tool *)

\* retrieve_title, retrieve_part or retrieve_section is called.
CallTool(request) ==
    /\ place = "idle"
    /\ place' = "fetch"
    /\ asked' = request
    /\ UNCHANGED <<text, query, predicted, results, document, answer>>

\* EcfrClient.retrieve_section: the section that eCFR is asked for.
qualified_section(part, section) ==
    IF Qualified(part, section) THEN section ELSE part \o section

\* The request fails, or its answer is empty or no XML.
FetchFails ==
    /\ place = "fetch"
    /\ Fail

\* The document is parsed; without the text that was asked for the tool fails.
FetchAnswers(doc) ==
    /\ place = "fetch"
    /\ document' = doc
    /\ answer' = parse_regulation_xml(doc, asked.part, asked.section)
    /\ place' = IF answer'.ok THEN "done" ELSE "error"
    /\ UNCHANGED <<text, query, predicted, results, asked>>

ReturnText ==
    /\ place \in {"done", "error"}
    /\ place' = "idle"
    /\ asked' = WholeTitle /\ document' = <<>> /\ answer' = NoAnswer
    /\ UNCHANGED <<text, query, predicted, results>>

RetrievalNext ==
    \/ \E clause \in Texts : BuildQuery(clause)
    \/ SearchFails \/ \E hits \in ResultLists : SearchAnswers(hits)
    \/ NoCandidate \/ Choose
    \/ \E request \in Requests : CallTool(request)
    \/ FetchFails \/ \E doc \in Documents : FetchAnswers(doc)
    \/ ReturnText

RetrievalSpec == RetrievalInit /\ [][RetrievalNext]_retrievalVars

-----------------------------------------------------------------------------
(* Properties *)

WordsOf(clause) == [i \in DOMAIN clause |-> clause[i].word]

\* The keywords of a domain that a clause has.
Found(r, clause) ==
    {k \in DOMAIN DOMAIN_RULES[r].keywords : OccursIn(DOMAIN_RULES[r].keywords[k], clause)}

\* The query is made of words of the clause, and does not lose what the domain
\* was recognised by: each keyword found is a phrase of it or part of a longer
\* one, so a clause of a domain never ends up with an empty query, which the tool
\* refuses; no other domain had more (optimize_clause, _dedupe_contained).
QueryIsFaithful ==
    place = "search" =>
        /\ \A i \in DOMAIN query : Within(query[i], WordsOf(text))
        /\ predicted = NoTitle => \A r \in DOMAIN DOMAIN_RULES : Found(r, text) = {}
        /\ predicted # NoTitle => \E r \in DOMAIN DOMAIN_RULES :
            /\ DOMAIN_RULES[r].title = predicted
            /\ \A k \in Found(r, text) : \E i \in DOMAIN query :
                  Within(DOMAIN_RULES[r].keywords[k], query[i])
            /\ \A s \in DOMAIN DOMAIN_RULES :
                  Cardinality(Found(s, text)) <= Cardinality(Found(r, text))

\* What a search hit must have to be fetched.
HasPart(hit) == hit.title # NoTitle /\ hit.part # NoNumber

\* "Never hard-fails on a title mismatch": a clause is given up on only when no hit
\* can be fetched, or the one chosen has a title that is no number; a hit ranked
\* above the one fetched is passed over only because it cannot be fetched, or
\* because it lacks the predicted title and the one fetched has it; and one with the
\* predicted title is never passed over for one without (_select_best_candidate,
\* retrieve_for_clause).
HintNeverCosts ==
    [][place = "select" =>
        LET fetchable == {k \in DOMAIN results : HasPart(results[k])}
            hinted == {k \in fetchable : results[k].title = predicted}
        IN  /\ place' = "error" => \/ fetchable = {}
                               \/ \E i \in fetchable : results[i].title \notin Titles
            /\ place' = "fetch" => \E i \in fetchable :
                  /\ asked' = [part |-> results[i].part, section |-> results[i].section]
                  /\ \A k \in fetchable : k < i => k \notin hinted /\ i \in hinted
                  /\ hinted # {} => i \in hinted]_retrievalVars

\* The text that is returned under a citation is all the text of that part or
\* section and no other, in reading order, with its own heading, and a document
\* that has such a text is not refused (xml_parser.py:21-35: "never a silent
\* fallback to unrelated content"; retrieve_section.py:41: "the exact legal text
\* of one CFR section").
TextIsExact ==
    document # <<>> =>
        LET cited == format_citation(asked.part, asked.section)
            units == IF asked = WholeTitle THEN {1}
                     ELSE Units(document, IF asked.section = NoNumber THEN "PART"
                                          ELSE "SECTION", cited)
        IN  /\ asked.section # NoNumber =>
                  cited = qualified_section(asked.part, asked.section)
            /\ ~answer.ok => \A i \in units : ExactText(document, i) = <<>>
            /\ answer.ok => \E i \in units :
                  /\ answer.text = ExactText(document, i)
                  /\ Heads(document, i) # {} =>
                        answer.heading = First(Heads(document, i))

\* A document as eCFR structures them, but for markup inside paragraphs: one root;
\* text only in elements that hold no others and none after an end tag; a heading
\* opens its element and says something; every number once, and the sections of a
\* part in that part.
Regular(doc) ==
    /\ Subtree(doc, 1) = DOMAIN doc
    /\ \A k \in DOMAIN doc : ~doc[k].tail /\ (doc[k].text => Subtree(doc, k) = {k})
    /\ \A k \in DOMAIN doc : Heads(doc, k) # {} =>
          First(Heads(doc, k)) = k + 1 /\ doc[k + 1].text
    /\ \A kind \in {"PART", "SECTION"} : \A k, m \in DOMAIN doc :
          node_number(doc, k, kind) = node_number(doc, m, kind) =>
              k = m \/ node_number(doc, k, kind) = NoNumber
    /\ \A k, m \in DOMAIN doc :
          LET part == node_number(doc, k, "PART")
          IN  part # NoNumber /\ Qualified(part, node_number(doc, m, "SECTION"))
                  => m \in Subtree(doc, k)

\* A section is given by its own number or with its part in front, which is one number.
Proper(part, section) ==
    section # NoNumber =>
        /\ Len(part) = 1 /\ section # part
        /\ Len(section) = 1 \/ Qualified(part, section)

\* Regulations without irregularities: then TextIsExact holds whatever they are.
RegularRegulations ==
    /\ \A doc \in Documents : Regular(doc)
    /\ \A request \in Requests : Proper(request.part, request.section)
    /\ \A hits \in ResultLists : \A i \in DOMAIN hits :
          HasPart(hits[i]) => Proper(hits[i].part, hits[i].section)
=============================================================================
