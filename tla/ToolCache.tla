------------------------------ MODULE ToolCache ------------------------------
(***************************************************************************)
(* The tools of the MCP server: cached_call over a CacheBackend with a TTL *)
(* (tools/_common.py, cache/cache_backend.py) in front of the two process- *)
(* lifetime caches of EcfrClient (the latest date of a title and whole-    *)
(* title documents, clients/ecfr_client.py).                               *)
(*                                                                         *)
(* One title, and one set of arguments of each tool. A tool either         *)
(* resolves a date, cites it and asks for the content of that date, or     *)
(* asks for what eCFR has now. Between two awaits a task runs alone, so an *)
(* action is what runs from one answer of eCFR to the next request. What   *)
(* is in force on a date is identified by the date.                        *)
(***************************************************************************)
EXTENDS Naturals, FiniteSets

CONSTANTS
    Calls,      \* tasks that call a tool, again and again
    Tools,      \* the tools called, of those below
    Asked,      \* the dates they are called with, None for "latest"
    MaxDate,    \* issue dates eCFR publishes while the server runs
    TTL,        \* cache_ttl_seconds, in clock ticks
    None

ASSUME ConstantsAssumption ==
    /\ IsFiniteSet(Calls)
    /\ Tools \subseteq {"section", "part", "title", "structure",
                       "search", "versions", "agencies"}
    /\ MaxDate \in Nat \ {0} /\ TTL \in Nat \ {0}
    /\ None \notin Nat /\ Asked \subseteq 1..MaxDate \cup {None}

Dates == 1..MaxDate

\* A tool's compute: whether it resolves a date for its request, and whether the
\* client keeps the document it gets.
retrieve_section    == [dated |-> TRUE,  kept |-> FALSE]
retrieve_part       == [dated |-> TRUE,  kept |-> FALSE]
retrieve_title      == [dated |-> TRUE,  kept |-> TRUE]
get_title_structure == [dated |-> TRUE,  kept |-> FALSE]
perform_search      == [dated |-> FALSE, kept |-> FALSE]
get_version_history == [dated |-> FALSE, kept |-> FALSE]
list_agencies       == [dated |-> FALSE, kept |-> FALSE]

Compute ==
    [section   |-> retrieve_section,    part     |-> retrieve_part,
     title     |-> retrieve_title,      search   |-> perform_search,
     structure |-> get_title_structure, versions |-> get_version_history,
     agencies  |-> list_agencies]

\* build_cache_key: the tool and the date as the caller gave it, None for "latest".
Keys == {k \in [tool : Tools, date : Asked] : Compute[k.tool].dated \/ k.date = None}

\* An answer of a tool that resolves no date cites none.
Answers == [cited : Dates \cup {None}, text : Dates]

VARIABLES
    published,  \* up_to_date_as_of of the title, at eCFR
    latestDate, \* _latest_date_cache[title], None before the first titles index
    titleXml,   \* _full_title_xml_cache[title, d]: "none", "good" or "bad" XML
    store,      \* _store of the cache: the entries in force, with their age
    pc, key,    \* where each call is, and the key it computes
    index,      \* the date of the titles index, or reply, on its way to a call
    cited,      \* resolved_date of a call
    result,     \* what a call returned
    failed      \* whether an eCFR request of the call itself failed (history)

vars == <<published, latestDate, titleXml, store, pc, key, index, cited,
          result, failed>>

Entries == [answer : Answers, age : 0..TTL]

TypeOK ==
    /\ published \in Dates
    /\ latestDate \in Dates \cup {None}
    /\ titleXml \in [Dates -> {"none", "good", "bad"}]
    /\ store \in [Keys -> Entries \cup {None}]
    /\ pc \in [Calls -> {"idle", "titles", "index", "xml", "plain", "reply",
                        "done", "error"}]
    /\ key \in [Calls -> Keys \cup {None}]
    /\ index \in [Calls -> Dates \cup {None}]
    /\ cited \in [Calls -> Dates \cup {None}]
    /\ result \in [Calls -> Answers \cup {None}]
    /\ failed \in [Calls -> BOOLEAN]

\* The server has just started; eCFR is up to date as of date 1.
Init ==
    /\ published = 1
    /\ latestDate = None
    /\ titleXml = [d \in Dates |-> "none"]
    /\ store = [k \in Keys |-> None]
    /\ pc = [c \in Calls |-> "idle"]
    /\ key = [c \in Calls |-> None]
    /\ index = [c \in Calls |-> None]
    /\ cited = [c \in Calls |-> None]
    /\ result = [c \in Calls |-> None]
    /\ failed = [c \in Calls |-> FALSE]

-----------------------------------------------------------------------------
(* The end of a call *)

\* Mutant: a failing cache.set fails the call.
Write_Strict(c, k, answer) ==
    \/ /\ store' = [store EXCEPT ![k] = [answer |-> answer, age |-> 0]]
       /\ pc' = [pc EXCEPT ![c] = "done"]
       /\ result' = [result EXCEPT ![c] = answer]
    \/ /\ pc' = [pc EXCEPT ![c] = "error"]
       /\ UNCHANGED <<store, result>>

\* The computed answer is stored, unless the cache fails, and returned.
Write(c, k, answer) ==
    /\ pc' = [pc EXCEPT ![c] = "done"]
    /\ result' = [result EXCEPT ![c] = answer]
    /\ \/ store' = [store EXCEPT ![k] = [answer |-> answer, age |-> 0]]
       \/ UNCHANGED store

\* Mutant: the error response is cached like an answer.
Raise_Cached(c, k) ==
    /\ pc' = [pc EXCEPT ![c] = "error"]
    /\ store' = [store EXCEPT ![k] = [answer |-> None, age |-> 0]]
    /\ UNCHANGED result

\* Nothing is stored: the tool turns the exception into an error response.
Raise(c, k) ==
    /\ pc' = [pc EXCEPT ![c] = "error"]
    /\ UNCHANGED <<store, result>>

\* The document of date d is parsed for a call that cites date r.
Parse(c, k, xml, d, r) ==
    IF xml = "good" THEN Write(c, k, [cited |-> r, text |-> d]) ELSE Raise(c, k)

\* resolve_date gave r. The client resolves the date again, on the spot and with
\* the same result, and asks for the text, or has the whole title already.
Resolved(c, k, r) ==
    /\ cited' = [cited EXCEPT ![c] = r]
    /\ IF Compute[k.tool].kept /\ titleXml[r] # "none"
       THEN Parse(c, k, titleXml[r], r, r)
       ELSE /\ pc' = [pc EXCEPT ![c] = "xml"]
            /\ UNCHANGED <<store, result>>

-----------------------------------------------------------------------------
(* A call *)

Begin(c, k) ==
    /\ pc[c] = "idle"
    /\ key' = [key EXCEPT ![c] = k]
    /\ UNCHANGED <<published, latestDate, titleXml, failed>>

\* A hit: no request at all.
Hit(c, k) ==
    /\ store[k] # None
    /\ Begin(c, k)
    /\ pc' = [pc EXCEPT ![c] = "done"]
    /\ result' = [result EXCEPT ![c] = store[k].answer]
    /\ UNCHANGED <<store, index, cited>>

\* A miss, or a cache that cannot be read; with a date, or a latest date known.
MissDated(c, k) ==
    LET d == IF k.date # None THEN k.date ELSE latestDate
    IN  /\ Begin(c, k)
        /\ Compute[k.tool].dated /\ d # None
        /\ Resolved(c, k, d)
        /\ UNCHANGED index

\* A miss without either: the titles index is asked for.
MissUndated(c, k) ==
    /\ Begin(c, k)
    /\ Compute[k.tool].dated /\ k.date = None /\ latestDate = None
    /\ pc' = [pc EXCEPT ![c] = "titles"]
    /\ UNCHANGED <<store, index, cited, result>>

\* A miss of a tool that resolves no date: its one request is sent.
MissPlain(c, k) ==
    /\ Begin(c, k)
    /\ ~Compute[k.tool].dated
    /\ pc' = [pc EXCEPT ![c] = "plain"]
    /\ UNCHANGED <<store, index, cited, result>>

\* eCFR answers with the index, or the reply, of this moment...
ReplyLeaves(c) ==
    /\ pc[c] \in {"titles", "plain"}
    /\ index' = [index EXCEPT ![c] = published]
    /\ pc' = [pc EXCEPT ![c] = IF pc[c] = "titles" THEN "index" ELSE "reply"]
    /\ UNCHANGED <<published, latestDate, titleXml, store, key, cited,
                   result, failed>>

\* ...which may arrive after a newer one did: it is cached all the same.
IndexArrives(c) ==
    /\ pc[c] = "index"
    /\ latestDate' = index[c]
    /\ index' = [index EXCEPT ![c] = None]
    /\ Resolved(c, key[c], index[c])
    /\ UNCHANGED <<published, titleXml, key, failed>>

\* A plain reply arrives, and is JSON or not; it too may be older than the entry
\* it replaces.
ReplyArrives(c, json) ==
    /\ pc[c] = "reply"
    /\ index' = [index EXCEPT ![c] = None]
    /\ failed' = [failed EXCEPT ![c] = json = "bad"]
    /\ Parse(c, key[c], json, index[c], None)
    /\ UNCHANGED <<published, latestDate, titleXml, key, cited>>

\* Mutant: the date to cite is resolved after the text has arrived.
XmlArrives_CitesLatest(c, xml) ==
    /\ pc[c] = "xml" /\ cited[c] <= published
    /\ titleXml' = IF Compute[key[c].tool].kept
                   THEN [titleXml EXCEPT ![cited[c]] = xml]
                   ELSE titleXml
    /\ failed' = [failed EXCEPT ![c] = xml = "bad"]
    /\ Parse(c, key[c], xml, cited[c],
             IF key[c].date # None THEN key[c].date ELSE latestDate)
    /\ UNCHANGED <<published, latestDate, key, index, cited>>

\* The text, or structure, of the cited date arrives, as eCFR has it or cut short.
\* A whole title is kept before anybody has parsed it.
XmlArrives(c, xml) ==
    /\ pc[c] = "xml" /\ cited[c] <= published
    /\ titleXml' = IF Compute[key[c].tool].kept
                   THEN [titleXml EXCEPT ![cited[c]] = xml]
                   ELSE titleXml
    /\ failed' = [failed EXCEPT ![c] = xml = "bad"]
    /\ Parse(c, key[c], xml, cited[c], cited[c])
    /\ UNCHANGED <<published, latestDate, key, index, cited>>

\* The request fails, after the retries of HttpClient.
RequestFails(c) ==
    /\ pc[c] \in {"titles", "xml", "plain"}
    /\ failed' = [failed EXCEPT ![c] = TRUE]
    /\ Raise(c, key[c])
    /\ UNCHANGED <<published, latestDate, titleXml, key, index, cited>>

\* The caller has its response and may call again.
Return(c) ==
    /\ pc[c] \in {"done", "error"}
    /\ pc' = [pc EXCEPT ![c] = "idle"]
    /\ key' = [key EXCEPT ![c] = None]
    /\ cited' = [cited EXCEPT ![c] = None]
    /\ result' = [result EXCEPT ![c] = None]
    /\ failed' = [failed EXCEPT ![c] = FALSE]
    /\ UNCHANGED <<published, latestDate, titleXml, store, index>>

-----------------------------------------------------------------------------
(* eCFR and the clock *)

Publish ==
    /\ published < MaxDate
    /\ published' = published + 1
    /\ UNCHANGED <<latestDate, titleXml, store, pc, key, index, cited,
                   result, failed>>

\* The clock of a cache: an entry older than its TTL is a miss for every get, so
\* it goes at once here, where the code deletes it when it is next read.
Aged(e) ==
    IF e = None \/ e.age = TTL THEN None ELSE [e EXCEPT !.age = @ + 1]

Tick ==
    /\ store' = [k \in Keys |-> Aged(store[k])]
    /\ UNCHANGED <<published, latestDate, titleXml, pc, key, index, cited,
                   result, failed>>

CallStep(c) ==
    \/ \E k \in Keys :
            Hit(c, k) \/ MissDated(c, k) \/ MissUndated(c, k) \/ MissPlain(c, k)
    \/ ReplyLeaves(c) \/ IndexArrives(c)
    \/ \E xml \in {"good", "bad"} : XmlArrives(c, xml) \/ ReplyArrives(c, xml)
    \/ RequestFails(c) \/ Return(c)

Next == Publish \/ Tick \/ \E c \in Calls : CallStep(c)

Spec == Init /\ [][Next]_vars

-----------------------------------------------------------------------------
(* Properties *)

Answered(c) == pc[c] = "done"

\* An answer is true to a key when it cites the date its text was in force, which
\* is the date that was asked for.
IsTrue(answer, k) ==
    Compute[k.tool].dated =>
        answer.cited = answer.text /\ k.date \in {None, answer.cited}

\* Responses and cache entries cite the date of their content, however index
\* answers and cache writes of several calls overlap (compute,
\* retrieve_section.py:61-75 and retrieve_title.py:65-74).
CitationIsTrue ==
    /\ \A c \in Calls : Answered(c) => IsTrue(result[c], key[c])
    /\ \A k \in Keys : store[k] # None => IsTrue(store[k].answer, k)

\* A call fails only if a request of its own failed, never because of a cache
\* ("never a correctness dependency", _common.py:13-15); the exception is a
\* whole title, when an unparsable document of it is in _full_title_xml_cache.
FailuresAreUpstream ==
    [][\A c \in Calls : pc'[c] = "error" /\ pc[c] # "error" =>
            \/ failed'[c]
            \/ Compute[key'[c].tool].kept /\ titleXml[cited'[c]] = "bad"]_vars
=============================================================================
