------------------------------ MODULE ReportFiles ------------------------------
(***************************************************************************)
(* The filesystem backend: reports saved by agent/reporting.py into one    *)
(* directory, and the history page that agent/persistence/                 *)
(* file_repository.py reads from it, page after page, while other          *)
(* processes save.                                                         *)
(*                                                                         *)
(* A handler never awaits while it works on files, so that one process     *)
(* does one thing at a time; the steps interleave with those of other      *)
(* processes. A temporary file is its saver's alone, since the listing     *)
(* looks for *.json only, and what a saver that died left behind is        *)
(* truncated by the next save of the name: it is the stage of its saver.   *)
(***************************************************************************)
EXTENDS Naturals, FiniteSets

CONSTANTS
    Processes,
    Ids,        \* report names, as numbers in the order of the names
    Limit,      \* reports on a page
    MaxSaves,   \* bound on the saves of one report
    None

ASSUME IdsAssumption == Ids \subseteq Nat /\ IsFiniteSet(Ids)
ASSUME LimitAssumption == Limit \in Nat \ {0} /\ MaxSaves \in Nat
ASSUME NoneAssumption == None \notin [version : Nat, flagged : BOOLEAN]

\* A report that was written to its end: which save wrote it, and whether it
\* counts a clause of the status that the page filters for.
Contents == [version : 1..MaxSaves, flagged : BOOLEAN]

\* The bytes of a file that was opened for writing and is not complete.
Torn == [version |-> 0, flagged |-> FALSE]

VARIABLES
    file,   \* the *.json files
    saver,  \* the save a process is in: name, content and what is in its file
    saves,  \* how often each report was saved, or was begun to be
    walk    \* a reader who goes through the pages of the history

vars == <<file, saver, saves, walk>>

Walks ==
    [stage : {"idle", "list", "count", "shown"},
     filter : BOOLEAN,          \* status is given
     offset : Nat,
     names : SUBSET Ids,        \* files found and not yet read
     hits : SUBSET Ids,         \* reports read that match
     seen : SUBSET Ids,         \* reports shown so far
     due : SUBSET Ids]          \* reports there when the reader began

TypeOK ==
    /\ file \in [Ids -> Contents \cup {None}]
    /\ saver \in [Processes -> [id : Ids, content : Contents,
                                written : BOOLEAN] \cup {None}]
    /\ saves \in [Ids -> 0..MaxSaves]
    /\ walk \in Walks

Idle == [stage |-> "idle", filter |-> FALSE, offset |-> 0,
         names |-> {}, hits |-> {}, seen |-> {}, due |-> {}]

Init ==
    /\ file = [i \in Ids |-> None]
    /\ saver = [p \in Processes |-> None]
    /\ saves = [i \in Ids |-> 0]
    /\ walk = Idle

-----------------------------------------------------------------------------
(* save_report *)

\* One save of a name at a time: the API gives every analysis a new id, and an
\* analysis is run again after the run before.
NameFree(i) == \A p \in Processes : saver[p] # None => saver[p].id # i

\* Mutant: the report is written where it is to be found.
OpenFile_InPlace(i) == file' = [file EXCEPT ![i] = Torn]

\* The temporary file is opened, and emptied; the report stays as it is.
OpenFile(i) == UNCHANGED file

\* save_report up to the opened temporary file.
BeginSave(p, i, flagged) ==
    /\ saver[p] = None
    /\ NameFree(i)
    /\ saves[i] < MaxSaves
    /\ saves' = [saves EXCEPT ![i] = @ + 1]
    /\ saver' = [saver EXCEPT ![p] =
           [id |-> i, content |-> [version |-> saves[i] + 1, flagged |-> flagged],
            written |-> FALSE]]
    /\ OpenFile(i)
    /\ UNCHANGED walk

WriteFile(p) ==
    /\ saver[p] # None /\ ~saver[p].written
    /\ saver' = [saver EXCEPT ![p].written = TRUE]
    /\ UNCHANGED <<file, saves, walk>>

\* os.replace, and save_report returns.
ReplaceFile(p) ==
    /\ saver[p] # None /\ saver[p].written
    /\ file' = [file EXCEPT ![saver[p].id] = saver[p].content]
    /\ saver' = [saver EXCEPT ![p] = None]
    /\ UNCHANGED <<saves, walk>>

\* Mutant: a failed save removes the report too.
Abandon_Removes(p) ==
    /\ saver[p] # None
    /\ file' = [file EXCEPT ![saver[p].id] = None]
    /\ saver' = [saver EXCEPT ![p] = None]
    /\ UNCHANGED <<saves, walk>>

\* The process dies and starts again, or the disk fails the save: the API logs it.
Abandon(p) ==
    /\ saver[p] # None
    /\ saver' = [saver EXCEPT ![p] = None]
    /\ UNCHANGED <<file, saves, walk>>

-----------------------------------------------------------------------------
(* list_analyses, then count_analyses, as one page *)

\* glob("*.json")
Found == {i \in Ids : file[i] # None}

\* A file that does not parse is skipped, and so is one the filter rules out.
Matches(i) == file[i] # Torn /\ (walk.filter => file[i].flagged)

\* How many reports of hits are listed before i: the last name comes first.
Before(hits, i) == Cardinality({j \in hits : j > i})

\* sorted(reverse=True) and [offset : offset + limit]
PageOf(hits, offset) == {i \in hits : Before(hits, i) \in offset..(offset + Limit - 1)}

\* Another reader takes the place of one who goes away.
OpenFirstPage(filter) ==
    /\ walk.stage \in {"idle", "shown"}
    /\ walk' = [Idle EXCEPT !.stage = "list", !.filter = filter,
                            !.names = Found, !.due = Found]
    /\ UNCHANGED <<file, saver, saves>>

\* Mutant: the total of the first page is kept.
HasNext_FirstTotal == walk.offset + Limit < Cardinality(walk.due)

\* has_next: the reader follows the link to next_offset.
HasNext == walk.offset + Limit < Cardinality(walk.hits)

OpenNextPage ==
    /\ walk.stage = "shown" /\ HasNext
    /\ walk' = [walk EXCEPT !.stage = "list", !.offset = @ + Limit,
                            !.names = Found, !.hits = {}]
    /\ UNCHANGED <<file, saver, saves>>

ReadFile(i) ==
    /\ i \in walk.names
    /\ walk' = [walk EXCEPT !.names = @ \ {i},
                            !.hits = IF Matches(i) THEN @ \cup {i} ELSE @]
    /\ UNCHANGED <<file, saver, saves>>

\* Listing reads by name, the last first; counting in the order of the directory.
InTurn(i) == walk.stage = "list" => \A j \in walk.names : j <= i

\* The page is cut and its reports are to be counted.
CountReports ==
    /\ walk.stage = "list" /\ walk.names = {}
    /\ walk' = [walk EXCEPT !.stage = "count", !.names = Found, !.hits = {},
                            !.seen = @ \cup PageOf(walk.hits, walk.offset)]
    /\ UNCHANGED <<file, saver, saves>>

ShowPage ==
    /\ walk.stage = "count" /\ walk.names = {}
    /\ walk' = [walk EXCEPT !.stage = "shown"]
    /\ UNCHANGED <<file, saver, saves>>

Save(p) ==
    \/ \E i \in Ids, flagged \in BOOLEAN : BeginSave(p, i, flagged)
    \/ WriteFile(p)
    \/ ReplaceFile(p)
    \/ Abandon(p)

Read ==
    \/ \E filter \in BOOLEAN : OpenFirstPage(filter)
    \/ OpenNextPage
    \/ \E i \in Ids : InTurn(i) /\ ReadFile(i)
    \/ CountReports
    \/ ShowPage

Next == Read \/ \E p \in Processes : Save(p)

Spec == Init /\ [][Next]_vars
-----------------------------------------------------------------------------
(* Properties *)

\* "a crash or a repeated analysis can never corrupt an existing report"
\* (reporting.py:18-19): a report that can be read stays, and a later save of it
\* is all that can take its place, wherever savers die. That what can be read is
\* whole is TypeOK's first conjunct.
ReportsNeverGoBack ==
    [][\A i \in Ids : file[i] # None =>
          file'[i] \in Contents /\ file'[i].version >= file[i].version]_vars

\* A reader who goes from page to page until there is no next one has seen every
\* report that was there when they began, although saves by other processes move
\* reports from page to page, and although the page and the total that says
\* whether there is a next one are read one after the other (api.py:1065-1068,
\* dashboard.py:219-224). Not so with a filter: a report that is saved again may
\* leave the selection, and moves the others to a page already seen.
WalkSeesEverything ==
    walk.stage = "shown" /\ ~HasNext /\ ~walk.filter => walk.due \subseteq walk.seen
\* The files found by the scan a reader is in, or was last in.
Scanned == walk.names \cup walk.hits

\* Why: in the last scan, what is due and was not seen comes after the pages shown.
Unseen ==
    walk.stage # "idle" /\ ~walk.filter =>
        /\ walk.due \subseteq Scanned
        /\ Scanned \subseteq Found
        /\ \A i \in walk.due \ walk.seen :
               Before(Scanned, i) >=
                   IF walk.stage = "list" THEN walk.offset ELSE walk.offset + Limit

\* No save is older than the report it is to replace.
SavesAreNewer ==
    /\ \A i \in Ids : file[i] # None => file[i].version <= saves[i]
    /\ \A p \in Processes : saver[p] # None =>
           LET i == saver[p].id
           IN  /\ saver[p].content.version = saves[i]
               /\ file[i] # None => file[i].version < saves[i]
    /\ \A p, q \in Processes :
           p # q /\ saver[p] # None /\ saver[q] # None => saver[p].id # saver[q].id

IInv ==
    /\ TypeOK
    /\ SavesAreNewer
    /\ walk.stage = "shown" => walk.names = {}
    /\ Unseen
=============================================================================
