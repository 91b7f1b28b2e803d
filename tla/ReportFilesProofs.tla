--------------------------- MODULE ReportFilesProofs ---------------------------
(***************************************************************************)
(* Theorems about ReportFiles, for any number of reports and processes and *)
(* any size of a page: the positions of reports in a list first, then the  *)
(* invariant, savers and reader one after the other.                       *)
(***************************************************************************)
EXTENDS ReportFiles, FiniteSetTheorems, TLAPS

-----------------------------------------------------------------------------
(* Positions *)

\* A position is a number, and no report stands behind all.
LEMMA PositionType ==
    ASSUME NEW hits \in SUBSET Ids, NEW i \in hits
    PROVE  /\ Before(hits, i) \in Nat
           /\ Cardinality(hits) \in Nat
           /\ Before(hits, i) < Cardinality(hits)
  <1> DEFINE later == {j \in hits : j > i}
  <1>1. IsFiniteSet(hits)
    BY FS_Subset, IdsAssumption DEF IdsAssumption
  <1>2. later \in SUBSET hits /\ i \notin later
    BY IdsAssumption DEF IdsAssumption
  <1> HIDE DEF later
  <1>3. /\ IsFiniteSet(later) /\ Cardinality(later) <= Cardinality(hits)
        /\ Cardinality(later) # Cardinality(hits)
    BY <1>1, <1>2, FS_Subset
  <1>4. Cardinality(later) \in Nat /\ Cardinality(hits) \in Nat
    BY <1>1, <1>3, FS_CardinalityType
  <1> QED
    BY <1>3, <1>4 DEF Before, later

\* More files can only move a report further down.
LEMMA PositionGrows ==
    ASSUME NEW more \in SUBSET Ids, NEW hits \in SUBSET more, NEW i \in hits
    PROVE  Before(hits, i) <= Before(more, i)
  <1> DEFINE later(s) == {j \in s : j > i}
  <1>1. IsFiniteSet(more)
    BY FS_Subset, IdsAssumption DEF IdsAssumption
  <1>2. later(more) \in SUBSET more /\ later(hits) \in SUBSET later(more)
    OBVIOUS
  <1> HIDE DEF later
  <1>3. IsFiniteSet(later(more))
    BY <1>1, <1>2, FS_Subset
  <1>4. Cardinality(later(hits)) <= Cardinality(later(more))
    BY <1>2, <1>3, FS_Subset
  <1> QED
    BY <1>4 DEF Before, later

\* What is on no earlier page and not on this one comes after it.
LEMMA NotOnPage ==
    ASSUME NEW hits \in SUBSET Ids, NEW i \in hits, NEW offset \in Nat,
           Before(hits, i) >= offset, i \notin PageOf(hits, offset)
    PROVE  Before(hits, i) >= offset + Limit
  <1>1. Before(hits, i) \in Nat
    BY PositionType
  <1>2. Before(hits, i) \notin offset..(offset + Limit - 1)
    BY DEF PageOf
  <1> QED
    BY <1>1, <1>2, LimitAssumption DEF LimitAssumption

-----------------------------------------------------------------------------
(* The invariant *)

LEMMA InitInvariant == Init => IInv
  <1> SUFFICES ASSUME Init PROVE IInv
    OBVIOUS
  <1>1. TypeOK
    BY LimitAssumption DEF LimitAssumption, Init, TypeOK, Walks, Idle
  <1>2. SavesAreNewer
    BY DEF Init, SavesAreNewer
  <1>3. walk.stage = "idle"
    BY DEF Init, Idle
  <1> QED
    BY <1>1, <1>2, <1>3 DEF IInv, Unseen

\* Savers: what they hold is newer than what is there, and nobody else holds it.
LEMMA SaveKeepsNewer ==
    ASSUME IInv, NEW p \in Processes, Save(p)
    PROVE  TypeOK' /\ SavesAreNewer'
  <1> USE NoneAssumption, LimitAssumption DEF NoneAssumption, LimitAssumption
  <1>1. TypeOK /\ SavesAreNewer
    BY DEF IInv
  <1>2. ASSUME NEW i \in Ids, NEW flagged \in BOOLEAN, BeginSave(p, i, flagged)
        PROVE  TypeOK' /\ SavesAreNewer'
    <2> DEFINE new == [id |-> i, content |-> [version |-> saves[i] + 1,
                                             flagged |-> flagged],
                       written |-> FALSE]
    <2>1. saves[i] \in Nat /\ saves[i] + 1 \in 1..MaxSaves
      BY <1>1, <1>2 DEF TypeOK, BeginSave
    <2>2. new \in [id : Ids, content : Contents, written : BOOLEAN]
      BY <2>1 DEF Contents
    <2>3. /\ saver' = [saver EXCEPT ![p] = new] /\ file' = file /\ walk' = walk
          /\ saves' = [saves EXCEPT ![i] = @ + 1]
      BY <1>2 DEF BeginSave, OpenFile
    <2>4. new.id = i /\ new.content.version = saves[i] + 1
      OBVIOUS
    <2> HIDE DEF new
    <2>5. TypeOK'
      BY <1>1, <2>1, <2>2, <2>3 DEF TypeOK
    <2>6. saver'[p] = new /\ \A q \in Processes : q # p => saver'[q] = saver[q]
      BY <1>1, <2>3 DEF TypeOK
    <2>7. saves'[i] = saves[i] + 1 /\ \A j \in Ids : j # i => saves'[j] = saves[j]
      BY <1>1, <2>3 DEF TypeOK
    <2>8. \A q \in Processes : saver[q] # None => saver[q].id \in Ids /\ saver[q].id # i
      BY <1>1, <1>2 DEF TypeOK, BeginSave, NameFree
    <2>9. \A j \in Ids : file[j] # None => file[j].version \in Nat
      BY <1>1 DEF TypeOK, Contents
    <2>10. \A j \in Ids : file'[j] # None => file'[j].version <= saves'[j]
      BY <1>1, <2>1, <2>3, <2>7, <2>9 DEF SavesAreNewer
    <2>11. \A q \in Processes : saver'[q] # None =>
             /\ saver'[q].content.version = saves'[saver'[q].id]
             /\ file'[saver'[q].id] # None =>
                    file'[saver'[q].id].version < saves'[saver'[q].id]
      <3> SUFFICES ASSUME NEW q \in Processes, saver'[q] # None
                   PROVE  /\ saver'[q].content.version = saves'[saver'[q].id]
                          /\ file'[saver'[q].id] # None =>
                                 file'[saver'[q].id].version < saves'[saver'[q].id]
        OBVIOUS
      <3>1. CASE q = p
        BY <1>1, <2>1, <2>3, <2>4, <2>6, <2>7, <2>9, <3>1 DEF SavesAreNewer
      <3>2. CASE q # p
        BY <1>1, <2>3, <2>6, <2>7, <2>8, <3>2 DEF SavesAreNewer
      <3> QED
        BY <3>1, <3>2
    <2>12. \A q, r \in Processes :
             q # r /\ saver'[q] # None /\ saver'[r] # None => saver'[q].id # saver'[r].id
      BY <1>1, <2>4, <2>6, <2>8 DEF SavesAreNewer
    <2> QED
      BY <2>5, <2>10, <2>11, <2>12 DEF SavesAreNewer
  <1>3. CASE WriteFile(p)
    <2>1. saver[p] \in [id : Ids, content : Contents, written : BOOLEAN]
      BY <1>1, <1>3 DEF TypeOK, WriteFile
    <2>2. saver' = [saver EXCEPT ![p] = [saver[p] EXCEPT !.written = TRUE]]
      BY <1>3 DEF WriteFile
    <2> DEFINE new == [saver[p] EXCEPT !.written = TRUE]
    <2>3. /\ new \in [id : Ids, content : Contents, written : BOOLEAN]
          /\ new.id = saver[p].id /\ new.content = saver[p].content
      BY <2>1
    <2> HIDE DEF new
    <2>4. saver'[p] = new /\ \A q \in Processes : q # p => saver'[q] = saver[q]
      BY <1>1, <2>2 DEF TypeOK, new
    <2>5. file' = file /\ saves' = saves /\ walk' = walk /\ saver[p] # None
      BY <1>3 DEF WriteFile
    <2>6. TypeOK'
      BY <1>1, <2>2, <2>3, <2>5 DEF TypeOK, new
    <2>7. SavesAreNewer'
      BY <1>1, <2>3, <2>4, <2>5 DEF SavesAreNewer
    <2> QED
      BY <2>6, <2>7
  <1>4. CASE ReplaceFile(p)
    <2> DEFINE i == saver[p].id
    <2>1. /\ saver[p] # None /\ file' = [file EXCEPT ![i] = saver[p].content]
          /\ saver' = [saver EXCEPT ![p] = None] /\ saves' = saves /\ walk' = walk
      BY <1>4 DEF ReplaceFile
    <2>2. i \in Ids /\ saver[p].content \in Contents
      BY <1>1, <2>1 DEF TypeOK
    <2> HIDE DEF i
    <2>3. TypeOK'
      BY <1>1, <2>1, <2>2 DEF TypeOK
    <2>4. /\ file'[i] = saver[p].content
          /\ \A j \in Ids : j # i => file'[j] = file[j]
      BY <1>1, <2>1, <2>2 DEF TypeOK
    <2>5. saver'[p] = None /\ \A q \in Processes : q # p => saver'[q] = saver[q]
      BY <1>1, <2>1 DEF TypeOK
    <2>6. saver[p].content.version = saves[i]
      BY <1>1, <2>1 DEF SavesAreNewer, i
    <2>7. saves[i] \in Nat
      BY <1>1, <2>2 DEF TypeOK
    <2>8. \A q \in Processes : q # p /\ saver[q] # None => saver[q].id \in Ids \ {i}
      BY <1>1, <2>1 DEF TypeOK, SavesAreNewer, i
    <2>9. SavesAreNewer'
      BY <1>1, <2>1, <2>2, <2>4, <2>5, <2>6, <2>7, <2>8 DEF SavesAreNewer
    <2> QED
      BY <2>3, <2>9
  <1>5. CASE Abandon(p)
    <2>1. /\ saver' = [saver EXCEPT ![p] = None]
          /\ file' = file /\ saves' = saves /\ walk' = walk
      BY <1>5 DEF Abandon
    <2>2. saver'[p] = None /\ \A q \in Processes : q # p => saver'[q] = saver[q]
      BY <1>1, <2>1 DEF TypeOK
    <2> QED
      BY <1>1, <2>1, <2>2 DEF TypeOK, SavesAreNewer
  <1> QED
    BY <1>2, <1>3, <1>4, <1>5 DEF Save

\* Savers never take a report away.
LEMMA SaveKeepsFound ==
    ASSUME IInv, NEW p \in Processes, Save(p)
    PROVE  /\ walk' = walk
           /\ Found \subseteq Found'
           /\ \A i \in Ids : file[i] # None =>
                  file'[i] \in Contents /\ file'[i].version >= file[i].version
  <1>1. TypeOK /\ SavesAreNewer
    BY DEF IInv
  <1>2. \A i \in Ids : file[i] # None => file[i] \in Contents /\ file[i].version \in Nat
    BY <1>1 DEF TypeOK, Contents
  <1>3. CASE file' = file
    BY <1>2, <1>3 DEF Save, BeginSave, WriteFile, ReplaceFile, Abandon, Found
  <1>4. CASE ReplaceFile(p)
    <2> DEFINE i == saver[p].id
    <2>1. saver[p] # None /\ file' = [file EXCEPT ![i] = saver[p].content] /\ walk' = walk
      BY <1>4 DEF ReplaceFile
    <2>2. i \in Ids /\ saver[p].content \in Contents
      BY <1>1, <2>1 DEF TypeOK
    <2>3. saver[p].content # None /\ saver[p].content.version \in Nat
      BY <2>2, NoneAssumption, LimitAssumption
      DEF NoneAssumption, LimitAssumption, Contents
    <2>4. file[i] # None => file[i].version < saver[p].content.version
      BY <1>1, <2>1 DEF SavesAreNewer
    <2> HIDE DEF i
    <2>5. /\ file'[i] = saver[p].content
          /\ \A j \in Ids : j # i => file'[j] = file[j]
      BY <1>1, <2>1, <2>2 DEF TypeOK
    <2>6. \A j \in Ids : file[j] # None =>
              file'[j] \in Contents /\ file'[j].version >= file[j].version
      BY <1>2, <2>2, <2>3, <2>4, <2>5
    <2>7. Found \subseteq Found'
      BY <2>3, <2>5 DEF Found
    <2> QED
      BY <2>1, <2>6, <2>7
  <1> QED
    BY <1>3, <1>4 DEF Save, BeginSave, OpenFile, WriteFile, Abandon
\* A reader who looks again finds what was there, and nothing unseen comes earlier
\* in the list than it did.
LEMMA UnseenStays ==
    ASSUME NEW old \in SUBSET Ids, NEW new \in SUBSET Ids, old \subseteq new,
           NEW due \in SUBSET old, NEW seen, NEW from \in Nat,
           \A i \in due \ seen : Before(old, i) >= from
    PROVE  /\ due \subseteq new
           /\ \A i \in due \ seen : Before(new, i) >= from
  <1> SUFFICES ASSUME NEW i \in due \ seen PROVE Before(new, i) >= from
    OBVIOUS
  <1>1. i \in old /\ i \in new
    OBVIOUS
  <1>2. Before(old, i) <= Before(new, i)
    BY <1>1, PositionGrows
  <1>3. Before(old, i) \in Nat /\ Before(new, i) \in Nat
    BY <1>1, PositionType
  <1> QED
    BY <1>2, <1>3

\* The reader's steps change nothing on disk and keep what is unseen ahead.
LEMMA ReadKeepsInvariant ==
    ASSUME IInv, Read
    PROVE  /\ IInv'
           /\ file' = file
  <1> USE LimitAssumption DEF LimitAssumption
  <1>1. TypeOK /\ SavesAreNewer /\ (walk.stage = "shown" => walk.names = {}) /\ Unseen
    BY DEF IInv
  <1>2. file' = file /\ saver' = saver /\ saves' = saves
    BY DEF Read, OpenFirstPage, OpenNextPage, ReadFile, CountReports, ShowPage
  <1>3. SavesAreNewer'
    BY <1>1, <1>2 DEF SavesAreNewer
  <1>4. Found' = Found /\ Found \in SUBSET Ids
    BY <1>2 DEF Found
  <1>5. walk \in Walks
    BY <1>1 DEF TypeOK
  <1>6. walk' \in Walks => TypeOK'
    BY <1>1, <1>2 DEF TypeOK
  <1> DEFINE Ahead ==
               walk'.stage # "idle" /\ ~walk'.filter =>
                   /\ walk'.due \subseteq Scanned'
                   /\ Scanned' \subseteq Found'
                   /\ \A i \in walk'.due \ walk'.seen :
                          Before(Scanned', i) >= IF walk'.stage = "list"
                                                 THEN walk'.offset
                                                 ELSE walk'.offset + Limit
  <1>0. Ahead => Unseen'
    BY DEF Unseen, Before
  <1> SUFFICES walk' \in Walks /\ (walk'.stage = "shown" => walk'.names = {}) /\ Ahead
    BY <1>0, <1>2, <1>3, <1>6 DEF IInv
  <1>7. ASSUME NEW filter \in BOOLEAN, OpenFirstPage(filter)
        PROVE  walk' \in Walks /\ (walk'.stage = "shown" => walk'.names = {}) /\ Ahead
    <2>1. walk' = [stage |-> "list", filter |-> filter, offset |-> 0, names |-> Found,
                   hits |-> {}, seen |-> {}, due |-> Found]
      BY <1>7 DEF OpenFirstPage, Idle
    <2>2. walk' \in Walks
      BY <1>4, <2>1 DEF Walks
    <2>3. Scanned' = Found /\ walk'.due = Found /\ walk'.stage = "list" /\ walk'.offset = 0
      BY <2>1 DEF Scanned
    <2>4. \A i \in Found : Before(Found, i) >= 0
      BY <1>4, PositionType
    <2> QED
      BY <1>4, <2>2, <2>3, <2>4
  <1>8. CASE OpenNextPage
    <2>1. /\ walk.stage = "shown"
          /\ walk' = [walk EXCEPT !.stage = "list", !.offset = @ + Limit,
                                  !.names = Found, !.hits = {}]
      BY <1>8 DEF OpenNextPage
    <2>2. walk' \in Walks
      <3>1. walk.offset + Limit \in Nat /\ {} \in SUBSET Ids
        BY <1>5 DEF Walks
      <3>2. walk' = [stage |-> "list", filter |-> walk.filter,
                     offset |-> walk.offset + Limit, names |-> Found, hits |-> {},
                     seen |-> walk.seen, due |-> walk.due]
        BY <1>5, <2>1 DEF Walks
      <3> QED
        BY <1>4, <1>5, <3>1, <3>2 DEF Walks
    <2>3. /\ Scanned' = Found /\ walk'.due = walk.due /\ walk'.seen = walk.seen
          /\ walk'.stage = "list" /\ walk'.offset = walk.offset + Limit
          /\ walk'.filter = walk.filter
      BY <1>5, <2>1 DEF Scanned, Walks
    <2>4. ASSUME ~walk.filter
          PROVE  /\ walk.due \subseteq Found
                 /\ \A i \in walk.due \ walk.seen : Before(Found, i) >= walk.offset + Limit
      <3>1. /\ walk.due \subseteq Scanned /\ Scanned \subseteq Found
            /\ \A i \in walk.due \ walk.seen : Before(Scanned, i) >= walk.offset + Limit
        BY <1>1, <2>1, <2>4 DEF Unseen
      <3>2. walk.offset + Limit \in Nat
        BY <1>5 DEF Walks
      <3> QED
        BY <1>4, <3>1, <3>2, UnseenStays
    <2>5. Ahead
      BY <1>4, <2>3, <2>4
    <2> QED
      BY <2>2, <2>3, <2>5
  <1>9. ASSUME NEW i \in Ids, ReadFile(i)
        PROVE  walk' \in Walks /\ (walk'.stage = "shown" => walk'.names = {}) /\ Ahead
    <2>1. /\ i \in walk.names
          /\ walk' = [walk EXCEPT !.names = walk.names \ {i},
                 !.hits = IF Matches(i) THEN walk.hits \cup {i} ELSE walk.hits]
      BY <1>9 DEF ReadFile
    <2>2. walk' \in Walks
      BY <1>5, <2>1 DEF Walks
    <2>3. /\ walk'.due = walk.due /\ walk'.seen = walk.seen /\ walk'.stage = walk.stage
          /\ walk'.offset = walk.offset /\ walk'.filter = walk.filter
          /\ walk'.names = walk.names \ {i}
          /\ walk'.hits = IF Matches(i) THEN walk.hits \cup {i} ELSE walk.hits
      BY <1>5, <2>1 DEF Walks
    <2>4. ASSUME ~walk.filter, walk.stage # "idle"
          PROVE  Scanned' = Scanned
      <3>1. i \in Found
        BY <1>1, <2>1, <2>4 DEF Unseen, Scanned
      <3>2. file[i] \in Contents
        BY <1>1, <3>1 DEF Found, TypeOK
      <3>3. Matches(i)
        BY <2>4, <3>2 DEF Matches, Contents, Torn
      <3> QED
        BY <2>1, <2>3, <3>3 DEF Scanned
    <2>5. Ahead
      BY <1>1, <1>4, <2>3, <2>4 DEF Unseen
    <2>6. walk'.stage = "shown" => walk'.names = {}
      BY <1>1, <2>3
    <2> QED
      BY <2>2, <2>5, <2>6
  <1>10. CASE CountReports
    <2>1. /\ walk.stage = "list" /\ walk.names = {}
          /\ walk' = [walk EXCEPT !.stage = "count", !.names = Found, !.hits = {},
                             !.seen = walk.seen \cup PageOf(walk.hits, walk.offset)]
      BY <1>10 DEF CountReports
    <2>2. walk.hits \in SUBSET Ids /\ walk.offset \in Nat
      BY <1>5 DEF Walks
    <2>3. PageOf(walk.hits, walk.offset) \in SUBSET Ids
      BY <2>2 DEF PageOf
    <2>4. walk' \in Walks
      BY <1>4, <1>5, <2>1, <2>3 DEF Walks
    <2>5. /\ Scanned' = Found /\ walk'.due = walk.due
          /\ walk'.seen = walk.seen \cup PageOf(walk.hits, walk.offset)
          /\ walk'.stage = "count" /\ walk'.offset = walk.offset
          /\ walk'.filter = walk.filter
      BY <1>5, <2>1 DEF Scanned, Walks
    <2>6. ASSUME ~walk.filter
          PROVE  /\ walk'.due \subseteq Found
                 /\ \A i \in walk'.due \ walk'.seen : Before(Found, i) >= walk.offset + Limit
      <3>1. /\ walk.due \subseteq walk.hits /\ walk.hits \subseteq Found
            /\ \A i \in walk.due \ walk.seen : Before(walk.hits, i) >= walk.offset
        BY <1>1, <2>1, <2>6 DEF Unseen, Scanned
      <3>2. \A i \in walk'.due \ walk'.seen :
                Before(walk.hits, i) >= walk.offset + Limit
        BY <2>2, <2>5, <3>1, NotOnPage
      <3>3. walk.offset + Limit \in Nat
        BY <2>2
      <3> QED
        BY <1>4, <2>5, <3>1, <3>2, <3>3, UnseenStays
    <2>7. Ahead
      <3>1. walk'.stage = "count" /\ walk'.offset = walk.offset /\ Scanned' = Found'
        BY <1>4, <2>5
      <3> QED
        BY <1>4, <2>5, <2>6, <3>1
    <2> QED
      BY <2>4, <2>5, <2>7
  <1>11. CASE ShowPage
    <2>1. walk.stage = "count" /\ walk.names = {} /\ walk' = [walk EXCEPT !.stage = "shown"]
      BY <1>11 DEF ShowPage
    <2>2. walk' \in Walks
      BY <1>5, <2>1 DEF Walks
    <2>3. /\ walk'.due = walk.due /\ walk'.seen = walk.seen /\ walk'.stage = "shown"
          /\ walk'.offset = walk.offset /\ walk'.filter = walk.filter
          /\ walk'.names = walk.names /\ walk'.hits = walk.hits
      BY <1>5, <2>1 DEF Walks
    <2>4. Scanned' = Scanned
      BY <2>3 DEF Scanned
    <2>5. Ahead
      BY <1>1, <1>4, <2>1, <2>3, <2>4 DEF Unseen
    <2> QED
      BY <2>1, <2>2, <2>3, <2>5
  <1> HIDE DEF Ahead
  <1> QED
    BY <1>7, <1>8, <1>9, <1>10, <1>11 DEF Read

\* The invariant of savers and reader, for any number of them.
THEOREM Invariance == Spec => []IInv
  <1>1. Init => IInv
    BY InitInvariant
  <1>2. IInv /\ [Next]_vars => IInv'
    <2> SUFFICES ASSUME IInv, [Next]_vars PROVE IInv'
      OBVIOUS
    <2>1. CASE Read
      BY <2>1, ReadKeepsInvariant
    <2>2. ASSUME NEW p \in Processes, Save(p) PROVE IInv'
      <3>1. TypeOK' /\ SavesAreNewer'
        BY <2>2, SaveKeepsNewer
      <3>2. walk' = walk /\ Found \subseteq Found'
        BY <2>2, SaveKeepsFound
      <3> QED
        BY <3>1, <3>2 DEF IInv, Unseen, Scanned
    <2>3. CASE UNCHANGED vars
      BY <2>3 DEF vars, IInv, TypeOK, SavesAreNewer, Unseen, Scanned, Found
    <2> QED
      BY <2>1, <2>2, <2>3 DEF Next
  <1> QED
    BY <1>1, <1>2, PTL DEF Spec

-----------------------------------------------------------------------------
(* The properties *)

\* What can be read was written to its end, and every variable keeps its type.
THEOREM TypeCorrect == Spec => []TypeOK
  <1>1. IInv => TypeOK
    BY DEF IInv
  <1> QED
    BY <1>1, Invariance, PTL

\* The history page by page, without a filter: nothing that was there is missed,
\* whatever others save meanwhile.
THEOREM NothingIsMissed == Spec => []WalkSeesEverything
  <1>1. IInv => WalkSeesEverything
    <2> SUFFICES ASSUME IInv, walk.stage = "shown", ~HasNext, ~walk.filter,
                        NEW i \in walk.due, i \notin walk.seen
                 PROVE  FALSE
      BY DEF WalkSeesEverything
    <2>1. walk \in Walks /\ walk.names = {}
      BY DEF IInv, TypeOK
    <2>2. /\ walk.due \subseteq walk.hits
          /\ Before(walk.hits, i) >= walk.offset + Limit
      BY <2>1 DEF IInv, Unseen, Scanned
    <2>3. walk.hits \in SUBSET Ids /\ i \in walk.hits /\ walk.offset \in Nat
      BY <2>1, <2>2 DEF Walks
    <2>4. /\ Before(walk.hits, i) \in Nat /\ Cardinality(walk.hits) \in Nat
          /\ Before(walk.hits, i) < Cardinality(walk.hits)
      BY <2>3, PositionType
    <2> QED
      BY <2>2, <2>3, <2>4, LimitAssumption DEF LimitAssumption, HasNext
  <1> QED
    BY <1>1, Invariance, PTL

\* A report that can be read is only ever replaced, and by a later save of it.
THEOREM ReportsStay == Spec => ReportsNeverGoBack
  <1> DEFINE Kept == \A i \in Ids : file[i] # None =>
                         file'[i] \in Contents /\ file'[i].version >= file[i].version
  <1>1. IInv /\ [Next]_vars => [Kept]_vars
    <2> SUFFICES ASSUME IInv, Next PROVE Kept
      OBVIOUS
    <2>1. CASE Read
      <3>1. file' = file
        BY <2>1, ReadKeepsInvariant
      <3>2. \A i \in Ids : file[i] # None =>
                file[i] \in Contents /\ file[i].version \in Nat
        BY DEF IInv, TypeOK, Contents
      <3> QED
        BY <3>1, <3>2
    <2>2. ASSUME NEW p \in Processes, Save(p) PROVE Kept
      BY <2>2, SaveKeepsFound
    <2> QED
      BY <2>1, <2>2 DEF Next
  <1> QED
    BY <1>1, Invariance, PTL DEF Spec, ReportsNeverGoBack
=============================================================================
