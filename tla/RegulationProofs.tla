--------------------------- MODULE RegulationProofs ---------------------------
(***************************************************************************)
(* How a regulation reaches a clause, proved for any clauses, hits,        *)
(* documents, tools, dates and TTL. First the caches of the MCP server     *)
(* (ToolCache): a response cites the date of its content, and no call      *)
(* fails because of a cache, but for a whole title that is kept unparsed.  *)
(* Then the retrieval (Retrieval): a query loses nothing its domain was    *)
(* recognised by, and the predicted title costs no clause its regulation.  *)
(*                                                                         *)
(* The caches: the latest date may be overwritten at any moment, by an     *)
(* older one even, but a call that has resolved its date never looks at it *)
(* again. So what is carried through the steps is that the date a call is  *)
(* to cite, cited[c], suits its key from the moment it is resolved.        *)
(*                                                                         *)
(* The retrieval: its state says little, and all the work is in what the   *)
(* operators compute. Filters and orders of finite sets are stated by the  *)
(* rank of their elements (Order): the ranks in a strict total order are   *)
(* filled without a gap, so a filter keeps exactly what passes it.         *)
(***************************************************************************)
EXTENDS ToolCache, Retrieval, Integers, FiniteSetTheorems, SequenceTheorems,
        WellFoundedInduction, TLAPS

-----------------------------------------------------------------------------
(* The caches *)

\* What each place of a call guarantees about its key, date and answer.
CallInv(c) ==
    /\ pc[c] # "idle" => key[c] \in Keys
    /\ pc[c] \in {"titles", "index", "xml"} => Compute[key[c].tool].dated
    /\ pc[c] \in {"titles", "index"} => key[c].date = None
    /\ pc[c] \in {"plain", "reply"} => ~Compute[key[c].tool].dated
    /\ pc[c] \in {"index", "reply"} => index[c] \in Dates
    /\ pc[c] = "xml" => cited[c] \in Dates /\ key[c].date \in {None, cited[c]}
    /\ pc[c] = "done" => result[c] \in Answers /\ IsTrue(result[c], key[c])

StoreInv == \A k \in Keys : store[k] # None => IsTrue(store[k].answer, k)

IInv == TypeOK /\ StoreInv /\ \A c \in Calls : CallInv(c)

-----------------------------------------------------------------------------
(* Facts about the data *)

\* A key's date is a date, or None; and None is no date.
LEMMA KeyType ==
    ASSUME NEW k \in Keys
    PROVE  k.tool \in Tools /\ k.date \in Dates \cup {None} /\ None \notin Dates
<1>1. k \in [tool : Tools, date : Asked]
  BY DEF Keys
<1>2. Asked \subseteq Dates \cup {None} /\ None \notin Dates
  BY ConstantsAssumption DEF Dates
<1> QED BY <1>1, <1>2

\* An entry is not None: answers are records, None is no answer's name.
LEMMA EntryType ==
    ASSUME NEW given \in Answers
    PROVE  [answer |-> given, age |-> 0] \in Entries
BY ConstantsAssumption DEF Entries

LEMMA AgedType ==
    ASSUME NEW e \in Entries \cup {None}
    PROVE  /\ Aged(e) \in Entries \cup {None}
           /\ Aged(e) # None => e # None /\ Aged(e).answer = e.answer
<1>1. CASE e = None \/ e.age = TTL
  BY <1>1 DEF Aged
<1>2. CASE ~(e = None \/ e.age = TTL)
  <2>1. e \in [answer : Answers, age : 0..TTL]
    BY <1>2 DEF Entries
  <2>2. e.age \in 0..TTL /\ e.age # TTL /\ TTL \in Nat
    BY <1>2, <2>1, ConstantsAssumption
  <2>3. Aged(e) = [e EXCEPT !.age = e.age + 1] /\ e.age + 1 \in 0..TTL
    BY <1>2, <2>2 DEF Aged
  <2>4. Aged(e) \in [answer : Answers, age : 0..TTL] /\ Aged(e).answer = e.answer
    BY <2>1, <2>3
  <2> QED BY <1>2, <2>4 DEF Entries
<1> QED BY <1>1, <1>2

-----------------------------------------------------------------------------
(* The end of a call *)

\* Whatever is parsed ends the call: with an answer, which the cache may take, or
\* without one, and then the caches are as before.
LEMMA ParseEffect ==
    ASSUME IInv, NEW c \in Calls, NEW k \in Keys, NEW xml \in {"none", "good", "bad"},
           NEW d \in Dates, NEW r \in Dates \cup {None},
           IsTrue([cited |-> r, text |-> d], k), Parse(c, k, xml, d, r)
    PROVE  /\ store' \in [Keys -> Entries \cup {None}] /\ StoreInv'
           /\ result' \in [Calls -> Answers \cup {None}]
           /\ \A b \in Calls : b # c => result'[b] = result[b]
           /\ \/ /\ pc' = [pc EXCEPT ![c] = "done"]
                 /\ result'[c] \in Answers /\ IsTrue(result'[c], k)
              \/ /\ pc' = [pc EXCEPT ![c] = "error"]
                 /\ xml # "good"
<1> DEFINE given == [cited |-> r, text |-> d]
<1>1. given \in Answers
  BY DEF Answers
<1>2. /\ store \in [Keys -> Entries \cup {None}]
      /\ result \in [Calls -> Answers \cup {None}]
      /\ StoreInv
  BY DEF IInv, TypeOK
<1>3. CASE xml = "good"
  <2>1. /\ pc' = [pc EXCEPT ![c] = "done"]
        /\ result' = [result EXCEPT ![c] = given]
        /\ \/ store' = [store EXCEPT ![k] = [answer |-> given, age |-> 0]]
           \/ store' = store
    BY <1>3 DEF Parse, Write
  <2>2. result' \in [Calls -> Answers \cup {None}] /\ result'[c] = given
    BY <1>1, <1>2, <2>1
  <2>3. store' \in [Keys -> Entries \cup {None}]
    BY <1>1, <1>2, <2>1, EntryType
  <2>4. StoreInv'
    <3>1. CASE store' = store
      BY <1>2, <3>1 DEF StoreInv
    <3>2. CASE store' = [store EXCEPT ![k] = [answer |-> given, age |-> 0]]
      <4>1. \A j \in Keys : j # k => store'[j] = store[j]
        BY <1>2, <3>2
      <4>2. store'[k].answer = given
        BY <1>2, <3>2
      <4> QED BY <1>2, <4>1, <4>2 DEF StoreInv
    <3> QED BY <2>1, <3>1, <3>2
  <2> QED BY <1>1, <1>2, <2>1, <2>2, <2>3, <2>4
<1>4. CASE xml # "good"
  <2>1. pc' = [pc EXCEPT ![c] = "error"] /\ store' = store /\ result' = result
    BY <1>4 DEF Parse, Raise
  <2> QED BY <1>2, <1>4, <2>1 DEF StoreInv
<1> QED BY <1>3, <1>4

\* A resolved date is cited from now on; only a whole title that is kept needs no
\* request, and only an unparsable one fails here.
LEMMA ResolvedEffect ==
    ASSUME IInv, NEW c \in Calls, NEW k \in Keys, NEW r \in Dates,
           k.date \in {None, r}, Compute[k.tool].dated, Resolved(c, k, r)
    PROVE  /\ store' \in [Keys -> Entries \cup {None}] /\ StoreInv'
           /\ result' \in [Calls -> Answers \cup {None}]
           /\ cited' = [cited EXCEPT ![c] = r]
           /\ \A b \in Calls : b # c => result'[b] = result[b]
           /\ \/ pc' = [pc EXCEPT ![c] = "xml"]
              \/ /\ pc' = [pc EXCEPT ![c] = "done"]
                 /\ result'[c] \in Answers /\ IsTrue(result'[c], k)
              \/ /\ pc' = [pc EXCEPT ![c] = "error"]
                 /\ Compute[k.tool].kept /\ titleXml[r] = "bad"
<1>1. cited' = [cited EXCEPT ![c] = r]
  BY DEF Resolved
<1>2. titleXml[r] \in {"none", "good", "bad"}
  BY DEF IInv, TypeOK
<1>3. IsTrue([cited |-> r, text |-> r], k)
  BY DEF IsTrue
<1>4. CASE Compute[k.tool].kept /\ titleXml[r] # "none"
  <2>1. Parse(c, k, titleXml[r], r, r)
    BY <1>4 DEF Resolved
  <2> QED BY <1>1, <1>2, <1>3, <1>4, <2>1, ParseEffect
<1>5. CASE ~(Compute[k.tool].kept /\ titleXml[r] # "none")
  <2>1. pc' = [pc EXCEPT ![c] = "xml"] /\ store' = store /\ result' = result
    BY <1>5 DEF Resolved
  <2> QED BY <1>1, <2>1 DEF IInv, TypeOK, StoreInv
<1> QED BY <1>4, <1>5

-----------------------------------------------------------------------------
(* Every step keeps the invariant *)

\* A call's steps touch no other call.
LEMMA OneCall ==
    ASSUME IInv, NEW c \in Calls, CallInv(c)',
           \A b \in Calls : b # c =>
               /\ pc'[b] = pc[b] /\ key'[b] = key[b] /\ index'[b] = index[b]
               /\ cited'[b] = cited[b] /\ result'[b] = result[b]
    PROVE  \A b \in Calls : CallInv(b)'
<1> SUFFICES ASSUME NEW b \in Calls, b # c PROVE CallInv(b)'
  OBVIOUS
<1>1. CallInv(b)
  BY DEF IInv
<1>2. /\ pc'[b] = pc[b] /\ key'[b] = key[b] /\ index'[b] = index[b]
      /\ cited'[b] = cited[b] /\ result'[b] = result[b]
  OBVIOUS
<1> QED BY <1>1, <1>2 DEF CallInv

\* A call begins, with a hit or one of the three misses.
LEMMA BeginKeeps ==
    ASSUME IInv, NEW c \in Calls, NEW k \in Keys,
           Hit(c, k) \/ MissDated(c, k) \/ MissUndated(c, k) \/ MissPlain(c, k)
    PROVE  IInv'
<1>1. TypeOK /\ StoreInv /\ CallInv(c)
  BY DEF IInv
<1>2. /\ key' = [key EXCEPT ![c] = k]
      /\ UNCHANGED <<published, latestDate, titleXml, failed, index>>
  BY DEF Hit, MissDated, MissUndated, MissPlain, Begin
<1>3. key' \in [Calls -> Keys \cup {None}] /\ key'[c] = k
  BY <1>1, <1>2 DEF TypeOK
<1>4. CASE Hit(c, k)
  <2>1. /\ pc' = [pc EXCEPT ![c] = "done"] /\ store[k] # None
        /\ result' = [result EXCEPT ![c] = store[k].answer]
        /\ UNCHANGED <<store, cited>>
    BY <1>4 DEF Hit
  <2>2. store[k].answer \in Answers
    BY <1>1, <2>1 DEF TypeOK, Entries
  <2>3. /\ TypeOK' /\ StoreInv'
    BY <1>1, <1>2, <1>3, <2>1, <2>2 DEF TypeOK, StoreInv
  <2>4. CallInv(c)'
    <3>1. pc'[c] = "done" /\ result'[c] = store[k].answer
      BY <1>1, <2>1 DEF TypeOK
    <3> QED BY <1>1, <1>3, <2>1, <2>2, <3>1 DEF CallInv, StoreInv
  <2>5. \A b \in Calls : b # c =>
            /\ pc'[b] = pc[b] /\ key'[b] = key[b] /\ index'[b] = index[b]
            /\ cited'[b] = cited[b] /\ result'[b] = result[b]
    BY <1>1, <1>2, <2>1 DEF TypeOK
  <2> QED BY <2>3, <2>4, <2>5, OneCall DEF IInv
<1>5. CASE MissDated(c, k)
  <2> DEFINE d == IF k.date # None THEN k.date ELSE latestDate
  <2>1. Compute[k.tool].dated /\ Resolved(c, k, d) /\ d # None
    BY <1>5 DEF MissDated
  <2>2. d \in Dates /\ k.date \in {None, d}
    BY <1>1, <2>1, KeyType DEF TypeOK
  <2> HIDE DEF d
  <2>3. /\ store' \in [Keys -> Entries \cup {None}] /\ StoreInv'
        /\ result' \in [Calls -> Answers \cup {None}]
        /\ cited' = [cited EXCEPT ![c] = d]
        /\ \A b \in Calls : b # c => result'[b] = result[b]
        /\ \/ pc' = [pc EXCEPT ![c] = "xml"]
           \/ /\ pc' = [pc EXCEPT ![c] = "done"]
              /\ result'[c] \in Answers /\ IsTrue(result'[c], k)
           \/ pc' = [pc EXCEPT ![c] = "error"]
    BY <2>1, <2>2, ResolvedEffect
  <2>4. TypeOK'
    BY <1>1, <1>2, <1>3, <2>2, <2>3 DEF TypeOK
  <2>5. CallInv(c)'
    <3>1. /\ cited'[c] = d
          /\ \/ pc'[c] = "xml" \/ pc'[c] = "error"
             \/ pc'[c] = "done" /\ result'[c] \in Answers /\ IsTrue(result'[c], k)
      BY <1>1, <2>3 DEF TypeOK
    <3> QED BY <1>3, <2>1, <2>2, <3>1 DEF CallInv
  <2>6. \A b \in Calls : b # c =>
            /\ pc'[b] = pc[b] /\ key'[b] = key[b] /\ index'[b] = index[b]
            /\ cited'[b] = cited[b] /\ result'[b] = result[b]
    BY <1>1, <1>2, <2>3 DEF TypeOK
  <2> QED BY <2>3, <2>4, <2>5, <2>6, OneCall DEF IInv
<1>6. CASE MissUndated(c, k) \/ MissPlain(c, k)
  <2>1. /\ \/ /\ pc' = [pc EXCEPT ![c] = "titles"]
              /\ Compute[k.tool].dated /\ k.date = None
           \/ pc' = [pc EXCEPT ![c] = "plain"] /\ ~Compute[k.tool].dated
        /\ UNCHANGED <<store, cited, result>>
    BY <1>6 DEF MissUndated, MissPlain
  <2>2. TypeOK' /\ StoreInv'
    BY <1>1, <1>2, <1>3, <2>1 DEF TypeOK, StoreInv
  <2>3. CallInv(c)'
    <3>1. \/ pc'[c] = "titles" /\ Compute[k.tool].dated /\ k.date = None
          \/ pc'[c] = "plain" /\ ~Compute[k.tool].dated
      BY <1>1, <2>1 DEF TypeOK
    <3> QED BY <1>3, <3>1 DEF CallInv
  <2>4. \A b \in Calls : b # c =>
            /\ pc'[b] = pc[b] /\ key'[b] = key[b] /\ index'[b] = index[b]
            /\ cited'[b] = cited[b] /\ result'[b] = result[b]
    BY <1>1, <1>2, <2>1 DEF TypeOK
  <2> QED BY <2>2, <2>3, <2>4, OneCall DEF IInv
<1> QED BY <1>4, <1>5, <1>6

\* eCFR answers, with the index or a plain reply.
LEMMA RepliesKeep ==
    ASSUME IInv, NEW c \in Calls, NEW json \in {"good", "bad"},
           ReplyLeaves(c) \/ ReplyArrives(c, json)
    PROVE  IInv'
<1>1. TypeOK /\ StoreInv /\ CallInv(c)
  BY DEF IInv
<1>2. UNCHANGED <<published, latestDate, titleXml, key, cited>>
  BY DEF ReplyLeaves, ReplyArrives
<1>3. CASE ReplyLeaves(c)
  <2>1. /\ index' = [index EXCEPT ![c] = published]
        /\ \/ pc[c] = "titles" /\ pc' = [pc EXCEPT ![c] = "index"]
           \/ pc[c] = "plain" /\ pc' = [pc EXCEPT ![c] = "reply"]
        /\ UNCHANGED <<store, result, failed>>
    BY <1>3 DEF ReplyLeaves
  <2>2. TypeOK' /\ StoreInv'
    BY <1>1, <1>2, <2>1 DEF TypeOK, StoreInv
  <2>3. CallInv(c)'
    <3>1. /\ index'[c] \in Dates
          /\ \/ pc[c] = "titles" /\ pc'[c] = "index"
             \/ pc[c] = "plain" /\ pc'[c] = "reply"
      BY <1>1, <2>1 DEF TypeOK
    <3> QED BY <1>1, <1>2, <3>1 DEF CallInv
  <2>4. \A b \in Calls : b # c =>
            /\ pc'[b] = pc[b] /\ key'[b] = key[b] /\ index'[b] = index[b]
            /\ cited'[b] = cited[b] /\ result'[b] = result[b]
    BY <1>1, <1>2, <2>1 DEF TypeOK
  <2> QED BY <2>2, <2>3, <2>4, OneCall DEF IInv
<1>4. CASE ReplyArrives(c, json)
  <2>1. /\ pc[c] = "reply" /\ index' = [index EXCEPT ![c] = None]
        /\ failed' = [failed EXCEPT ![c] = json = "bad"]
        /\ Parse(c, key[c], json, index[c], None)
    BY <1>4 DEF ReplyArrives
  <2>2. key[c] \in Keys /\ index[c] \in Dates /\ ~Compute[key[c].tool].dated
    BY <1>1, <2>1 DEF CallInv
  <2>3. IsTrue([cited |-> None, text |-> index[c]], key[c])
    BY <2>2 DEF IsTrue
  <2>4. /\ store' \in [Keys -> Entries \cup {None}] /\ StoreInv'
        /\ result' \in [Calls -> Answers \cup {None}]
        /\ \A b \in Calls : b # c => result'[b] = result[b]
        /\ \/ /\ pc' = [pc EXCEPT ![c] = "done"]
              /\ result'[c] \in Answers /\ IsTrue(result'[c], key[c])
           \/ pc' = [pc EXCEPT ![c] = "error"]
    BY <2>1, <2>2, <2>3, ParseEffect
  <2>5. TypeOK'
    BY <1>1, <1>2, <2>1, <2>4 DEF TypeOK
  <2>6. CallInv(c)'
    <3>1. \/ pc'[c] = "error"
          \/ pc'[c] = "done" /\ result'[c] \in Answers /\ IsTrue(result'[c], key[c])
      BY <1>1, <2>4 DEF TypeOK
    <3> QED BY <1>2, <2>2, <3>1 DEF CallInv
  <2>7. \A b \in Calls : b # c =>
            /\ pc'[b] = pc[b] /\ key'[b] = key[b] /\ index'[b] = index[b]
            /\ cited'[b] = cited[b] /\ result'[b] = result[b]
    BY <1>1, <1>2, <2>1, <2>4 DEF TypeOK
  <2> QED BY <2>4, <2>5, <2>6, <2>7, OneCall DEF IInv
<1> QED BY <1>3, <1>4

\* The titles index arrives, newer or older than the one known.
LEMMA IndexKeeps ==
    ASSUME IInv, NEW c \in Calls, IndexArrives(c)
    PROVE  IInv'
<1>1. TypeOK /\ StoreInv /\ CallInv(c)
  BY DEF IInv
<1>2. /\ pc[c] = "index" /\ latestDate' = index[c]
      /\ index' = [index EXCEPT ![c] = None]
      /\ Resolved(c, key[c], index[c])
      /\ UNCHANGED <<published, titleXml, key, failed>>
  BY DEF IndexArrives
<1>3. /\ key[c] \in Keys /\ Compute[key[c].tool].dated
      /\ key[c].date = None /\ index[c] \in Dates
  BY <1>1, <1>2 DEF CallInv
<1>4. /\ store' \in [Keys -> Entries \cup {None}] /\ StoreInv'
      /\ result' \in [Calls -> Answers \cup {None}]
      /\ cited' = [cited EXCEPT ![c] = index[c]]
      /\ \A b \in Calls : b # c => result'[b] = result[b]
      /\ \/ pc' = [pc EXCEPT ![c] = "xml"]
         \/ /\ pc' = [pc EXCEPT ![c] = "done"]
            /\ result'[c] \in Answers /\ IsTrue(result'[c], key[c])
         \/ pc' = [pc EXCEPT ![c] = "error"]
  BY <1>2, <1>3, ResolvedEffect
<1>5. TypeOK'
  BY <1>1, <1>2, <1>3, <1>4 DEF TypeOK
<1>6. CallInv(c)'
  <2>1. /\ cited'[c] = index[c]
        /\ \/ pc'[c] = "xml" \/ pc'[c] = "error"
           \/ pc'[c] = "done" /\ result'[c] \in Answers /\ IsTrue(result'[c], key[c])
    BY <1>1, <1>4 DEF TypeOK
  <2> QED BY <1>2, <1>3, <2>1 DEF CallInv
<1>7. \A b \in Calls : b # c =>
          /\ pc'[b] = pc[b] /\ key'[b] = key[b] /\ index'[b] = index[b]
          /\ cited'[b] = cited[b] /\ result'[b] = result[b]
  BY <1>1, <1>2, <1>4 DEF TypeOK
<1> QED BY <1>4, <1>5, <1>6, <1>7, OneCall DEF IInv

\* The content of the cited date arrives: the date was fixed before it was asked
\* for, whatever the latest date has become.
LEMMA XmlKeeps ==
    ASSUME IInv, NEW c \in Calls, NEW xml \in {"good", "bad"}, XmlArrives(c, xml)
    PROVE  IInv'
<1>1. TypeOK /\ StoreInv /\ CallInv(c)
  BY DEF IInv
<1>2. /\ pc[c] = "xml"
      /\ titleXml' = IF Compute[key[c].tool].kept
                     THEN [titleXml EXCEPT ![cited[c]] = xml] ELSE titleXml
      /\ failed' = [failed EXCEPT ![c] = xml = "bad"]
      /\ Parse(c, key[c], xml, cited[c], cited[c])
      /\ UNCHANGED <<published, latestDate, key, index, cited>>
  BY DEF XmlArrives
<1>3. /\ key[c] \in Keys /\ cited[c] \in Dates /\ key[c].date \in {None, cited[c]}
  BY <1>1, <1>2 DEF CallInv
<1>4. IsTrue([cited |-> cited[c], text |-> cited[c]], key[c])
  BY <1>3 DEF IsTrue
<1>5. /\ store' \in [Keys -> Entries \cup {None}] /\ StoreInv'
      /\ result' \in [Calls -> Answers \cup {None}]
      /\ \A b \in Calls : b # c => result'[b] = result[b]
      /\ \/ /\ pc' = [pc EXCEPT ![c] = "done"]
            /\ result'[c] \in Answers /\ IsTrue(result'[c], key[c])
         \/ pc' = [pc EXCEPT ![c] = "error"]
  BY <1>2, <1>3, <1>4, ParseEffect
<1>6. titleXml' \in [Dates -> {"none", "good", "bad"}]
  BY <1>1, <1>2, <1>3 DEF TypeOK
<1>7. TypeOK'
  BY <1>1, <1>2, <1>5, <1>6 DEF TypeOK
<1>8. CallInv(c)'
  <2>1. \/ pc'[c] = "error"
        \/ pc'[c] = "done" /\ result'[c] \in Answers /\ IsTrue(result'[c], key[c])
    BY <1>1, <1>5 DEF TypeOK
  <2> QED BY <1>2, <1>3, <2>1 DEF CallInv
<1>9. \A b \in Calls : b # c =>
          /\ pc'[b] = pc[b] /\ key'[b] = key[b] /\ index'[b] = index[b]
          /\ cited'[b] = cited[b] /\ result'[b] = result[b]
  BY <1>1, <1>2, <1>5 DEF TypeOK
<1> QED BY <1>5, <1>7, <1>8, <1>9, OneCall DEF IInv

\* A request fails, or the caller takes its response.
LEMMA EndsKeep ==
    ASSUME IInv, NEW c \in Calls, RequestFails(c) \/ Return(c)
    PROVE  IInv'
<1>1. TypeOK /\ StoreInv /\ CallInv(c)
  BY DEF IInv
<1>2. /\ store' = store
      /\ \/ /\ pc[c] # "idle" /\ pc' = [pc EXCEPT ![c] = "error"]
            /\ failed' = [failed EXCEPT ![c] = TRUE]
            /\ UNCHANGED <<published, latestDate, titleXml, key, index, cited, result>>
         \/ /\ pc' = [pc EXCEPT ![c] = "idle"]
            /\ key' = [key EXCEPT ![c] = None]
            /\ cited' = [cited EXCEPT ![c] = None]
            /\ result' = [result EXCEPT ![c] = None]
            /\ failed' = [failed EXCEPT ![c] = FALSE]
            /\ UNCHANGED <<published, latestDate, titleXml, index>>
  BY DEF RequestFails, Raise, Return
<1>3. TypeOK' /\ StoreInv'
  BY <1>1, <1>2 DEF TypeOK, StoreInv
<1>4. CallInv(c)'
  <2>1. pc'[c] = "idle" \/ (pc'[c] = "error" /\ key'[c] = key[c] /\ pc[c] # "idle")
    BY <1>1, <1>2 DEF TypeOK
  <2> QED BY <1>1, <2>1 DEF CallInv
<1>5. \A b \in Calls : b # c =>
          /\ pc'[b] = pc[b] /\ key'[b] = key[b] /\ index'[b] = index[b]
          /\ cited'[b] = cited[b] /\ result'[b] = result[b]
  BY <1>1, <1>2 DEF TypeOK
<1> QED BY <1>3, <1>4, <1>5, OneCall DEF IInv

\* An issue is published, or time passes; calls do not notice.
LEMMA WorldKeeps ==
    ASSUME IInv, Publish \/ Tick \/ UNCHANGED vars
    PROVE  IInv'
<1>1. TypeOK /\ StoreInv /\ \A c \in Calls : CallInv(c)
  BY DEF IInv
<1>2. /\ UNCHANGED <<latestDate, titleXml, pc, key, index, cited, result, failed>>
      /\ \A c \in Calls : CallInv(c)'
  BY <1>1 DEF Publish, Tick, vars, CallInv
<1>3. CASE Publish
  <2>1. published' \in Dates
    BY <1>1, <1>3, ConstantsAssumption DEF Publish, TypeOK, Dates
  <2> QED BY <1>1, <1>2, <1>3, <2>1 DEF IInv, TypeOK, StoreInv, Publish
<1>4. CASE Tick
  <2>1. published' = published /\ store' = [k \in Keys |-> Aged(store[k])]
    BY <1>4 DEF Tick
  <2>2. \A k \in Keys : /\ store'[k] \in Entries \cup {None}
                        /\ store'[k] # None =>
                              store[k] # None /\ store'[k].answer = store[k].answer
    BY <1>1, <2>1, AgedType DEF TypeOK
  <2>3. store' \in [Keys -> Entries \cup {None}]
    BY <2>1, <2>2
  <2>4. StoreInv'
    BY <1>1, <2>2 DEF StoreInv
  <2> QED BY <1>1, <1>2, <2>1, <2>3, <2>4 DEF IInv, TypeOK
<1>5. CASE UNCHANGED vars
  BY <1>1, <1>2, <1>5 DEF IInv, TypeOK, StoreInv, vars
<1> QED BY <1>3, <1>4, <1>5

LEMMA InvInit == Init => IInv
<1> SUFFICES ASSUME Init PROVE IInv
  OBVIOUS
<1>1. 1 \in Dates
  BY ConstantsAssumption DEF Dates
<1>2. TypeOK
  BY <1>1 DEF Init, TypeOK
<1>3. StoreInv /\ \A c \in Calls : CallInv(c)
  BY DEF Init, StoreInv, CallInv
<1> QED BY <1>2, <1>3 DEF IInv

LEMMA InvNext == IInv /\ [Next]_vars => IInv'
<1> SUFFICES ASSUME IInv, [Next]_vars PROVE IInv'
  OBVIOUS
<1>1. CASE Publish \/ Tick \/ UNCHANGED vars
  BY <1>1, WorldKeeps
<1>2. ASSUME NEW c \in Calls, CallStep(c) PROVE IInv'
  BY <1>2, BeginKeeps, RepliesKeep, IndexKeeps, XmlKeeps, EndsKeep DEF CallStep
<1> QED BY <1>1, <1>2 DEF Next

-----------------------------------------------------------------------------
(* Theorems *)

\* The invariant holds of every reachable state.
THEOREM Invariance == Spec => []IInv
BY InvInit, InvNext, PTL DEF Spec

\* Every variable keeps its type.
THEOREM TypeCorrect == Spec => []TypeOK
<1>1. IInv => TypeOK
  BY DEF IInv
<1> QED BY <1>1, Invariance, PTL

\* No response and no cache entry cites a date that is not the date of its content
\* or not the one that was asked for.
THEOREM CitationsAreTrue == Spec => []CitationIsTrue
<1>1. IInv => CitationIsTrue
  BY DEF IInv, CitationIsTrue, StoreInv, CallInv, Answered
<1> QED BY <1>1, Invariance, PTL

\* Who fails: a call whose own request failed, or one that met a kept document.
LEMMA FailureCause ==
    ASSUME IInv, NEW c \in Calls, CallStep(c), pc'[c] = "error", pc[c] # "error"
    PROVE  \/ failed'[c]
           \/ Compute[key'[c].tool].kept /\ titleXml[cited'[c]] = "bad"
<1>1. TypeOK /\ CallInv(c)
  BY DEF IInv
<1>2. ASSUME NEW k \in Keys, Hit(c, k) \/ MissUndated(c, k) \/ MissPlain(c, k)
      PROVE  FALSE
  BY <1>1, <1>2 DEF Hit, MissUndated, MissPlain, TypeOK
<1>3. ASSUME NEW k \in Keys, MissDated(c, k)
      PROVE  Compute[key'[c].tool].kept /\ titleXml[cited'[c]] = "bad"
  <2> DEFINE d == IF k.date # None THEN k.date ELSE latestDate
  <2>1. /\ Compute[k.tool].dated /\ Resolved(c, k, d) /\ d # None
        /\ key' = [key EXCEPT ![c] = k]
    BY <1>3 DEF MissDated, Begin
  <2>2. d \in Dates /\ k.date \in {None, d}
    BY <1>1, <2>1, KeyType DEF TypeOK
  <2> HIDE DEF d
  <2>3. /\ cited' = [cited EXCEPT ![c] = d]
        /\ \/ pc' = [pc EXCEPT ![c] = "xml"]
           \/ pc' = [pc EXCEPT ![c] = "done"]
           \/ Compute[k.tool].kept /\ titleXml[d] = "bad"
    BY <2>1, <2>2, ResolvedEffect
  <2>4. key'[c] = k /\ cited'[c] = d
    BY <1>1, <2>1, <2>3 DEF TypeOK
  <2> QED BY <1>1, <2>3, <2>4 DEF TypeOK
<1>4. ASSUME IndexArrives(c)
      PROVE  Compute[key'[c].tool].kept /\ titleXml[cited'[c]] = "bad"
  <2>1. /\ pc[c] = "index" /\ Resolved(c, key[c], index[c]) /\ key' = key
    BY <1>4 DEF IndexArrives
  <2>2. /\ key[c] \in Keys /\ Compute[key[c].tool].dated
        /\ key[c].date = None /\ index[c] \in Dates
    BY <1>1, <2>1 DEF CallInv
  <2>3. /\ cited' = [cited EXCEPT ![c] = index[c]]
        /\ \/ pc' = [pc EXCEPT ![c] = "xml"]
           \/ pc' = [pc EXCEPT ![c] = "done"]
           \/ Compute[key[c].tool].kept /\ titleXml[index[c]] = "bad"
    BY <2>1, <2>2, ResolvedEffect
  <2> QED BY <1>1, <2>1, <2>3 DEF TypeOK
<1>5. ASSUME NEW xml \in {"good", "bad"}, XmlArrives(c, xml) \/ ReplyArrives(c, xml)
      PROVE  failed'[c]
  <2>1. CASE xml = "good"
    <3>1. pc' = [pc EXCEPT ![c] = "done"]
      BY <1>5, <2>1 DEF XmlArrives, ReplyArrives, Parse, Write
    <3> QED BY <1>1, <3>1 DEF TypeOK
  <2>2. CASE xml = "bad"
    <3>1. failed' = [failed EXCEPT ![c] = TRUE]
      BY <1>5, <2>2 DEF XmlArrives, ReplyArrives
    <3> QED BY <1>1, <3>1 DEF TypeOK
  <2> QED BY <2>1, <2>2
<1>6. ASSUME ReplyLeaves(c) PROVE FALSE
  BY <1>1, <1>6 DEF ReplyLeaves, TypeOK
<1>7. ASSUME RequestFails(c) PROVE failed'[c]
  BY <1>1, <1>7 DEF RequestFails, TypeOK
<1>8. ASSUME Return(c) PROVE FALSE
  BY <1>1, <1>8 DEF Return, TypeOK
<1> QED BY <1>2, <1>3, <1>4, <1>5, <1>6, <1>7, <1>8 DEF CallStep

\* A step of one call ends no other.
LEMMA OnlyOne ==
    ASSUME IInv, NEW c \in Calls, NEW b \in Calls, CallStep(c), b # c
    PROVE  pc'[b] = pc[b]
<1>1. pc \in [Calls -> {"idle", "titles", "index", "xml", "plain", "reply",
                         "done", "error"}]
  BY DEF IInv, TypeOK
<1>2. \A k, xml, d, r : Parse(c, k, xml, d, r) => pc'[b] = pc[b]
  BY <1>1 DEF Parse, Write, Raise
<1>3. \A k, r : Resolved(c, k, r) => pc'[b] = pc[b]
  BY <1>1, <1>2 DEF Resolved
<1>4. \A k : Hit(c, k) \/ MissUndated(c, k) \/ MissPlain(c, k) => pc'[b] = pc[b]
  BY <1>1 DEF Hit, MissUndated, MissPlain
<1>5. \A k : MissDated(c, k) => pc'[b] = pc[b]
  BY <1>3 DEF MissDated
<1>6. ReplyLeaves(c) \/ RequestFails(c) \/ Return(c) => pc'[b] = pc[b]
  BY <1>1 DEF ReplyLeaves, RequestFails, Return, Raise
<1>7. IndexArrives(c) => pc'[b] = pc[b]
  BY <1>3 DEF IndexArrives
<1>8. \A xml : XmlArrives(c, xml) \/ ReplyArrives(c, xml) => pc'[b] = pc[b]
  BY <1>2 DEF XmlArrives, ReplyArrives
<1> QED BY <1>4, <1>5, <1>6, <1>7, <1>8 DEF CallStep

\* No call fails because the cache or another call failed, whatever the store loses,
\* unless it is for a title whose document was kept unparsed.
THEOREM CachesFailNobody == Spec => FailuresAreUpstream
<1>1. IInv /\ [Next]_vars =>
        [\A c \in Calls : pc'[c] = "error" /\ pc[c] # "error" =>
            \/ failed'[c]
            \/ Compute[key'[c].tool].kept /\ titleXml[cited'[c]] = "bad"]_vars
  <2> SUFFICES ASSUME IInv, Next, NEW b \in Calls, pc'[b] = "error", pc[b] # "error"
               PROVE  \/ failed'[b]
                      \/ Compute[key'[b].tool].kept /\ titleXml[cited'[b]] = "bad"
    OBVIOUS
  <2>1. PICK c \in Calls : CallStep(c)
    BY DEF Next, Publish, Tick
  <2>2. b = c
    BY <2>1, OnlyOne
  <2> QED BY <2>1, <2>2, FailureCause
<1> QED BY <1>1, Invariance, PTL DEF Spec, FailuresAreUpstream

-----------------------------------------------------------------------------
(* Sets in order *)

Below == {p \in Nat \X Nat : p[1] < p[2]}

\* A set of numbers that is not empty has a first.
LEMMA FirstIsLeast ==
    ASSUME NEW S \in SUBSET Nat, S # {}
    PROVE  First(S) \in S /\ \A k \in S : First(S) <= k
<1>1. IsWellFoundedOn(Below, Nat)
  <2>1. IsWellFoundedOn({p \in Nat \X Nat : p[1] < p[2]}, Nat)
    BY NatLessThanWellFounded, Zenon DEF OpToRel
  <2> QED BY <2>1 DEF Below
<1>2. \E x \in S : \A y \in S : ~ (<<y, x>> \in Below)
  BY <1>1, WFMin
<1>3. \A x, y \in S : <<y, x>> \notin Below => x <= y
  BY DEF Below
<1>4. \E i \in S : \A k \in S : i <= k
  BY <1>2, <1>3
<1> QED BY <1>4 DEF First

\* What of S is ahead of p in an order R.
Ahead(S, R, p) == {q \in S : <<q, p>> \in R}

\* R is a strict total order of S.
Orders(R, S) ==
    /\ \A x \in S : <<x, x>> \notin R
    /\ \A x, y, z \in S : <<x, y>> \in R /\ <<y, z>> \in R => <<x, z>> \in R
    /\ \A x, y \in S : x # y => <<x, y>> \in R \/ <<y, x>> \in R

LEMMA AheadIsFinite ==
    ASSUME NEW S, IsFiniteSet(S), NEW R, Orders(R, S), NEW p \in S
    PROVE  /\ IsFiniteSet(Ahead(S, R, p)) /\ Cardinality(Ahead(S, R, p)) \in Nat
           /\ Cardinality(S) \in Nat /\ Cardinality(Ahead(S, R, p)) <= Cardinality(S) - 1
<1>1. /\ IsFiniteSet(S \ {p}) /\ Cardinality(S \ {p}) = Cardinality(S) - 1
      /\ Cardinality(S) \in Nat
  BY FS_RemoveElement, FS_CardinalityType
<1>2. Ahead(S, R, p) \in SUBSET (S \ {p})
  BY DEF Ahead, Orders
<1>3. IsFiniteSet(Ahead(S, R, p)) /\ Cardinality(Ahead(S, R, p)) <= Cardinality(S \ {p})
  BY <1>1, <1>2, FS_Subset
<1>4. Cardinality(Ahead(S, R, p)) \in Nat
  BY <1>3, FS_CardinalityType
<1> QED BY <1>1, <1>3, <1>4

LEMMA AheadGrows ==
    ASSUME NEW S, IsFiniteSet(S), NEW R, Orders(R, S), NEW p \in S, NEW t \in S,
           <<p, t>> \in R
    PROVE  Cardinality(Ahead(S, R, p)) < Cardinality(Ahead(S, R, t))
<1>1. Ahead(S, R, p) \in SUBSET (Ahead(S, R, t) \ {p}) /\ p \in Ahead(S, R, t)
  BY DEF Ahead, Orders
<1>2. /\ IsFiniteSet(Ahead(S, R, t)) /\ Cardinality(Ahead(S, R, t)) \in Nat
      /\ Cardinality(Ahead(S, R, p)) \in Nat
  BY AheadIsFinite
<1>3. /\ IsFiniteSet(Ahead(S, R, t) \ {p})
      /\ Cardinality(Ahead(S, R, t) \ {p}) = Cardinality(Ahead(S, R, t)) - 1
  BY <1>1, <1>2, FS_RemoveElement
<1>4. Cardinality(Ahead(S, R, p)) <= Cardinality(Ahead(S, R, t) \ {p})
  BY <1>1, <1>3, FS_Subset
<1> QED BY <1>2, <1>3, <1>4

\* The ranks of a finite set in a strict total order are 0, 1, ... without a gap.
LEMMA RanksAreFilled ==
    ASSUME NEW S, IsFiniteSet(S), NEW R, Orders(R, S)
    PROVE  /\ Cardinality(S) \in Nat
           /\ \A p \in S : Cardinality(Ahead(S, R, p)) \in 0..(Cardinality(S) - 1)
           /\ \A p, t \in S :
                 Cardinality(Ahead(S, R, p)) = Cardinality(Ahead(S, R, t)) => p = t
           /\ \A r \in 1..Cardinality(S) : \E p \in S :
                 Cardinality(Ahead(S, R, p)) = r - 1
<1> DEFINE n == Cardinality(S)
           f == [p \in S |-> Cardinality(Ahead(S, R, p)) + 1]
<1>1. n \in Nat
  BY FS_CardinalityType
<1>2. \A p \in S : Cardinality(Ahead(S, R, p)) \in Nat /\ Cardinality(Ahead(S, R, p)) <= n - 1
  BY AheadIsFinite
<1>3. ASSUME NEW p \in S, NEW t \in S, p # t
      PROVE  Cardinality(Ahead(S, R, p)) # Cardinality(Ahead(S, R, t))
  <2>1. CASE <<p, t>> \in R
    <3>1. Cardinality(Ahead(S, R, p)) < Cardinality(Ahead(S, R, t))
      BY <2>1, AheadGrows
    <3> QED BY <1>2, <3>1
  <2>2. CASE <<t, p>> \in R
    <3>1. Cardinality(Ahead(S, R, t)) < Cardinality(Ahead(S, R, p))
      BY <2>2, AheadGrows
    <3> QED BY <1>2, <3>1
  <2> QED BY <1>3, <2>1, <2>2 DEF Orders
<1>4. \A p \in S : f[p] = Cardinality(Ahead(S, R, p)) + 1 /\ f[p] \in 1..n
  BY <1>1, <1>2
<1>5. f \in [S -> 1..n]
  BY <1>4
<1> HIDE DEF n, f
<1>6. ASSUME NEW p \in S, NEW t \in S, f[p] = f[t] PROVE p = t
  <2>1. Cardinality(Ahead(S, R, p)) = Cardinality(Ahead(S, R, t))
    BY <1>2, <1>4, <1>6
  <2> QED BY <1>3, <2>1
<1>7. f \in Injection(S, 1..n)
  BY <1>5, <1>6 DEF Injection, IsInjective
<1>8. IsFiniteSet(1..n) /\ Cardinality(1..n) = n
  BY <1>1, FS_Interval
<1>9. f \in Surjection(S, 1..n)
  BY <1>7, <1>8, FS_Injection DEF n
<1>10. ASSUME NEW r \in 1..n
       PROVE  \E p \in S : Cardinality(Ahead(S, R, p)) = r - 1
  <2>1. PICK p \in S : f[p] = r
    BY <1>9 DEF Surjection
  <2>2. Cardinality(Ahead(S, R, p)) \in Nat /\ f[p] = Cardinality(Ahead(S, R, p)) + 1
    BY <1>2, <1>4
  <2> QED BY <2>1, <2>2
<1>11. \A p \in S : Cardinality(Ahead(S, R, p)) \in 0..(n - 1)
  BY <1>1, <1>2
<1> QED BY <1>1, <1>3, <1>10, <1>11 DEF n

LEMMA RankIsTaken ==
    ASSUME NEW S, IsFiniteSet(S), NEW R, Orders(R, S), NEW r \in 1..Cardinality(S)
    PROVE  \E p \in S : Cardinality(Ahead(S, R, p)) = r - 1
BY RanksAreFilled

\* Ascending lists a finite set of numbers, each once.
LEMMA AscendingRanks ==
    ASSUME NEW S \in SUBSET Nat, IsFiniteSet(S)
    PROVE  /\ Cardinality(S) \in Nat
           /\ Ascending(S) \in [1..Cardinality(S) -> S]
           /\ \A p \in S : \E r \in 1..Cardinality(S) : Ascending(S)[r] = p
           /\ \A r \in 1..Cardinality(S) :
                 Cardinality({q \in S : q < Ascending(S)[r]}) = r - 1
<1>1. \A x, y \in S : <<x, y>> \in Below <=> x < y
  BY DEF Below
<1>2. \A p \in S : Ahead(S, Below, p) = {q \in S : q < p}
  BY <1>1 DEF Ahead
<1>3. Orders(Below, S)
  BY <1>1 DEF Orders
<1> DEFINE n == Cardinality(S)
           Rank(p) == Cardinality({q \in S : q < p})
<1>4. Ascending(S) = [r \in 1..n |-> CHOOSE p \in S : Rank(p) = r - 1]
  BY DEF Ascending, InOrder
<1>5. \A p \in S : Rank(p) = Cardinality(Ahead(S, Below, p))
  BY <1>2
<1> HIDE DEF n, Rank
<1>6. /\ n \in Nat
      /\ \A p \in S : Rank(p) \in 0..(n - 1)
      /\ \A p, t \in S : Rank(p) = Rank(t) => p = t
      /\ \A r \in 1..n : \E p \in S : Rank(p) = r - 1
  <2>0. /\ Cardinality(S) \in Nat
        /\ \A p \in S : Cardinality(Ahead(S, Below, p)) \in 0..(Cardinality(S) - 1)
        /\ \A p, t \in S :
              Cardinality(Ahead(S, Below, p)) = Cardinality(Ahead(S, Below, t)) => p = t
        /\ \A r \in 1..Cardinality(S) : \E p \in S :
              Cardinality(Ahead(S, Below, p)) = r - 1
    <3>1. Cardinality(S) \in Nat
      BY <1>3, RanksAreFilled
    <3>2. \A p \in S : Cardinality(Ahead(S, Below, p)) \in 0..(Cardinality(S) - 1)
      BY <1>3, RanksAreFilled
    <3>3. \A p, t \in S :
              Cardinality(Ahead(S, Below, p)) = Cardinality(Ahead(S, Below, t)) => p = t
      BY <1>3, RanksAreFilled
    <3>4. \A r \in 1..Cardinality(S) : \E p \in S :
              Cardinality(Ahead(S, Below, p)) = r - 1
      <4> SUFFICES ASSUME NEW r \in 1..Cardinality(S)
                   PROVE  \E p \in S : Cardinality(Ahead(S, Below, p)) = r - 1
        OBVIOUS
      <4> QED BY <1>3, RankIsTaken
    <3> QED BY <3>1, <3>2, <3>3, <3>4
  <2>1. /\ n \in Nat
        /\ \A p \in S : Cardinality(Ahead(S, Below, p)) \in 0..(n - 1)
        /\ \A p, t \in S :
              Cardinality(Ahead(S, Below, p)) = Cardinality(Ahead(S, Below, t)) => p = t
        /\ \A r \in 1..n : \E p \in S : Cardinality(Ahead(S, Below, p)) = r - 1
    BY <2>0 DEF n
  <2>2. \A r \in 1..n : \E p \in S : Rank(p) = r - 1
    <3> SUFFICES ASSUME NEW r \in 1..n PROVE \E p \in S : Rank(p) = r - 1
      OBVIOUS
    <3>1. PICK p \in S : Cardinality(Ahead(S, Below, p)) = r - 1
      BY <2>1
    <3> QED BY <1>5, <3>1
  <2>3. \A p \in S : Rank(p) \in 0..(n - 1)
    BY <1>5, <2>1
  <2>4. ASSUME NEW p \in S, NEW t \in S, Rank(p) = Rank(t) PROVE p = t
    <3>1. Cardinality(Ahead(S, Below, p)) = Cardinality(Ahead(S, Below, t))
      BY <1>5, <2>4
    <3> QED BY <2>1, <3>1
  <2> QED BY <2>1, <2>2, <2>3, <2>4
<1>7. \A r \in 1..n : Ascending(S)[r] \in S /\ Rank(Ascending(S)[r]) = r - 1
  BY <1>4, <1>6
<1>8. Ascending(S) \in [1..n -> S]
  BY <1>4, <1>7
<1>9. ASSUME NEW p \in S PROVE \E r \in 1..n : Ascending(S)[r] = p
  <2>1. Rank(p) + 1 \in 1..n /\ Rank(p) \in Nat /\ Rank(p) + 1 - 1 = Rank(p)
    BY <1>6
  <2>2. Ascending(S)[Rank(p) + 1] = p
    <3>1. Ascending(S)[Rank(p) + 1] \in S /\ Rank(Ascending(S)[Rank(p) + 1]) = Rank(p)
      BY <1>7, <2>1
    <3> QED BY <1>6, <3>1
  <2> QED BY <2>1, <2>2
<1>10. \A r \in 1..n : Cardinality({q \in S : q < Ascending(S)[r]}) = r - 1
  BY <1>7 DEF Rank
<1> QED BY <1>6, <1>8, <1>9, <1>10 DEF n

LEMMA AscendingLists ==
    ASSUME NEW S \in SUBSET Nat, IsFiniteSet(S)
    PROVE  /\ Cardinality(S) \in Nat
           /\ Ascending(S) \in [1..Cardinality(S) -> S]
           /\ \A p \in S : \E r \in 1..Cardinality(S) : Ascending(S)[r] = p
BY AscendingRanks

\* What a filter keeps: exactly the elements at its positions.
LEMMA KeptIsExact ==
    ASSUME NEW T, NEW s \in Seq(T), NEW I \in SUBSET DOMAIN s
    PROVE  /\ IsFiniteSet(I) /\ Cardinality(I) \in Nat
           /\ Kept(s, I) \in Seq(T) /\ Len(Kept(s, I)) = Cardinality(I)
           /\ DOMAIN Kept(s, I) = 1..Cardinality(I)
           /\ \A r \in 1..Cardinality(I) : \E i \in I : Kept(s, I)[r] = s[i]
           /\ \A i \in I : \E r \in 1..Cardinality(I) : Kept(s, I)[r] = s[i]
<1> DEFINE n == Cardinality(I)
<1>1. DOMAIN s = 1..Len(s) /\ Len(s) \in Nat
  OBVIOUS
<1>2. IsFiniteSet(1..Len(s))
  BY <1>1, FS_Interval
<1>3. IsFiniteSet(I) /\ I \in SUBSET Nat
  BY <1>1, <1>2, FS_Subset
<1>4. /\ n \in Nat /\ Ascending(I) \in [1..n -> I]
      /\ \A i \in I : \E r \in 1..n : Ascending(I)[r] = i
  BY <1>3, AscendingLists
<1>5. Kept(s, I) = [r \in 1..n |-> s[Ascending(I)[r]]]
  BY DEF Kept
<1>6. \A i \in I : s[i] \in T
  BY <1>1
<1> HIDE DEF n
<1>7. Kept(s, I) \in [1..n -> T]
  BY <1>4, <1>5, <1>6
<1>8. Kept(s, I) \in Seq(T) /\ Len(Kept(s, I)) = n /\ DOMAIN Kept(s, I) = 1..n
  BY <1>4, <1>7
<1>9. \A r \in 1..n : \E i \in I : Kept(s, I)[r] = s[i]
  BY <1>4, <1>5
<1>10. \A i \in I : \E r \in 1..n : Kept(s, I)[r] = s[i]
  BY <1>4, <1>5
<1> QED BY <1>3, <1>4, <1>8, <1>9, <1>10 DEF n


\* A set of numbers that is not empty and has a bound has a last.
LEMMA LastIsGreatest ==
    ASSUME NEW n \in Nat, NEW S \in SUBSET (0..n), S # {}
    PROVE  Last(S) \in S /\ \A k \in S : k <= Last(S)
<1> DEFINE Back == {n - k : k \in S}
<1>1. Back \in SUBSET Nat /\ Back # {}
  <2>1. \A k \in S : k \in 0..n /\ n - k \in Nat
    OBVIOUS
  <2>2. PICK k \in S : TRUE
    OBVIOUS
  <2>3. n - k \in Back
    BY <2>2
  <2>4. Back \in SUBSET Nat
    BY <2>1
  <2> QED BY <2>3, <2>4
<1>2. First(Back) \in Back /\ \A m \in Back : First(Back) <= m
  <2> HIDE DEF Back
  <2> QED BY <1>1, FirstIsLeast
<1>3. PICK i \in S : First(Back) = n - i
  BY <1>2
<1>4. \A k \in S : n - k \in Back
  OBVIOUS
<1> HIDE DEF Back
<1>5. \A k \in S : n - i <= n - k
  BY <1>2, <1>3, <1>4
<1>6. \A k \in S : k <= i
  BY <1>5
<1> QED BY <1>6 DEF Last

\* The same of one of its elements, and of one of its positions.
LEMMA KeptComesFrom ==
    ASSUME NEW T, NEW s \in Seq(T), NEW I \in SUBSET DOMAIN s, NEW r \in DOMAIN Kept(s, I)
    PROVE  \E i \in I : Kept(s, I)[r] = s[i]
BY KeptIsExact

LEMMA KeptGoesTo ==
    ASSUME NEW T, NEW s \in Seq(T), NEW I \in SUBSET DOMAIN s, NEW i \in I
    PROVE  \E r \in DOMAIN Kept(s, I) : Kept(s, I)[r] = s[i]
BY KeptIsExact

-----------------------------------------------------------------------------
(* Documents *)

LEMMA ElementsBound ==
    ASSUME NEW doc \in Seq(Elements), NEW i \in DOMAIN doc
    PROVE  /\ LastInside(doc, i) \in i..Len(doc) /\ LastInside(doc, i) \in Nat
           /\ Subtree(doc, i) \in SUBSET (DOMAIN doc) /\ i \in Nat
<1> DEFINE outside == {m \in (i + 1)..Len(doc) : doc[m].depth <= doc[i].depth}
<1>1. DOMAIN doc = 1..Len(doc) /\ Len(doc) \in Nat /\ i \in 1..Len(doc)
  OBVIOUS
<1>2. outside \in SUBSET Nat /\ outside \in SUBSET ((i + 1)..Len(doc))
  BY <1>1
<1>3. LastInside(doc, i) = IF outside = {} THEN Len(doc) ELSE First(outside) - 1
  BY DEF LastInside
<1> HIDE DEF outside
<1>4. LastInside(doc, i) \in i..Len(doc)
  <2>1. CASE outside = {}
    BY <1>1, <1>3, <2>1
  <2>2. CASE outside # {}
    <3>1. First(outside) \in (i + 1)..Len(doc)
      BY <1>2, <2>2, FirstIsLeast
    <3> QED BY <1>1, <1>3, <2>2, <3>1
  <2> QED BY <2>1, <2>2
<1> QED BY <1>1, <1>4 DEF Subtree

\* The element that is looked for is one of the document, or none.
LEMMA TargetIsInside ==
    ASSUME NEW doc \in Seq(Elements), doc # <<>>, NEW part, NEW section
    PROVE  find_target_node(doc, part, section) \in 0..Len(doc)
<1>1. DOMAIN doc = 1..Len(doc) /\ Len(doc) \in Nat /\ Len(doc) # 0 /\ 1 \in DOMAIN doc
  OBVIOUS
<1>2. ASSUME NEW i \in DOMAIN doc, NEW kind, NEW number
      PROVE  /\ find_all(doc, i, kind, number) \in SUBSET (DOMAIN doc)
             /\ find_all(doc, i, kind, number) # {}
                  => First(find_all(doc, i, kind, number)) \in DOMAIN doc
  <2>1. find_all(doc, i, kind, number) \in SUBSET (DOMAIN doc)
    BY ElementsBound DEF find_all
  <2>2. find_all(doc, i, kind, number) \in SUBSET Nat
    BY <1>1, <2>1
  <2> QED BY <2>1, <2>2, FirstIsLeast
<1> DEFINE parts == IF part = NoNumber THEN {} ELSE find_all(doc, 1, "PART", part)
           scope == IF parts = {} THEN 1 ELSE First(parts)
           number == requested_section(part, section)
           found == find_all(doc, scope, "SECTION", number)
<1>3. scope \in DOMAIN doc
  BY <1>1, <1>2
<1>4. found # {} => First(found) \in DOMAIN doc
  BY <1>2, <1>3
<1>5. find_target_node(doc, part, section) =
        CASE section = NoNumber -> IF parts = {} THEN 0 ELSE scope
          [] section # NoNumber /\ found # {} -> First(found)
          [] section # NoNumber /\ found = {} ->
                IF node_number(doc, 1, "SECTION") = number THEN 1 ELSE 0
  BY DEF find_target_node
<1> HIDE DEF parts, scope, number, found
<1>6. \A k \in DOMAIN doc : k \in 0..Len(doc)
  BY <1>1
<1>7. 0 \in 0..Len(doc)
  BY <1>1
<1> QED BY <1>1, <1>3, <1>4, <1>5, <1>6, <1>7


\* The pieces of the whole document, and the order of their end tags.
Blocks(doc) == {Piece(k, "text") : k \in {m \in DOMAIN doc : doc[m].text}}
Ends(doc) == {pair \in Blocks(doc) \X Blocks(doc) : EndsBefore(doc, pair[1].node, pair[2].node)}

LEMMA BlocksAreOrdered ==
    ASSUME NEW doc \in Seq(Elements)
    PROVE  /\ IsFiniteSet(Blocks(doc)) /\ Orders(Ends(doc), Blocks(doc))
           /\ \A p \in Blocks(doc) : p.node \in DOMAIN doc
<1> DEFINE S == Blocks(doc)
           f == [p \in S |-> p.node]
<1>1. DOMAIN doc = 1..Len(doc) /\ Len(doc) \in Nat /\ IsFiniteSet(1..Len(doc))
  BY FS_Interval
<1>2. \A p \in S : /\ p.node \in DOMAIN doc /\ p.node \in Nat
                   /\ p = [node |-> p.node, where |-> "text"]
  BY <1>1 DEF Blocks, Piece
<1>3. \A p \in S : LastInside(doc, p.node) \in Nat
  BY <1>2, ElementsBound
<1>4. \A p, t \in S : p.node = t.node => p = t
  BY <1>2
<1> HIDE DEF S
<1>5. f \in Injection(S, 1..Len(doc))
  BY <1>1, <1>2, <1>4 DEF Injection, IsInjective
<1>6. IsFiniteSet(S)
  BY <1>1, <1>5, FS_Injection
<1>7. \A p, t \in S : <<p, t>> \in Ends(doc) <=>
        \/ LastInside(doc, p.node) < LastInside(doc, t.node)
        \/ LastInside(doc, p.node) = LastInside(doc, t.node) /\ p.node > t.node
  BY DEF Ends, EndsBefore, S
<1>8. Orders(Ends(doc), S)
  <2>1. \A x \in S : <<x, x>> \notin Ends(doc)
    BY <1>2, <1>3, <1>7
  <2>2. ASSUME NEW x \in S, NEW y \in S, NEW z \in S,
               <<x, y>> \in Ends(doc), <<y, z>> \in Ends(doc)
        PROVE  <<x, z>> \in Ends(doc)
    BY <1>2, <1>3, <1>7, <2>2
  <2>3. ASSUME NEW x \in S, NEW y \in S, x # y
        PROVE  <<x, y>> \in Ends(doc) \/ <<y, x>> \in Ends(doc)
    <3>1. x.node # y.node
      BY <1>4, <2>3
    <3> QED BY <1>2, <1>3, <1>7, <3>1
  <2> QED BY <2>1, <2>2, <2>3 DEF Orders
<1> QED BY <1>2, <1>6, <1>8 DEF S

\* The pieces of a text are of elements of the document.
IsOf(doc, pieces) ==
    \E n \in Nat : DOMAIN pieces = 1..n /\ \A r \in 1..n : pieces[r].node \in DOMAIN doc

LEMMA BlocksAreInside ==
    ASSUME NEW doc \in Seq(Elements)
    PROVE  IsOf(doc, iter_text_blocks(doc))
<1> DEFINE S == Blocks(doc)
           n == Cardinality(S)
           Rank(p) == Cardinality({q \in S : EndsBefore(doc, q.node, p.node)})
<1>1. iter_text_blocks(doc) = [r \in 1..n |-> CHOOSE p \in S : Rank(p) = r - 1]
  BY DEF iter_text_blocks, InOrder, Blocks
<1>2. \A p \in S : Ahead(S, Ends(doc), p) = {q \in S : EndsBefore(doc, q.node, p.node)}
  BY DEF Ahead, Ends
<1>3. \A p \in S : Rank(p) = Cardinality(Ahead(S, Ends(doc), p))
  BY <1>2
<1>4. IsFiniteSet(S) /\ Orders(Ends(doc), S) /\ \A p \in S : p.node \in DOMAIN doc
  BY BlocksAreOrdered
<1>5. n \in Nat
  BY <1>4, FS_CardinalityType
<1> HIDE DEF S, Rank
<1>6. ASSUME NEW r \in 1..n PROVE iter_text_blocks(doc)[r] \in S
  <2>1. PICK p \in S : Cardinality(Ahead(S, Ends(doc), p)) = r - 1
    BY <1>4, <1>6, RankIsTaken
  <2>2. Rank(p) = r - 1
    BY <1>3, <2>1
  <2>3. iter_text_blocks(doc)[r] = CHOOSE q \in S : Rank(q) = r - 1
    BY <1>1, <1>6
  <2> QED BY <2>2, <2>3
<1>7. DOMAIN iter_text_blocks(doc) = 1..n
  BY <1>1
<1> HIDE DEF n
<1> QED BY <1>4, <1>5, <1>6, <1>7 DEF IsOf

LEMMA ExtractIsInside ==
    ASSUME NEW doc \in Seq(Elements), NEW i \in DOMAIN doc
    PROVE  IsOf(doc, extract_text_from_node(doc, i))
<1> DEFINE S == {k \in Subtree(doc, i) : doc[k].text}
           n == Cardinality(S)
<1>1. S \in SUBSET (DOMAIN doc)
  BY ElementsBound
<1>2. extract_text_from_node(doc, i) =
        [r \in DOMAIN Ascending(S) |-> Piece(Ascending(S)[r], "text")]
  BY DEF extract_text_from_node
<1> HIDE DEF S
<1>3. IsFiniteSet(S) /\ S \in SUBSET Nat
  <2>1. DOMAIN doc = 1..Len(doc) /\ Len(doc) \in Nat /\ IsFiniteSet(1..Len(doc))
    BY FS_Interval
  <2> QED BY <1>1, <2>1, FS_Subset
<1>4. n \in Nat /\ Ascending(S) \in [1..n -> S]
  BY <1>3, AscendingLists
<1> HIDE DEF n
<1>5. \A r \in 1..n : Ascending(S)[r] \in DOMAIN doc
  BY <1>1, <1>4
<1>6. DOMAIN extract_text_from_node(doc, i) = 1..n
  BY <1>2, <1>4
<1>7. \A r \in 1..n : extract_text_from_node(doc, i)[r].node \in DOMAIN doc
  BY <1>2, <1>4, <1>5 DEF Piece
<1> QED BY <1>4, <1>6, <1>7 DEF IsOf

\* The answer is a text of the document, under a heading of it.
LEMMA AnswerIsInside ==
    ASSUME NEW doc \in Seq(Elements), doc # <<>>, NEW part, NEW section
    PROVE  /\ parse_regulation_xml(doc, part, section).ok \in BOOLEAN
           /\ parse_regulation_xml(doc, part, section).heading \in 0..Len(doc)
<1> DEFINE target == find_target_node(doc, part, section)
           text_ == IF part = NoNumber /\ section = NoNumber THEN iter_text_blocks(doc)
                    ELSE IF target = 0 THEN <<>> ELSE extract_text_from_node(doc, target)
<1>1. parse_regulation_xml(doc, part, section) =
        [ok |-> text_ # <<>>, text |-> text_, heading |-> first_heading(doc, text_)]
  BY DEF parse_regulation_xml
<1>2. DOMAIN doc = 1..Len(doc) /\ Len(doc) \in Nat
  OBVIOUS
<1>3. target \in 0..Len(doc)
  BY TargetIsInside
<1>4. IsOf(doc, <<>>)
  BY DEF IsOf
<1>5. IsOf(doc, text_)
  <2>1. CASE part = NoNumber /\ section = NoNumber
    BY <2>1, BlocksAreInside
  <2>2. CASE ~(part = NoNumber /\ section = NoNumber) /\ target = 0
    BY <1>4, <2>2
  <2>3. CASE ~(part = NoNumber /\ section = NoNumber) /\ target # 0
    <3> HIDE DEF target
    <3>1. target \in DOMAIN doc
      BY <1>2, <1>3, <2>3
    <3> QED BY <2>3, <3>1, ExtractIsInside
  <2> QED BY <2>1, <2>2, <2>3
<1> HIDE DEF text_, target
<1>6. first_heading(doc, text_) \in 0..Len(doc)
  <2> DEFINE heads == {r \in DOMAIN text_ : doc[text_[r].node].tag = "HEAD"}
  <2>1. PICK n \in Nat : DOMAIN text_ = 1..n /\ \A r \in 1..n : text_[r].node \in DOMAIN doc
    BY <1>5 DEF IsOf
  <2>2. heads \in SUBSET Nat /\ heads \in SUBSET (1..n)
    BY <2>1
  <2>3. first_heading(doc, text_) = IF heads = {} THEN 0 ELSE text_[First(heads)].node
    BY DEF first_heading
  <2> HIDE DEF heads
  <2>4. heads # {} => First(heads) \in 1..n
    BY <2>2, FirstIsLeast
  <2> QED BY <1>2, <2>1, <2>3, <2>4
<1> QED BY <1>1, <1>6


-----------------------------------------------------------------------------
(* Queries *)

Phrases == Seq(STRING)

LEMMA WithinIsAnOrder ==
    ASSUME NEW a \in Phrases, NEW b \in Phrases
    PROVE  /\ Within(a, a)
           /\ Within(a, b) => Len(a) <= Len(b)
           /\ Within(a, b) /\ Len(a) = Len(b) => a = b
           /\ \A c \in Phrases : Within(a, b) /\ Within(b, c) => Within(a, c)
<1>1. Len(a) \in Nat /\ Len(b) \in Nat /\ DOMAIN a = 1..Len(a) /\ DOMAIN b = 1..Len(b)
  BY DEF Phrases
<1>2. Within(a, a)
  <2>1. 0 \in 0..(Len(a) - Len(a)) /\ \A k \in DOMAIN a : a[0 + k] = a[k]
    BY <1>1
  <2> QED BY <2>1 DEF Within
<1>3. ASSUME Within(a, b)
      PROVE  Len(a) <= Len(b) /\ (Len(a) = Len(b) => a = b)
  <2>1. PICK i \in 0..(Len(b) - Len(a)) : \A k \in DOMAIN a : b[i + k] = a[k]
    BY <1>3 DEF Within
  <2>2. Len(a) <= Len(b)
    BY <1>1, <2>1
  <2>3. ASSUME Len(a) = Len(b) PROVE a = b
    <3>1. i = 0
      BY <1>1, <2>1, <2>3
    <3>2. \A k \in 1..Len(a) : b[k] = a[k]
      BY <1>1, <2>1, <3>1
    <3> QED BY <1>1, <2>3, <3>2, SeqEqual DEF Phrases
  <2> QED BY <2>2, <2>3
<1>4. ASSUME NEW c \in Phrases, Within(a, b), Within(b, c)
      PROVE  Within(a, c)
  <2>1. PICK i \in 0..(Len(b) - Len(a)) : \A k \in DOMAIN a : b[i + k] = a[k]
    BY <1>4 DEF Within
  <2>2. PICK j \in 0..(Len(c) - Len(b)) : \A k \in DOMAIN b : c[j + k] = b[k]
    BY <1>4 DEF Within
  <2>3. Len(c) \in Nat
    BY DEF Phrases
  <2>4. j + i \in 0..(Len(c) - Len(a))
    BY <1>1, <2>1, <2>2, <2>3
  <2>5. ASSUME NEW k \in DOMAIN a PROVE c[(j + i) + k] = a[k]
    <3>1. i + k \in DOMAIN b /\ (j + i) + k = j + (i + k)
      BY <1>1, <2>1, <2>2
    <3> QED BY <2>1, <2>2, <3>1
  <2> QED BY <2>4, <2>5 DEF Within
<1> QED BY <1>2, <1>3, <1>4

LEMMA WordsAreStrings ==
    ASSUME NEW clause \in Seq(Words), NEW k \in DOMAIN clause
    PROVE  clause[k].word \in STRING
<1>1. clause[k] \in Words
  OBVIOUS
<1> QED BY <1>1 DEF Words

\* A token is a phrase of the clause.
LEMMA TokenIsWithin ==
    ASSUME NEW clause \in Seq(Words), NEW i \in DOMAIN clause
    PROVE  TokenAt(clause, i) \in Phrases /\ Within(TokenAt(clause, i), WordsOf(clause))
<1> DEFINE ends == {k \in i..Len(clause) : k = Len(clause) \/ clause[k].then # "hyphen"}
           n == First(ends)
<1>1. DOMAIN clause = 1..Len(clause) /\ Len(clause) \in Nat /\ i \in 1..Len(clause)
  OBVIOUS
<1>2. ends \in SUBSET Nat /\ Len(clause) \in ends /\ ends \in SUBSET (i..Len(clause))
  BY <1>1
<1>3. TokenAt(clause, i) = [k \in 1..(n - i + 1) |-> clause[i + k - 1].word]
  BY DEF TokenAt
<1> HIDE DEF ends
<1>4. n \in i..Len(clause)
  BY <1>2, FirstIsLeast
<1> HIDE DEF n
<1>5. \A k \in 1..(n - i + 1) : i + k - 1 \in DOMAIN clause
  BY <1>1, <1>4
<1>6. n - i + 1 \in Nat
  BY <1>1, <1>4
<1>7. \A k \in DOMAIN clause : clause[k].word \in STRING
  BY WordsAreStrings
<1>8. TokenAt(clause, i) \in [1..(n - i + 1) -> STRING]
  BY <1>3, <1>5, <1>7
<1>9. TokenAt(clause, i) \in Phrases /\ Len(TokenAt(clause, i)) = n - i + 1
  BY <1>6, <1>8 DEF Phrases
<1>10. WordsOf(clause) = [k \in 1..Len(clause) |-> clause[k].word]
  BY <1>1 DEF WordsOf
<1>11. Len(WordsOf(clause)) = Len(clause)
  BY <1>1, <1>10
<1>12. i - 1 \in 0..(Len(WordsOf(clause)) - Len(TokenAt(clause, i)))
  BY <1>1, <1>4, <1>9, <1>11
<1>13. ASSUME NEW k \in DOMAIN TokenAt(clause, i)
       PROVE  WordsOf(clause)[i - 1 + k] = TokenAt(clause, i)[k]
  <2>1. k \in 1..(n - i + 1) /\ i + k - 1 \in 1..Len(clause) /\ i - 1 + k = i + k - 1
    BY <1>1, <1>3, <1>5
  <2> QED BY <1>3, <1>10, <2>1
<1> QED BY <1>9, <1>12, <1>13 DEF Within

LEMMA WordsOfIsAPhrase ==
    ASSUME NEW clause \in Seq(Words)
    PROVE  WordsOf(clause) \in Phrases
<1>1. \A k \in DOMAIN clause : clause[k].word \in STRING
  BY WordsAreStrings
<1>2. DOMAIN clause = 1..Len(clause) /\ Len(clause) \in Nat
  OBVIOUS
<1>3. WordsOf(clause) \in [1..Len(clause) -> STRING]
  BY <1>1, <1>2 DEF WordsOf
<1> QED BY <1>2, <1>3 DEF Phrases

\* Phrases that are all in a clause.
AreWithin(phrases, clause) ==
    /\ phrases \in Seq(Phrases)
    /\ \A i \in DOMAIN phrases : Within(phrases[i], WordsOf(clause))

\* The keyword query is made of tokens.
LEMMA KeywordQueryIsWithin ==
    ASSUME NEW clause \in Seq(Words)
    PROVE  AreWithin(build_search_query(clause), clause)
<1> DEFINE tokens == [i \in DOMAIN clause |-> TokenAt(clause, i)]
           starts == {i \in TokenStarts(clause) :
                        /\ TokenAt(clause, i) \notin StopWords
                        /\ \A k \in TokenStarts(clause) :
                              k < i => TokenAt(clause, k) # TokenAt(clause, i)}
           kept == Kept(tokens, starts)
           fits == {n \in 0..Len(kept) : QueryLength(kept, n) <= MaxQueryChars}
<1>1. DOMAIN clause = 1..Len(clause) /\ Len(clause) \in Nat
  OBVIOUS
<1>2. tokens \in Seq(Phrases) /\ DOMAIN tokens = DOMAIN clause
  <2>1. tokens \in [1..Len(clause) -> Phrases]
    BY <1>1, TokenIsWithin
  <2> QED BY <1>1, <2>1
<1>3. starts \in SUBSET DOMAIN tokens
  BY DEF TokenStarts
<1>4. \A i \in starts : tokens[i] = TokenAt(clause, i) /\ i \in DOMAIN clause
  BY <1>3
<1>5. build_search_query(clause) = SubSeq(kept, 1, Last(fits))
  BY DEF build_search_query, Keywords
<1> HIDE DEF tokens, starts
<1>6. /\ kept \in Seq(Phrases) /\ Len(kept) \in Nat
      /\ \A r \in 1..Len(kept) : \E i \in starts : kept[r] = tokens[i]
  BY <1>2, <1>3, KeptIsExact
<1> HIDE DEF kept
<1>7. Last(fits) \in 0..Len(kept)
  <2>1. QueryLength(kept, 0) <= MaxQueryChars
    BY RetrievalAssumption DEF QueryLength, RetrievalAssumption
  <2>2. fits \in SUBSET (0..Len(kept)) /\ 0 \in fits
    BY <1>6, <2>1
  <2> HIDE DEF fits
  <2> QED BY <1>6, <2>2, LastIsGreatest
<1> DEFINE n == Last(fits)
<1> HIDE DEF n, fits
<1>8. /\ build_search_query(clause) \in Seq(Phrases)
      /\ Len(build_search_query(clause)) = n
      /\ \A r \in 1..n : build_search_query(clause)[r] = kept[r]
  <2>1. n \in 0..Len(kept) /\ build_search_query(clause) = SubSeq(kept, 1, n)
    BY <1>5, <1>7 DEF n
  <2> QED BY <1>6, <2>1, SubSeqProperties
<1>9. n \in 0..Len(kept)
  BY <1>7 DEF n
<1>10. DOMAIN build_search_query(clause) = 1..n
  BY <1>8
<1>11. ASSUME NEW r \in 1..n
       PROVE  Within(build_search_query(clause)[r], WordsOf(clause))
  <2>1. r \in 1..Len(kept)
    BY <1>6, <1>9
  <2>2. PICK i \in starts : kept[r] = tokens[i]
    BY <1>6, <2>1
  <2>3. build_search_query(clause)[r] = TokenAt(clause, i)
    BY <1>4, <1>8, <2>2
  <2> QED BY <1>4, <2>3, TokenIsWithin
<1> QED BY <1>8, <1>10, <1>11 DEF AreWithin


LEMMA RulesAreTables ==
    /\ DOMAIN DOMAIN_RULES = 1..5
    /\ \A r \in 1..5 : /\ DOMAIN_RULES[r].title \in Titles /\ DOMAIN_RULES[r].title # NoTitle
                       /\ DOMAIN_RULES[r].keywords \in Seq(Phrases)
<1>1. DOMAIN DOMAIN_RULES = 1..5
  BY DEF DOMAIN_RULES
<1>2. \A r \in 1..5 : DOMAIN_RULES[r] \in [title : Titles, keywords : Seq(Phrases)]
  <2>1. DOMAIN_RULES \in Seq([title : Titles, keywords : Seq(Phrases)])
    BY RetrievalAssumption DEF RetrievalAssumption, Phrases
  <2>2. ASSUME NEW T, NEW s \in Seq(T), NEW r \in DOMAIN s PROVE s[r] \in T
    OBVIOUS
  <2> QED BY <1>1, <2>1, <2>2
<1> QED BY <1>1, <1>2, RetrievalAssumption DEF RetrievalAssumption

\* What a domain matches in a clause is what is found of it.
LEMMA MatchedIsFound ==
    ASSUME NEW clause \in Seq(Words), NEW r \in 1..5
    PROVE  LET matched == matched_keywords(DOMAIN_RULES[r], clause)
               keywords == DOMAIN_RULES[r].keywords
           IN  /\ AreWithin(matched, clause) /\ IsFiniteSet(Found(r, clause))
               /\ Len(matched) = Cardinality(Found(r, clause)) /\ Len(matched) \in Nat
               /\ \A k \in Found(r, clause) : /\ keywords[k] \in Phrases
                                              /\ \E j \in DOMAIN matched : matched[j] = keywords[k]
<1> DEFINE keywords == DOMAIN_RULES[r].keywords
           found == Found(r, clause)
           matched == matched_keywords(DOMAIN_RULES[r], clause)
<1>1. keywords \in Seq(Phrases)
  BY RulesAreTables
<1>2. found = {k \in DOMAIN keywords : OccursIn(keywords[k], clause)}
  BY DEF Found
<1>3. matched = Kept(keywords, found)
  BY <1>2 DEF matched_keywords
<1> HIDE DEF keywords, found, matched
<1>4. /\ matched \in Seq(Phrases) /\ Len(matched) = Cardinality(found) /\ IsFiniteSet(found)
      /\ Cardinality(found) \in Nat /\ DOMAIN matched = 1..Cardinality(found)
      /\ \A j \in DOMAIN matched : \E k \in found : matched[j] = keywords[k]
      /\ \A k \in found : \E j \in DOMAIN matched : matched[j] = keywords[k]
  <2>1. found \in SUBSET DOMAIN keywords
    BY <1>2
  <2>2. /\ matched \in Seq(Phrases) /\ Len(matched) = Cardinality(found)
        /\ IsFiniteSet(found) /\ Cardinality(found) \in Nat
        /\ DOMAIN matched = 1..Cardinality(found)
    BY <1>1, <1>3, <2>1, KeptIsExact
  <2>3. ASSUME NEW j \in DOMAIN matched PROVE \E k \in found : matched[j] = keywords[k]
    BY <1>1, <1>3, <2>1, KeptComesFrom
  <2>4. ASSUME NEW k \in found PROVE \E j \in DOMAIN matched : matched[j] = keywords[k]
    BY <1>1, <1>3, <2>1, KeptGoesTo
  <2> QED BY <2>2, <2>3, <2>4
<1>5. WordsOf(clause) = [k \in 1..Len(clause) |-> clause[k].word] /\ Len(clause) \in Nat
  BY DEF WordsOf
<1>6. ASSUME NEW k \in found PROVE Within(keywords[k], WordsOf(clause))
  <2>1. PICK i \in 0..(Len(clause) - Len(keywords[k])) :
          \A m \in DOMAIN keywords[k] : clause[i + m].word = keywords[k][m]
    BY <1>2 DEF OccursIn
  <2>2. keywords[k] \in Phrases
    BY <1>1, <1>2
  <2>3. DOMAIN keywords[k] = 1..Len(keywords[k]) /\ Len(keywords[k]) \in Nat
    BY <2>2 DEF Phrases
  <2>4. Len(WordsOf(clause)) = Len(clause)
    BY <1>5
  <2>5. ASSUME NEW m \in DOMAIN keywords[k]
        PROVE  WordsOf(clause)[i + m] = keywords[k][m]
    <3>1. i + m \in 1..Len(clause)
      BY <1>5, <2>1, <2>3
    <3> QED BY <1>5, <2>1, <3>1
  <2> QED BY <2>1, <2>4, <2>5 DEF Within
<1>7. AreWithin(matched, clause)
  BY <1>4, <1>6 DEF AreWithin
<1>8. \A k \in found : keywords[k] \in Phrases
  BY <1>1, <1>2
<1> QED BY <1>4, <1>7, <1>8 DEF keywords, found, matched

\* Of the keywords that contain one another the longest are kept: each keyword is
\* part of one that is.
LEMMA DedupeKeepsTheLongest ==
    ASSUME NEW clause \in Seq(Words), NEW keywords, AreWithin(keywords, clause)
    PROVE  /\ AreWithin(dedupe_contained(keywords), clause)
           /\ \A j \in DOMAIN keywords : \E i \in DOMAIN dedupe_contained(keywords) :
                 Within(keywords[j], dedupe_contained(keywords)[i])
<1> DEFINE kept == {i \in DOMAIN keywords : \A k \in DOMAIN keywords :
                      keywords[k] # keywords[i] => ~Within(keywords[i], keywords[k])}
           words == WordsOf(clause)
<1>1. keywords \in Seq(Phrases) /\ \A i \in DOMAIN keywords : keywords[i] \in Phrases
  BY DEF AreWithin
<1>2. dedupe_contained(keywords) = Kept(keywords, kept)
  BY DEF dedupe_contained
<1>3. /\ dedupe_contained(keywords) \in Seq(Phrases)
      /\ \A j \in DOMAIN dedupe_contained(keywords) : \E i \in kept :
            dedupe_contained(keywords)[j] = keywords[i]
      /\ \A i \in kept : \E j \in DOMAIN dedupe_contained(keywords) :
            dedupe_contained(keywords)[j] = keywords[i]
  <2>1. kept \in SUBSET DOMAIN keywords
    OBVIOUS
  <2> HIDE DEF kept
  <2>2. dedupe_contained(keywords) \in Seq(Phrases)
    BY <1>1, <1>2, <2>1, KeptIsExact
  <2>3. ASSUME NEW j \in DOMAIN dedupe_contained(keywords)
        PROVE  \E i \in kept : dedupe_contained(keywords)[j] = keywords[i]
    BY <1>1, <1>2, <2>1, KeptComesFrom
  <2>4. ASSUME NEW i \in kept
        PROVE  \E j \in DOMAIN dedupe_contained(keywords) :
                  dedupe_contained(keywords)[j] = keywords[i]
    BY <1>1, <1>2, <2>1, KeptGoesTo
  <2> QED BY <2>2, <2>3, <2>4
<1>4. AreWithin(dedupe_contained(keywords), clause)
  BY <1>3 DEF AreWithin
<1>5. words \in Phrases /\ Len(words) \in Nat
  BY WordsOfIsAPhrase DEF Phrases
<1> HIDE DEF words
<1>6. ASSUME NEW j \in DOMAIN keywords
      PROVE  \E i \in kept : Within(keywords[j], keywords[i])
  <2> DEFINE over == {k \in DOMAIN keywords : Within(keywords[j], keywords[k])}
             lengths == {Len(keywords[k]) : k \in over}
  <2>1. \A k \in DOMAIN keywords : Len(keywords[k]) \in 0..Len(words)
    <3> SUFFICES ASSUME NEW k \in DOMAIN keywords
                 PROVE  Len(keywords[k]) \in 0..Len(words)
      OBVIOUS
    <3>1. Within(keywords[k], words) /\ keywords[k] \in Phrases
      BY <1>1 DEF AreWithin, words
    <3>2. Len(keywords[k]) <= Len(words)
      BY <1>5, <3>1, WithinIsAnOrder
    <3>3. Len(keywords[k]) \in Nat
      BY <3>1 DEF Phrases
    <3> QED BY <1>5, <3>2, <3>3
  <2>2. j \in over
    BY <1>1, WithinIsAnOrder
  <2>3. lengths \in SUBSET (0..Len(words)) /\ Len(keywords[j]) \in lengths
    BY <2>1, <2>2
  <2>4. Last(lengths) \in lengths /\ \A n \in lengths : n <= Last(lengths)
    <3> HIDE DEF lengths
    <3> QED BY <1>5, <2>3, LastIsGreatest
  <2>5. PICK i \in over : Last(lengths) = Len(keywords[i])
    BY <2>4
  <2>6. \A k \in over : Len(keywords[k]) <= Len(keywords[i])
    BY <2>4, <2>5
  <2>7. ASSUME NEW k \in DOMAIN keywords, keywords[k] # keywords[i],
               Within(keywords[i], keywords[k])
        PROVE  FALSE
    <3>1. Within(keywords[j], keywords[k])
      BY <1>1, <2>5, <2>7, WithinIsAnOrder
    <3>2. Len(keywords[k]) <= Len(keywords[i])
      BY <2>6, <3>1
    <3>3. Len(keywords[i]) <= Len(keywords[k])
      BY <1>1, <2>5, <2>7, WithinIsAnOrder
    <3>4. Len(keywords[i]) = Len(keywords[k])
      BY <2>1, <2>5, <3>2, <3>3
    <3> QED BY <1>1, <2>5, <2>7, <3>4, WithinIsAnOrder
  <2>8. i \in kept
    BY <2>5, <2>7
  <2> QED BY <2>5, <2>8
<1>7. ASSUME NEW j \in DOMAIN keywords
      PROVE  \E i \in DOMAIN dedupe_contained(keywords) :
                Within(keywords[j], dedupe_contained(keywords)[i])
  <2>1. PICK i \in kept : Within(keywords[j], keywords[i])
    BY <1>6
  <2> QED BY <1>3, <2>1
<1> QED BY <1>4, <1>7


\* There is a best of five scores.
LEMMA WinnerIsBest ==
    ASSUME NEW score \in [1..5 -> Nat]
    PROVE  Winner(score) \in 1..5 /\ \A s \in 1..5 : score[s] <= score[Winner(score)]
<1> DEFINE best == {r \in 1..5 : \A s \in 1..5 : score[s] <= score[r]}
<1>1. /\ score[1] \in Nat /\ score[2] \in Nat /\ score[3] \in Nat
      /\ score[4] \in Nat /\ score[5] \in Nat
  OBVIOUS
<1>2. \A s \in 1..5 : s = 1 \/ s = 2 \/ s = 3 \/ s = 4 \/ s = 5
  OBVIOUS
<1>3. \E r \in 1..5 : /\ score[1] <= score[r] /\ score[2] <= score[r] /\ score[3] <= score[r]
                      /\ score[4] <= score[r] /\ score[5] <= score[r]
  <2>1. \E r \in 1..2 : score[1] <= score[r] /\ score[2] <= score[r]
    BY <1>1
  <2>2. \E r \in 1..3 : score[1] <= score[r] /\ score[2] <= score[r] /\ score[3] <= score[r]
    BY <1>1, <2>1
  <2>3. \E r \in 1..4 : /\ score[1] <= score[r] /\ score[2] <= score[r] /\ score[3] <= score[r]
                        /\ score[4] <= score[r]
    BY <1>1, <2>2
  <2> QED BY <1>1, <2>3
<1>4. \E r \in 1..5 : \A s \in 1..5 : score[s] <= score[r]
  BY <1>2, <1>3
<1>5. best # {} /\ best \in SUBSET Nat
  BY <1>4
<1>6. Winner(score) = First(best)
  BY DEF Winner
<1>7. First(best) \in best
  <2> HIDE DEF best
  <2> QED BY <1>5, FirstIsLeast
<1> QED BY <1>6, <1>7

\* What the properties ask of a query and a predicted title.
Faithful(clause, words, title) ==
    /\ title = NoTitle => \A r \in DOMAIN DOMAIN_RULES : Found(r, clause) = {}
    /\ title # NoTitle => \E r \in DOMAIN DOMAIN_RULES :
        /\ DOMAIN_RULES[r].title = title
        /\ \A k \in Found(r, clause) : \E i \in DOMAIN words :
              Within(DOMAIN_RULES[r].keywords[k], words[i])
        /\ \A s \in DOMAIN DOMAIN_RULES :
              Cardinality(Found(s, clause)) <= Cardinality(Found(r, clause))

LEMMA OptimizedIsFaithful ==
    ASSUME NEW clause \in Seq(Words), NEW base, AreWithin(base, clause)
    PROVE  /\ AreWithin(optimize_clause(clause, base).query, clause)
           /\ optimize_clause(clause, base).title \in Titles \cup {NoTitle}
           /\ Faithful(clause, optimize_clause(clause, base).query,
                       optimize_clause(clause, base).title)
<1> DEFINE score == Score(clause)
           winner == Winner(score)
           matched(r) == matched_keywords(DOMAIN_RULES[r], clause)
           optimized == optimize_clause(clause, base)
<1>1. DOMAIN DOMAIN_RULES = 1..5
  BY RulesAreTables
<1>2. \A r \in 1..5 : /\ AreWithin(matched(r), clause) /\ IsFiniteSet(Found(r, clause))
                      /\ Len(matched(r)) = Cardinality(Found(r, clause))
                      /\ Len(matched(r)) \in Nat
  BY MatchedIsFound
<1>3. score \in [1..5 -> Nat] /\ \A r \in 1..5 : score[r] = Cardinality(Found(r, clause))
  BY <1>1, <1>2 DEF Score
<1>4. winner \in 1..5 /\ \A s \in 1..5 : score[s] <= score[winner]
  <2> HIDE DEF score
  <2> QED BY <1>3, WinnerIsBest
<1>5. optimized = IF score[winner] = 0 THEN [query |-> base, title |-> NoTitle]
                  ELSE [query |-> dedupe_contained(matched(winner)),
                        title |-> DOMAIN_RULES[winner].title]
  BY DEF optimize_clause
<1> HIDE DEF score, winner, optimized
<1>6. CASE score[winner] = 0
  <2>1. optimized.query = base /\ optimized.title = NoTitle
    BY <1>5, <1>6
  <2>2. ASSUME NEW r \in 1..5 PROVE Found(r, clause) = {}
    <3>1. Cardinality(Found(r, clause)) = 0
      BY <1>3, <1>4, <1>6
    <3> QED BY <1>2, <3>1, FS_EmptySet
  <2> QED BY <1>1, <2>1, <2>2 DEF Faithful, optimized
<1>7. CASE score[winner] # 0
  <2>1. /\ optimized.query = dedupe_contained(matched(winner))
        /\ optimized.title = DOMAIN_RULES[winner].title
    BY <1>5, <1>7
  <2>2. AreWithin(matched(winner), clause)
    BY <1>2, <1>4
  <2>3. AreWithin(optimized.query, clause)
    BY <2>1, <2>2, DedupeKeepsTheLongest
  <2>4. ASSUME NEW k \in Found(winner, clause)
        PROVE  \E i \in DOMAIN optimized.query :
                  Within(DOMAIN_RULES[winner].keywords[k], optimized.query[i])
    <3>1. PICK j \in DOMAIN matched(winner) :
            matched(winner)[j] = DOMAIN_RULES[winner].keywords[k]
      BY <1>4, MatchedIsFound
    <3>2. PICK i \in DOMAIN dedupe_contained(matched(winner)) :
            Within(matched(winner)[j], dedupe_contained(matched(winner))[i])
      BY <2>2, DedupeKeepsTheLongest
    <3> QED BY <2>1, <3>1, <3>2
  <2>5. \A s \in 1..5 : Cardinality(Found(s, clause)) <= Cardinality(Found(winner, clause))
    BY <1>3, <1>4
  <2>6. optimized.title \in Titles /\ optimized.title # NoTitle
    BY <1>4, <2>1, RulesAreTables
  <2> HIDE DEF matched
  <2> QED BY <1>1, <1>4, <2>1, <2>3, <2>4, <2>5, <2>6 DEF Faithful, optimized
<1> QED BY <1>6, <1>7

\* The hit that is chosen can be fetched, and is the best of those that can.
LEMMA BestIsFetchable ==
    ASSUME NEW hits \in Seq(Hits), NEW hint, select_best_candidate(hits, hint) # 0
    PROVE  LET best == select_best_candidate(hits, hint)
               fetchable == {k \in DOMAIN hits : HasPart(hits[k])}
               hinted == {k \in fetchable : hits[k].title = hint}
           IN  /\ best \in fetchable
               /\ \A k \in fetchable : k < best => k \notin hinted /\ best \in hinted
               /\ hinted # {} => best \in hinted
<1> DEFINE best == select_best_candidate(hits, hint)
           usable == UsableHits(hits)
           preferred == {i \in usable : hint # NoTitle /\ hits[i].title = hint}
           pool == IF preferred = {} THEN usable ELSE preferred
           fetchable == {k \in DOMAIN hits : HasPart(hits[k])}
           hinted == {k \in fetchable : hits[k].title = hint}
<1>1. usable = fetchable
  BY DEF UsableHits, HasPart, NoNumber
<1>2. preferred = hinted
  BY <1>1 DEF HasPart
<1>3. best = IF pool = {} THEN 0 ELSE First(pool)
  BY DEF select_best_candidate
<1>4. fetchable \in SUBSET Nat /\ hinted \in SUBSET fetchable
  OBVIOUS
<1> HIDE DEF best, usable, preferred, fetchable, hinted
<1>5. pool \in SUBSET Nat /\ pool \in SUBSET fetchable
  BY <1>1, <1>2, <1>4
<1>6. pool # {} /\ best = First(pool)
  BY <1>3 DEF best
<1>7. best \in pool /\ \A k \in pool : best <= k
  <2> HIDE DEF pool
  <2> QED BY <1>5, <1>6, FirstIsLeast
<1>8. best \in Nat /\ best \in fetchable
  BY <1>5, <1>7
<1>9. hinted # {} => best \in hinted
  BY <1>2, <1>7
<1>10. ASSUME NEW k \in fetchable, k < best
       PROVE  k \notin hinted /\ best \in hinted
  <2>1. k \notin pool
    BY <1>4, <1>7, <1>8, <1>10
  <2>2. pool = hinted
    BY <1>1, <1>2, <2>1
  <2> QED BY <1>7, <2>1, <2>2
<1> QED BY <1>8, <1>9, <1>10 DEF best, fetchable, hinted

\* Without a choice there is no hit that can be fetched.
LEMMA NoneIsFetchable ==
    ASSUME NEW hits \in Seq(Hits), NEW hint, select_best_candidate(hits, hint) = 0
    PROVE  {k \in DOMAIN hits : HasPart(hits[k])} = {}
<1> DEFINE usable == UsableHits(hits)
           preferred == {i \in usable : hint # NoTitle /\ hits[i].title = hint}
           pool == IF preferred = {} THEN usable ELSE preferred
<1>1. usable = {k \in DOMAIN hits : HasPart(hits[k])}
  BY DEF UsableHits, HasPart, NoNumber
<1>2. usable \in SUBSET DOMAIN hits /\ usable \in SUBSET Nat /\ 0 \notin DOMAIN hits
  BY <1>1
<1>3. select_best_candidate(hits, hint) = IF pool = {} THEN 0 ELSE First(pool)
  BY DEF select_best_candidate
<1> HIDE DEF usable
<1>4. pool \in SUBSET Nat /\ pool \in SUBSET DOMAIN hits /\ preferred \in SUBSET usable
  BY <1>2
<1>5. pool = {}
  <2> HIDE DEF pool
  <2>1. pool # {} => First(pool) \in pool
    BY <1>4, FirstIsLeast
  <2> QED BY <1>2, <1>3, <1>4, <2>1
<1>6. usable = {}
  BY <1>5
<1> QED BY <1>1, <1>6


-----------------------------------------------------------------------------
(* The steps *)

LEMMA InitIsTyped == RetrievalInit => RetrievalTypeOK /\ QueryIsFaithful
<1> SUFFICES ASSUME RetrievalInit PROVE RetrievalTypeOK /\ QueryIsFaithful
  OBVIOUS
<1>1. <<>> \in Seq(STRING) /\ <<>> \in Seq(Words) /\ <<>> \in Seq(Hits) /\ <<>> \in Seq(Seq(STRING))
  OBVIOUS
<1>2. 0 \in 0..Len(<<>>)
  OBVIOUS
<1> QED BY <1>1, <1>2 DEF RetrievalInit, RetrievalTypeOK, QueryIsFaithful, WholeTitle,
                          NoAnswer, NoNumber

\* A query as it is built.
LEMMA BuiltQuery ==
    ASSUME NEW clause \in Texts
    PROVE  LET optimized == optimize_clause(clause, build_search_query(clause))
           IN  /\ clause \in Seq(Words) /\ AreWithin(optimized.query, clause)
               /\ optimized.title \in Titles \cup {NoTitle}
               /\ Faithful(clause, optimized.query, optimized.title)
<1>1. clause \in Seq(Words)
  BY RetrievalAssumption DEF RetrievalAssumption
<1>2. AreWithin(build_search_query(clause), clause)
  BY <1>1, KeywordQueryIsWithin
<1> QED BY <1>1, <1>2, OptimizedIsFaithful

LEMMA QueryIsKeptFaithful ==
    ASSUME QueryIsFaithful, [RetrievalNext]_retrievalVars
    PROVE  QueryIsFaithful'
<1> SUFFICES ASSUME place' = "search" PROVE QueryIsFaithful'
  BY DEF QueryIsFaithful
<1>1. ASSUME NEW clause \in Texts, BuildQuery(clause) PROVE QueryIsFaithful'
  <2> DEFINE optimized == optimize_clause(clause, build_search_query(clause))
  <2>1. AreWithin(optimized.query, clause) /\ Faithful(clause, optimized.query, optimized.title)
    BY BuiltQuery
  <2>2. text' = clause /\ query' = optimized.query /\ predicted' = optimized.title
    BY <1>1 DEF BuildQuery
  <2> HIDE DEF optimized
  <2> QED BY <2>1, <2>2 DEF QueryIsFaithful, AreWithin, Faithful
<1>2. CASE UNCHANGED retrievalVars
  BY <1>2 DEF retrievalVars, QueryIsFaithful, Found
<1>3. CASE SearchFails
  BY <1>3 DEF SearchFails, Fail
<1>4. ASSUME NEW hits \in ResultLists, SearchAnswers(hits) PROVE FALSE
  BY <1>4 DEF SearchAnswers
<1>5. CASE NoCandidate
  BY <1>5 DEF NoCandidate, Fail
<1>6. CASE Choose
  BY <1>6 DEF Choose
<1>7. ASSUME NEW request \in Requests, CallTool(request) PROVE FALSE
  BY <1>7 DEF CallTool
<1>8. CASE FetchFails
  BY <1>8 DEF FetchFails, Fail
<1>9. ASSUME NEW doc \in Documents, FetchAnswers(doc) PROVE FALSE
  BY <1>9 DEF FetchAnswers
<1>10. CASE ReturnText
  BY <1>10 DEF ReturnText
<1> QED BY <1>1, <1>2, <1>3, <1>4, <1>5, <1>6, <1>7, <1>8, <1>9, <1>10 DEF RetrievalNext

\* Giving up leaves nothing behind but what is to be fetched.
LEMMA FailIsTyped ==
    ASSUME RetrievalTypeOK, Fail, place \in {"search", "select", "fetch"}
    PROVE  RetrievalTypeOK'
<1>1. <<>> \in Seq(Words) /\ <<>> \in Seq(Hits) /\ <<>> \in Seq(Seq(STRING))
  OBVIOUS
<1> QED BY <1>1 DEF RetrievalTypeOK, Fail

LEMMA TypesAreKept ==
    ASSUME RetrievalTypeOK, [RetrievalNext]_retrievalVars
    PROVE  RetrievalTypeOK'
<1>1. <<>> \in Seq(STRING) /\ <<>> \in Seq(Words) /\ <<>> \in Seq(Hits) /\ <<>> \in Seq(Seq(STRING))
  OBVIOUS
<1>2. ASSUME NEW clause \in Texts, BuildQuery(clause) PROVE RetrievalTypeOK'
  <2> DEFINE optimized == optimize_clause(clause, build_search_query(clause))
  <2>1. /\ clause \in Seq(Words) /\ optimized.query \in Seq(Seq(STRING))
        /\ optimized.title \in Titles \cup {NoTitle}
    BY BuiltQuery DEF AreWithin, Phrases
  <2>2. /\ place = "idle" /\ place' = "search" /\ text' = clause /\ query' = optimized.query
        /\ predicted' = optimized.title /\ UNCHANGED <<results, asked, document, answer>>
    BY <1>2 DEF BuildQuery
  <2> HIDE DEF optimized
  <2> QED BY <2>1, <2>2 DEF RetrievalTypeOK
<1>3. CASE UNCHANGED retrievalVars
  BY <1>3 DEF retrievalVars, RetrievalTypeOK
<1>4. CASE SearchFails
  BY <1>4, FailIsTyped DEF SearchFails
<1>5. ASSUME NEW hits \in ResultLists, SearchAnswers(hits) PROVE RetrievalTypeOK'
  <2>1. hits \in Seq(Hits)
    BY RetrievalAssumption DEF RetrievalAssumption
  <2> QED BY <1>1, <1>5, <2>1 DEF SearchAnswers, RetrievalTypeOK
<1>6. CASE NoCandidate
  BY <1>6, FailIsTyped DEF NoCandidate
<1>7. CASE Choose
  <2> DEFINE best == select_best_candidate(results, predicted)
  <2>1. /\ place = "select" /\ place' = "fetch" /\ best # 0
        /\ asked' = [part |-> results[best].part, section |-> results[best].section]
        /\ predicted' = NoTitle /\ results' = <<>>
        /\ UNCHANGED <<text, query, document, answer>>
    BY <1>7 DEF Choose
  <2>2. results \in Seq(Hits)
    BY DEF RetrievalTypeOK
  <2>3. best \in DOMAIN results /\ HasPart(results[best])
    BY <2>1, <2>2, BestIsFetchable
  <2> HIDE DEF best
  <2>4. results[best] \in Hits
    BY <2>2, <2>3
  <2>5. results[best].part \in Seq(STRING) /\ results[best].section \in Seq(STRING)
    BY <2>4 DEF Hits
  <2>6. results[best].part # NoNumber
    BY <2>3 DEF HasPart
  <2> QED BY <1>1, <2>1, <2>5, <2>6 DEF RetrievalTypeOK
<1>8. ASSUME NEW request \in Requests, CallTool(request) PROVE RetrievalTypeOK'
  <2>1. /\ request \in [part : Seq(STRING), section : Seq(STRING)]
        /\ request.part = NoNumber => request.section = NoNumber
    BY RetrievalAssumption DEF RetrievalAssumption
  <2> QED BY <1>8, <2>1 DEF CallTool, RetrievalTypeOK
<1>9. CASE FetchFails
  BY <1>9, FailIsTyped DEF FetchFails
<1>10. ASSUME NEW doc \in Documents, FetchAnswers(doc) PROVE RetrievalTypeOK'
  <2> DEFINE parsed == parse_regulation_xml(doc, asked.part, asked.section)
  <2>1. doc \in Seq(Elements) /\ doc # <<>>
    BY RetrievalAssumption DEF RetrievalAssumption
  <2>2. parsed.ok \in BOOLEAN /\ parsed.heading \in 0..Len(doc)
    BY <2>1, AnswerIsInside
  <2>3. /\ place = "fetch" /\ document' = doc /\ answer' = parsed
        /\ place' = IF parsed.ok THEN "done" ELSE "error"
        /\ UNCHANGED <<text, query, predicted, results, asked>>
    BY <1>10 DEF FetchAnswers
  <2> HIDE DEF parsed
  <2> QED BY <2>2, <2>3 DEF RetrievalTypeOK
<1>11. CASE ReturnText
  <2>1. 0 \in 0..Len(<<>>)
    OBVIOUS
  <2> QED BY <1>1, <1>11, <2>1 DEF ReturnText, RetrievalTypeOK, WholeTitle, NoAnswer, NoNumber
<1> QED BY <1>2, <1>3, <1>4, <1>5, <1>6, <1>7, <1>8, <1>9, <1>10, <1>11 DEF RetrievalNext

-----------------------------------------------------------------------------
(* What holds *)

\* Type correctness: a retrieval is at one of its places with what belongs there, and
\* what it returns is headed by an element of the document.
THEOREM RetrievalTypeCorrect == RetrievalSpec => []RetrievalTypeOK
<1>1. RetrievalInit => RetrievalTypeOK
  BY InitIsTyped
<1>2. RetrievalTypeOK /\ [RetrievalNext]_retrievalVars => RetrievalTypeOK'
  BY TypesAreKept
<1> QED BY <1>1, <1>2, PTL DEF RetrievalSpec

\* The query of a clause is made of its words and keeps what its domain was
\* recognised by (build_search_query, optimize_clause, _dedupe_contained).
THEOREM QueryIsFaithfulHolds == RetrievalSpec => []QueryIsFaithful
<1>1. RetrievalInit => QueryIsFaithful
  BY InitIsTyped
<1>2. QueryIsFaithful /\ [RetrievalNext]_retrievalVars => QueryIsFaithful'
  BY QueryIsKeptFaithful
<1> QED BY <1>1, <1>2, PTL DEF RetrievalSpec

\* What a choice among the hits may do.
HintIsFree ==
    place = "select" =>
        LET fetchable == {k \in DOMAIN results : HasPart(results[k])}
            hinted == {k \in fetchable : results[k].title = predicted}
        IN  /\ place' = "error" => \/ fetchable = {}
                               \/ \E i \in fetchable : results[i].title \notin Titles
            /\ place' = "fetch" => \E i \in fetchable :
                  /\ asked' = [part |-> results[i].part, section |-> results[i].section]
                  /\ \A k \in fetchable : k < i => k \notin hinted /\ i \in hinted
                  /\ hinted # {} => i \in hinted

LEMMA StepIsFree ==
    ASSUME RetrievalTypeOK, RetrievalNext
    PROVE  HintIsFree
<1> SUFFICES ASSUME place = "select" PROVE HintIsFree
  BY DEF HintIsFree
<1> DEFINE best == select_best_candidate(results, predicted)
           fetchable == {k \in DOMAIN results : HasPart(results[k])}
           hinted == {k \in fetchable : results[k].title = predicted}
<1>1. results \in Seq(Hits)
  BY DEF RetrievalTypeOK
<1>2. NoCandidate \/ Choose
  BY DEF RetrievalNext, BuildQuery, SearchFails, SearchAnswers, CallTool, FetchFails,
         FetchAnswers, ReturnText
<1>3. best # 0 => /\ best \in fetchable
                  /\ \A k \in fetchable : k < best => k \notin hinted /\ best \in hinted
                  /\ hinted # {} => best \in hinted
  BY <1>1, BestIsFetchable
<1>4. best = 0 => fetchable = {}
  BY <1>1, NoneIsFetchable
<1>5. CASE NoCandidate
  <2>1. place' = "error" /\ (best # 0 => results[best].title \notin Titles)
    BY <1>5 DEF NoCandidate, Fail
  <2> HIDE DEF best
  <2> QED BY <1>3, <1>4, <2>1 DEF HintIsFree
<1>6. CASE Choose
  <2>1. /\ place' = "fetch" /\ best # 0
        /\ asked' = [part |-> results[best].part, section |-> results[best].section]
    BY <1>6 DEF Choose
  <2> HIDE DEF best
  <2> QED BY <1>3, <2>1 DEF HintIsFree
<1> QED BY <1>2, <1>5, <1>6

\* The predicted title is a preference and never the reason to give up on a clause
\* (_select_best_candidate, retrieve_for_clause).
THEOREM HintNeverCostsHolds == RetrievalSpec => HintNeverCosts
<1>1. RetrievalTypeOK /\ [RetrievalNext]_retrievalVars => [HintIsFree]_retrievalVars
  BY StepIsFree
<1> QED BY <1>1, RetrievalTypeCorrect, PTL DEF RetrievalSpec, HintNeverCosts, HintIsFree


-----------------------------------------------------------------------------
(* Exact texts *)

\* L lists S by rank: there is one such list.
IsListing(L, S, R) ==
    /\ L = [r \in 1..Cardinality(S) |-> L[r]]
    /\ \A r \in 1..Cardinality(S) : L[r] \in S /\ Cardinality(Ahead(S, R, L[r])) = r - 1

LEMMA OneListing ==
    ASSUME NEW S, IsFiniteSet(S), NEW R, Orders(R, S),
           NEW L, IsListing(L, S, R), NEW M, IsListing(M, S, R)
    PROVE  L = M
<1>1. ASSUME NEW r \in 1..Cardinality(S) PROVE L[r] = M[r]
  <2>1. /\ L[r] \in S /\ M[r] \in S
        /\ Cardinality(Ahead(S, R, L[r])) = Cardinality(Ahead(S, R, M[r]))
    BY <1>1 DEF IsListing
  <2> QED BY <2>1, RanksAreFilled
<1>2. L = [r \in 1..Cardinality(S) |-> L[r]] /\ M = [r \in 1..Cardinality(S) |-> M[r]]
  BY DEF IsListing
<1> QED BY <1>1, <1>2, Zenon

\* Its first is the one with nothing ahead of it.
LEMMA ListedFirst ==
    ASSUME NEW S, IsFiniteSet(S), NEW R, Orders(R, S), NEW L, IsListing(L, S, R),
           NEW p \in S, Ahead(S, R, p) = {}
    PROVE  1 \in DOMAIN L /\ L[1] = p /\ DOMAIN L = 1..Cardinality(S) /\ Cardinality(S) \in Nat
<1>1. Cardinality(S) \in Nat /\ Cardinality(S) # 0
  BY FS_CardinalityType, FS_EmptySet
<1>2. Cardinality(Ahead(S, R, p)) = 0
  BY FS_EmptySet
<1>3. 1 \in 1..Cardinality(S)
  BY <1>1
<1>4. L[1] \in S /\ Cardinality(Ahead(S, R, L[1])) = 0
  BY <1>3 DEF IsListing
<1>5. L[1] = p
  <2>1. Cardinality(Ahead(S, R, L[1])) = Cardinality(Ahead(S, R, p))
    BY <1>2, <1>4
  <2> QED BY <1>4, <2>1, RanksAreFilled
<1>6. DOMAIN L = 1..Cardinality(S)
  BY DEF IsListing
<1> QED BY <1>1, <1>3, <1>5, <1>6

\* The texts of some elements, and the order of the elements.
TextsOf(T) == {Piece(k, "text") : k \in T}
Earlier(T) == {pair \in TextsOf(T) \X TextsOf(T) : pair[1].node < pair[2].node}

LEMMA TextsAreCounted ==
    ASSUME NEW T \in SUBSET Nat, IsFiniteSet(T)
    PROVE  /\ IsFiniteSet(TextsOf(T)) /\ Cardinality(TextsOf(T)) = Cardinality(T)
           /\ \A k \in T : Piece(k, "text") \in TextsOf(T) /\ Piece(k, "text").node = k
           /\ \A p \in TextsOf(T) : /\ p.node \in T /\ p.where = "text"
                                    /\ p = Piece(p.node, "text")
<1> DEFINE f == [k \in T |-> Piece(k, "text")]
<1>1. f \in Bijection(T, TextsOf(T))
  <2>1. \A k \in T : f[k] = [node |-> k, where |-> "text"] /\ f[k] \in TextsOf(T)
    BY DEF TextsOf, Piece
  <2>2. \A k, m \in T : f[k] = f[m] => k = m
    BY <2>1
  <2>3. \A p \in TextsOf(T) : \E k \in T : f[k] = p
    BY DEF TextsOf
  <2>4. f \in [T -> TextsOf(T)]
    BY <2>1
  <2> QED BY <2>2, <2>3, <2>4 DEF Bijection, Injection, Surjection, IsInjective
<1>2. ExistsBijection(T, TextsOf(T))
  BY <1>1 DEF ExistsBijection
<1>3. IsFiniteSet(TextsOf(T)) /\ Cardinality(TextsOf(T)) = Cardinality(T)
  BY <1>2, FS_Bijection
<1> QED BY <1>3 DEF TextsOf, Piece

LEMMA TextsAreOrdered ==
    ASSUME NEW T \in SUBSET Nat, IsFiniteSet(T)
    PROVE  Orders(Earlier(T), TextsOf(T))
<1>1. \A p \in TextsOf(T) : p.node \in Nat
  BY TextsAreCounted
<1>2. \A p, t \in TextsOf(T) : p.node = t.node => p = t
  BY DEF TextsOf, Piece
<1>3. \A p, t \in TextsOf(T) : <<p, t>> \in Earlier(T) <=> p.node < t.node
  BY DEF Earlier
<1>4. \A x \in TextsOf(T) : <<x, x>> \notin Earlier(T)
  BY <1>1, <1>3
<1>5. ASSUME NEW x \in TextsOf(T), NEW y \in TextsOf(T), NEW z \in TextsOf(T),
             <<x, y>> \in Earlier(T), <<y, z>> \in Earlier(T)
      PROVE  <<x, z>> \in Earlier(T)
  BY <1>1, <1>3, <1>5
<1>6. ASSUME NEW x \in TextsOf(T), NEW y \in TextsOf(T), x # y
      PROVE  <<x, y>> \in Earlier(T) \/ <<y, x>> \in Earlier(T)
  <2>1. x.node # y.node
    BY <1>2, <1>6
  <2> QED BY <1>1, <1>3, <2>1
<1> QED BY <1>4, <1>5, <1>6 DEF Orders


\* The elements inside i that have text.
Telling(doc, i) == {k \in Subtree(doc, i) : doc[k].text}

LEMMA TellingIsFinite ==
    ASSUME NEW doc \in Seq(Elements), NEW i \in DOMAIN doc
    PROVE  /\ Telling(doc, i) \in SUBSET Nat /\ IsFiniteSet(Telling(doc, i))
           /\ Telling(doc, i) \in SUBSET DOMAIN doc
<1>1. Telling(doc, i) \in SUBSET DOMAIN doc
  BY ElementsBound DEF Telling
<1>2. DOMAIN doc = 1..Len(doc) /\ Len(doc) \in Nat /\ IsFiniteSet(1..Len(doc))
  BY FS_Interval
<1> QED BY <1>1, <1>2, FS_Subset

\* Three ways to list the texts of an element: as it is extracted from the tree,
LEMMA ExtractListing ==
    ASSUME NEW doc \in Seq(Elements), NEW i \in DOMAIN doc
    PROVE  IsListing(extract_text_from_node(doc, i), TextsOf(Telling(doc, i)),
                     Earlier(Telling(doc, i)))
<1> DEFINE T == Telling(doc, i)
           S == TextsOf(T)
           n == Cardinality(T)
           L == extract_text_from_node(doc, i)
<1>1. L = [r \in DOMAIN Ascending(T) |-> Piece(Ascending(T)[r], "text")]
  BY DEF extract_text_from_node, Telling
<1>2. T \in SUBSET Nat /\ IsFiniteSet(T)
  BY TellingIsFinite
<1> HIDE DEF T
<1>3. /\ n \in Nat /\ Ascending(T) \in [1..n -> T]
      /\ \A r \in 1..n : Cardinality({q \in T : q < Ascending(T)[r]}) = r - 1
  BY <1>2, AscendingRanks
<1>4. Cardinality(S) = n
  BY <1>2, TextsAreCounted
<1> HIDE DEF n, L
<1>5. L = [r \in 1..n |-> Piece(Ascending(T)[r], "text")]
  BY <1>1, <1>3
<1>6. L = [r \in 1..n |-> L[r]]
  BY <1>5
<1>7. ASSUME NEW r \in 1..n
      PROVE  L[r] \in S /\ Cardinality(Ahead(S, Earlier(T), L[r])) = r - 1
  <2> DEFINE m == Ascending(T)[r]
             before == {q \in T : q < m}
  <2>1. m \in T /\ Cardinality(before) = r - 1
    BY <1>3, <1>7
  <2>2. L[r] = Piece(m, "text")
    BY <1>5, <1>7
  <2> HIDE DEF m
  <2>3. Piece(m, "text") \in S /\ Piece(m, "text").node = m
    BY <1>2, <2>1, TextsAreCounted
  <2>4. Ahead(S, Earlier(T), Piece(m, "text")) = {q \in S : q.node < m}
    BY <2>3 DEF Ahead, Earlier
  <2>5. \A q \in S : q.node \in T /\ q = Piece(q.node, "text")
    BY <1>2, TextsAreCounted
  <2>6. \A k \in T : Piece(k, "text") \in S /\ Piece(k, "text").node = k
    BY <1>2, TextsAreCounted
  <2>7. {q \in S : q.node < m} = TextsOf(before)
    <3>1. ASSUME NEW q \in S, q.node < m PROVE q \in TextsOf(before)
      BY <2>5, <3>1 DEF TextsOf
    <3>2. ASSUME NEW q \in TextsOf(before) PROVE q \in S /\ q.node < m
      <4>1. PICK k \in before : q = Piece(k, "text")
        BY DEF TextsOf
      <4> QED BY <2>6, <4>1
    <3> QED BY <3>1, <3>2
  <2>8. before \in SUBSET T
    OBVIOUS
  <2>9. before \in SUBSET Nat /\ IsFiniteSet(before)
    BY <1>2, <2>8, FS_Subset
  <2>10. Cardinality(TextsOf(before)) = Cardinality(before)
    <3> HIDE DEF before
    <3> QED BY <2>9, TextsAreCounted
  <2> QED BY <2>1, <2>2, <2>3, <2>4, <2>7, <2>10
<1> QED BY <1>4, <1>6, <1>7 DEF IsListing, L, T

\* as it is read on the page, when no text stands after a tag,
LEMMA ExactListing ==
    ASSUME NEW doc \in Seq(Elements), NEW i \in DOMAIN doc,
           \A k \in DOMAIN doc : ~doc[k].tail
    PROVE  IsListing(ExactText(doc, i), TextsOf(Telling(doc, i)), Earlier(Telling(doc, i)))
<1> DEFINE T == Telling(doc, i)
           S == {Piece(k, "text") : k \in {m \in Subtree(doc, i) : doc[m].text}} \cup
                {Piece(k, "tail") : k \in {m \in Subtree(doc, i) \ {i} : doc[m].tail}}
           n == Cardinality(S)
           Rank(p) == Cardinality({q \in S : ReadBefore(doc, q, p)})
           L == ExactText(doc, i)
<1>1. S = TextsOf(T)
  <2>1. \A m \in Subtree(doc, i) : ~doc[m].tail
    BY ElementsBound
  <2> QED BY <2>1 DEF TextsOf, Telling
<1>2. L = [r \in 1..n |-> CHOOSE p \in S : Rank(p) = r - 1]
  BY DEF ExactText, InOrder
<1>3. T \in SUBSET Nat /\ IsFiniteSet(T)
  BY TellingIsFinite
<1> HIDE DEF T, S
<1>4. IsFiniteSet(S) /\ Orders(Earlier(T), S)
  BY <1>1, <1>3, TextsAreCounted, TextsAreOrdered
<1>5. ASSUME NEW p \in S PROVE Rank(p) = Cardinality(Ahead(S, Earlier(T), p))
  <2>1. \A q \in S : ReadBefore(doc, q, p) <=> q.node < p.node
    BY <1>1, <1>3, <1>5, TextsAreCounted DEF ReadBefore
  <2>2. \A q \in S : <<q, p>> \in Earlier(T) <=> q.node < p.node
    BY <1>1, <1>5 DEF Earlier
  <2>3. {q \in S : ReadBefore(doc, q, p)} = Ahead(S, Earlier(T), p)
    BY <2>1, <2>2 DEF Ahead
  <2> QED BY <2>3
<1> HIDE DEF Rank, L, S
<1>6. ASSUME NEW r \in 1..n
      PROVE  L[r] \in S /\ Cardinality(Ahead(S, Earlier(T), L[r])) = r - 1
  <2>1. PICK p \in S : Cardinality(Ahead(S, Earlier(T), p)) = r - 1
    BY <1>4, <1>6, RankIsTaken
  <2>2. Rank(p) = r - 1
    BY <1>5, <2>1
  <2>3. L[r] = CHOOSE q \in S : Rank(q) = r - 1
    BY <1>2, <1>6
  <2>4. L[r] \in S /\ Rank(L[r]) = r - 1
    BY <2>2, <2>3
  <2> QED BY <1>5, <2>4
<1>7. L = [r \in 1..n |-> L[r]]
  BY <1>2
<1>8. IsListing(L, S, Earlier(T))
  BY <1>6, <1>7 DEF IsListing
<1> QED BY <1>1, <1>8 DEF L, T

\* and as the streaming parser reports them, when no text holds an element.
LEMMA BlocksListing ==
    ASSUME NEW doc \in Seq(Elements), doc # <<>>, Subtree(doc, 1) = DOMAIN doc,
           \A k \in DOMAIN doc : doc[k].text => Subtree(doc, k) = {k}
    PROVE  IsListing(iter_text_blocks(doc), TextsOf(Telling(doc, 1)), Earlier(Telling(doc, 1)))
<1> DEFINE T == Telling(doc, 1)
           S == {Piece(k, "text") : k \in {m \in DOMAIN doc : doc[m].text}}
           n == Cardinality(S)
           Rank(p) == Cardinality({q \in S : EndsBefore(doc, q.node, p.node)})
           L == iter_text_blocks(doc)
<1>0. 1 \in DOMAIN doc
  OBVIOUS
<1>1. S = TextsOf(T)
  BY DEF TextsOf, Telling
<1>2. L = [r \in 1..n |-> CHOOSE p \in S : Rank(p) = r - 1]
  BY DEF iter_text_blocks, InOrder
<1>3. T \in SUBSET Nat /\ IsFiniteSet(T) /\ T \in SUBSET DOMAIN doc
  BY <1>0, TellingIsFinite
<1>4. ASSUME NEW k \in T PROVE LastInside(doc, k) = k
  <2>1. Subtree(doc, k) = {k} /\ k \in DOMAIN doc
    BY <1>3, <1>4 DEF Telling
  <2>2. LastInside(doc, k) \in Subtree(doc, k)
    BY <2>1, ElementsBound DEF Subtree
  <2> QED BY <2>1, <2>2
<1> HIDE DEF T, S
<1>5. IsFiniteSet(S) /\ Orders(Earlier(T), S)
  BY <1>1, <1>3, TextsAreCounted, TextsAreOrdered
<1>6. ASSUME NEW p \in S PROVE Rank(p) = Cardinality(Ahead(S, Earlier(T), p))
  <2>0. \A q \in S : q.node \in T /\ q.node \in Nat
    BY <1>1, <1>3, TextsAreCounted
  <2>1. \A q \in S : EndsBefore(doc, q.node, p.node) <=> q.node < p.node
    BY <1>4, <1>6, <2>0 DEF EndsBefore
  <2>2. \A q \in S : <<q, p>> \in Earlier(T) <=> q.node < p.node
    BY <1>1, <1>6 DEF Earlier
  <2>3. {q \in S : EndsBefore(doc, q.node, p.node)} = Ahead(S, Earlier(T), p)
    BY <2>1, <2>2 DEF Ahead
  <2> QED BY <2>3
<1> HIDE DEF Rank, L, S
<1>7. ASSUME NEW r \in 1..n
      PROVE  L[r] \in S /\ Cardinality(Ahead(S, Earlier(T), L[r])) = r - 1
  <2>1. PICK p \in S : Cardinality(Ahead(S, Earlier(T), p)) = r - 1
    BY <1>5, <1>7, RankIsTaken
  <2>2. Rank(p) = r - 1
    BY <1>6, <2>1
  <2>3. L[r] = CHOOSE q \in S : Rank(q) = r - 1
    BY <1>2, <1>7
  <2>4. L[r] \in S /\ Rank(L[r]) = r - 1
    BY <2>2, <2>3
  <2> QED BY <1>6, <2>4
<1>8. L = [r \in 1..n |-> L[r]]
  BY <1>2
<1>9. IsListing(L, S, Earlier(T))
  BY <1>7, <1>8 DEF IsListing
<1> QED BY <1>1, <1>9 DEF L, T


\* So of a regular document the three are one, and begin with the heading.
LEMMA RegularText ==
    ASSUME NEW doc \in Seq(Elements), doc # <<>>, Regular(doc), NEW i \in DOMAIN doc
    PROVE  /\ extract_text_from_node(doc, i) = ExactText(doc, i)
           /\ iter_text_blocks(doc) = ExactText(doc, 1)
           /\ Heads(doc, i) # {} =>
                first_heading(doc, ExactText(doc, i)) = First(Heads(doc, i))
<1>1. /\ Subtree(doc, 1) = DOMAIN doc /\ 1 \in DOMAIN doc
      /\ \A k \in DOMAIN doc : ~doc[k].tail
      /\ \A k \in DOMAIN doc : doc[k].text => Subtree(doc, k) = {k}
      /\ Heads(doc, i) # {} => First(Heads(doc, i)) = i + 1 /\ doc[i + 1].text
  BY DEF Regular
<1>2. ASSUME NEW m \in DOMAIN doc
      PROVE  /\ IsFiniteSet(TextsOf(Telling(doc, m)))
             /\ Orders(Earlier(Telling(doc, m)), TextsOf(Telling(doc, m)))
             /\ IsListing(ExactText(doc, m), TextsOf(Telling(doc, m)), Earlier(Telling(doc, m)))
  <2>1. Telling(doc, m) \in SUBSET Nat /\ IsFiniteSet(Telling(doc, m))
    BY TellingIsFinite
  <2> QED BY <1>1, <2>1, TextsAreCounted, TextsAreOrdered, ExactListing
<1>3. extract_text_from_node(doc, i) = ExactText(doc, i)
  BY <1>2, ExtractListing, OneListing
<1>4. iter_text_blocks(doc) = ExactText(doc, 1)
  BY <1>1, <1>2, BlocksListing, OneListing
<1>5. ASSUME Heads(doc, i) # {}
      PROVE  first_heading(doc, ExactText(doc, i)) = First(Heads(doc, i))
  <2> DEFINE T == Telling(doc, i)
             S == TextsOf(T)
             p == Piece(i + 1, "text")
             L == ExactText(doc, i)
             heads == {r \in DOMAIN L : doc[L[r].node].tag = "HEAD"}
  <2>1. First(Heads(doc, i)) = i + 1 /\ doc[i + 1].text
    BY <1>1, <1>5
  <2>2. Heads(doc, i) \in SUBSET Nat
    BY ElementsBound DEF Heads
  <2>3. i + 1 \in Heads(doc, i)
    BY <1>5, <2>1, <2>2, FirstIsLeast
  <2>4. i + 1 \in Subtree(doc, i) /\ doc[i + 1].tag = "HEAD"
    BY <2>3 DEF Heads
  <2>5. T \in SUBSET Nat /\ IsFiniteSet(T) /\ i + 1 \in T /\ i \in Nat
    BY <2>1, <2>4, TellingIsFinite, ElementsBound DEF Telling
  <2>6. i \notin T
    BY <1>1, <2>4, <2>5 DEF Telling
  <2>7. \A k \in T : i <= k
    BY <2>5, ElementsBound DEF Telling, Subtree
  <2>8. \A k \in T : ~(k < i + 1)
    BY <2>5, <2>6, <2>7
  <2> HIDE DEF T
  <2>9. p \in S /\ p.node = i + 1 /\ \A q \in S : q.node \in T
    BY <2>5, TextsAreCounted
  <2>10. Ahead(S, Earlier(T), p) = {}
    BY <2>8, <2>9 DEF Ahead, Earlier
  <2>11. IsFiniteSet(S) /\ Orders(Earlier(T), S) /\ IsListing(L, S, Earlier(T))
    BY <1>2 DEF T
  <2> HIDE DEF S, p, L
  <2>12. 1 \in DOMAIN L /\ L[1] = p /\ DOMAIN L = 1..Cardinality(S) /\ Cardinality(S) \in Nat
    BY <2>9, <2>10, <2>11, ListedFirst
  <2>13. 1 \in heads /\ heads \in SUBSET Nat /\ heads \in SUBSET (1..Cardinality(S))
    BY <2>4, <2>9, <2>12
  <2>14. first_heading(doc, L) = IF heads = {} THEN 0 ELSE L[First(heads)].node
    BY DEF first_heading
  <2> HIDE DEF heads
  <2>15. First(heads) \in heads /\ First(heads) <= 1
    BY <2>13, FirstIsLeast
  <2>16. First(heads) = 1
    <3>1. First(heads) \in 1..Cardinality(S)
      BY <2>13, <2>15
    <3>2. First(heads) \in Nat /\ 1 <= First(heads)
      BY <2>12, <3>1
    <3> QED BY <2>15, <3>2
  <2> QED BY <2>1, <2>9, <2>12, <2>13, <2>14, <2>16 DEF L
<1> QED BY <1>3, <1>4, <1>5

LEMMA LengthsTell ==
    ASSUME NEW T, NEW s \in Seq(T)
    PROVE  (Len(s) > 1 => Len(s) # 1) /\ (Len(s) = 1 \/ Len(s) > 1 => s # <<>>)
<1> DEFINE n == Len(s)
<1>1. n \in Nat
  OBVIOUS
<1>2. s = <<>> => n = 0
  BY EmptySeq
<1> HIDE DEF n
<1>3. (n > 1 => n # 1) /\ (n = 1 \/ n > 1 => n # 0)
  BY <1>1
<1> QED BY <1>2, <1>3 DEF n

\* The number that is looked for is the one that is cited.
LEMMA CitedIsRequested ==
    ASSUME NEW T, NEW part \in Seq(T), NEW section \in Seq(T),
           section # NoNumber, Proper(part, section)
    PROVE  /\ format_citation(part, section) = requested_section(part, section)
           /\ format_citation(part, section) = qualified_section(part, section)
           /\ Qualified(part, requested_section(part, section))
           /\ requested_section(part, section) # NoNumber
<1>1. Len(part) = 1 /\ section # part /\ (Len(section) = 1 \/ Qualified(part, section))
  BY DEF Proper
<1>2. part # NoNumber /\ section # <<>> /\ Len(section) \in Nat
  <2>1. Len(section) \in Nat
    OBVIOUS
  <2>2. part # <<>>
    BY <1>1, LengthsTell
  <2> QED BY <2>1, <2>2 DEF NoNumber
<1>3. CASE Qualified(part, section)
  <2>1. Len(section) # 1
    BY <1>3, LengthsTell DEF Qualified
  <2>2. requested_section(part, section) = section
    BY <2>1 DEF requested_section
  <2>3. qualified_section(part, section) = section
    BY <1>3 DEF qualified_section
  <2>4. format_citation(part, section) = section
    BY <1>2, <1>3 DEF format_citation
  <2> QED BY <1>2, <1>3, <2>2, <2>3, <2>4
<1>4. CASE ~Qualified(part, section)
  <2>1. Len(section) = 1
    BY <1>1, <1>4
  <2>2. requested_section(part, section) = part \o section
    BY <1>2, <2>1 DEF requested_section
  <2>3. qualified_section(part, section) = part \o section
    BY <1>4 DEF qualified_section
  <2>4. format_citation(part, section) = part \o section
    BY <1>1, <1>2, <1>4 DEF format_citation
  <2>5. /\ part \o section \in Seq(T) /\ Len(part \o section) = 2
        /\ (part \o section)[1] = part[1]
    <3>1. /\ part \o section \in Seq(T)
          /\ Len(part \o section) = Len(part) + Len(section)
          /\ \A k \in 1..(Len(part) + Len(section)) :
                (part \o section)[k] = IF k <= Len(part) THEN part[k] ELSE section[k - Len(part)]
      BY ConcatProperties
    <3> QED BY <1>1, <2>1, <3>1
  <2>6. SubSeq(part \o section, 1, 1) = part
    <3>1. /\ SubSeq(part \o section, 1, 1) \in Seq(T)
          /\ Len(SubSeq(part \o section, 1, 1)) = 1
          /\ SubSeq(part \o section, 1, 1)[1] = part[1]
      BY <2>5
    <3> QED BY <1>1, <3>1, SeqEqual
  <2>7. Qualified(part, part \o section)
    BY <2>5, <2>6 DEF Qualified
  <2>8. part \o section # NoNumber
    BY <2>5, <2>7, LengthsTell DEF Qualified, NoNumber
  <2> QED BY <2>2, <2>3, <2>4, <2>7, <2>8
<1> QED BY <1>3, <1>4

\* What a citation stands for in a document.
Kind(section) == IF section = NoNumber THEN "PART" ELSE "SECTION"
Cited(doc, part, section) == Units(doc, Kind(section), format_citation(part, section))

LEMMA UnitsAreUnique ==
    ASSUME NEW doc, Regular(doc), NEW kind \in {"PART", "SECTION"}, NEW number,
           number # NoNumber, NEW i \in Units(doc, kind, number), NEW k \in Units(doc, kind, number)
    PROVE  i = k
BY DEF Regular, Units

\* The element that is found is the one cited, and if there is one it is found.
LEMMA TargetIsCited ==
    ASSUME NEW doc \in Seq(Elements), doc # <<>>, Regular(doc),
           NEW part \in Seq(STRING), NEW section \in Seq(STRING),
           part # NoNumber, Proper(part, section)
    PROVE  /\ find_target_node(doc, part, section) # 0 =>
                find_target_node(doc, part, section) \in Cited(doc, part, section)
           /\ find_target_node(doc, part, section) = 0 => Cited(doc, part, section) = {}
<1> DEFINE parts == find_all(doc, 1, "PART", part)
           scope == IF parts = {} THEN 1 ELSE First(parts)
           number == requested_section(part, section)
           found == find_all(doc, scope, "SECTION", number)
           target == find_target_node(doc, part, section)
<1>1. DOMAIN doc = 1..Len(doc) /\ Len(doc) \in Nat /\ 1 \in DOMAIN doc /\ Subtree(doc, 1) = DOMAIN doc
  BY DEF Regular
<1>2. parts = Units(doc, "PART", part)
  BY <1>1 DEF find_all, Units
<1>3. parts \in SUBSET DOMAIN doc /\ parts \in SUBSET Nat
  BY <1>1, <1>2 DEF Units
<1>4. target =
        CASE section = NoNumber -> IF parts = {} THEN 0 ELSE scope
          [] section # NoNumber /\ found # {} -> First(found)
          [] section # NoNumber /\ found = {} ->
                IF node_number(doc, 1, "SECTION") = number THEN 1 ELSE 0
  BY DEF find_target_node
<1> HIDE DEF parts
<1>5. parts # {} => First(parts) \in parts
  BY <1>3, FirstIsLeast
<1>6. scope \in DOMAIN doc
  BY <1>1, <1>3, <1>5
<1>7. found \in SUBSET DOMAIN doc /\ found \in SUBSET Nat /\ found \in SUBSET Units(doc, "SECTION", number)
  <2> HIDE DEF scope, number
  <2>1. Subtree(doc, scope) \in SUBSET DOMAIN doc
    BY <1>6, ElementsBound
  <2> QED BY <1>1, <2>1 DEF find_all, Units
<1>8. CASE section = NoNumber
  <2>1. format_citation(part, section) = part
    BY <1>8 DEF format_citation, NoNumber
  <2>2. Cited(doc, part, section) = parts
    BY <1>2, <1>8, <2>1 DEF Cited, Kind
  <2>3. target = IF parts = {} THEN 0 ELSE First(parts)
    BY <1>4, <1>8
  <2>4. 0 \notin parts
    BY <1>1, <1>3
  <2> HIDE DEF target
  <2>5. (target # 0 => target \in parts) /\ (target = 0 => parts = {})
    BY <1>5, <2>3, <2>4
  <2> QED BY <2>2, <2>5 DEF target
<1>9. CASE section # NoNumber
  <2>1. /\ format_citation(part, section) = number /\ Qualified(part, number)
        /\ number # NoNumber
    BY <1>9, CitedIsRequested
  <2>2. Cited(doc, part, section) = Units(doc, "SECTION", number)
    BY <1>9, <2>1 DEF Cited, Kind
  <2> HIDE DEF number
  <2>3. found = Units(doc, "SECTION", number)
    <3> SUFFICES ASSUME NEW k \in Units(doc, "SECTION", number) PROVE k \in found
      BY <1>7
    <3>1. k \in DOMAIN doc /\ node_number(doc, k, "SECTION") = number
      BY DEF Units
    <3>2. k \in Subtree(doc, scope)
      <4>1. CASE parts = {}
        BY <1>1, <3>1, <4>1
      <4>2. CASE parts # {}
        <5>1. scope \in DOMAIN doc /\ node_number(doc, scope, "PART") = part
          BY <1>2, <1>5, <4>2 DEF Units
        <5> HIDE DEF scope
        <5> QED BY <2>1, <3>1, <5>1 DEF Regular
      <4> QED BY <4>1, <4>2
    <3> QED BY <3>1, <3>2 DEF find_all
  <2>4. found # {} => First(found) \in found
    <3> HIDE DEF found
    <3> QED BY <1>7, FirstIsLeast
  <2>5. found = {} => node_number(doc, 1, "SECTION") # number
    BY <1>1, <2>3 DEF Units
  <2>6. 0 \notin found
    BY <1>1, <1>7
  <2> HIDE DEF found, target
  <2>7. target = IF found # {} THEN First(found) ELSE 0
    BY <1>4, <1>9, <2>5
  <2>8. (target # 0 => target \in found) /\ (target = 0 => found = {})
    BY <2>4, <2>6, <2>7
  <2> QED BY <2>2, <2>3, <2>8 DEF target
<1> QED BY <1>8, <1>9


\* TextIsExact of one document and one citation.
Exact(doc, part, section, reply) ==
    LET citation == format_citation(part, section)
        units == IF part = NoNumber /\ section = NoNumber THEN {1}
                 ELSE Units(doc, Kind(section), citation)
    IN  /\ section # NoNumber => citation = qualified_section(part, section)
        /\ ~reply.ok => \A i \in units : ExactText(doc, i) = <<>>
        /\ reply.ok => \E i \in units :
              /\ reply.text = ExactText(doc, i)
              /\ Heads(doc, i) # {} => reply.heading = First(Heads(doc, i))

LEMMA AnswerIsExact ==
    ASSUME NEW doc \in Seq(Elements), doc # <<>>, Regular(doc),
           NEW part \in Seq(STRING), NEW section \in Seq(STRING),
           part = NoNumber => section = NoNumber, Proper(part, section)
    PROVE  Exact(doc, part, section, parse_regulation_xml(doc, part, section))
<1> DEFINE target == find_target_node(doc, part, section)
           got == IF part = NoNumber /\ section = NoNumber THEN iter_text_blocks(doc)
                  ELSE IF target = 0 THEN <<>> ELSE extract_text_from_node(doc, target)
           reply == parse_regulation_xml(doc, part, section)
<1>1. reply = [ok |-> got # <<>>, text |-> got, heading |-> first_heading(doc, got)]
  BY DEF parse_regulation_xml
<1> HIDE DEF reply, got
<1>2. /\ reply.ok = (got # <<>>)
      /\ reply.text = got /\ reply.heading = first_heading(doc, got)
  BY <1>1
<1> USE DEF got
<1>3. CASE part = NoNumber
  <2>1. section = NoNumber /\ 1 \in DOMAIN doc
    BY <1>3
  <2>2. got = ExactText(doc, 1)
    BY <1>3, <2>1, RegularText
  <2>3. Heads(doc, 1) # {} => first_heading(doc, ExactText(doc, 1)) = First(Heads(doc, 1))
    BY <2>1, RegularText
  <2> HIDE DEF got
  <2> QED BY <1>2, <1>3, <2>1, <2>2, <2>3 DEF Exact, reply
<1>4. CASE part # NoNumber
  <2> DEFINE units == Cited(doc, part, section)
  <2>1. section # NoNumber => format_citation(part, section) = qualified_section(part, section)
    BY CitedIsRequested
  <2>2. (target # 0 => target \in units) /\ (target = 0 => units = {})
    BY <1>4, TargetIsCited
  <2>3. format_citation(part, section) # NoNumber /\ Kind(section) \in {"PART", "SECTION"}
    <3>1. CASE section = NoNumber
      BY <1>4, <3>1 DEF format_citation, NoNumber, Kind
    <3>2. CASE section # NoNumber
      BY <3>2, CitedIsRequested DEF Kind
    <3> QED BY <3>1, <3>2
  <2>4. \A i, k \in units : i = k
    BY <2>3, UnitsAreUnique DEF Cited
  <2>5. got = IF target = 0 THEN <<>> ELSE extract_text_from_node(doc, target)
    BY <1>4
  <2>6. units = Units(doc, Kind(section), format_citation(part, section))
    BY DEF Cited
  <2>7. units \in SUBSET DOMAIN doc
    BY DEF Cited, Units
  <2> HIDE DEF units, target, got
  <2>8. CASE target = 0
    BY <1>2, <1>4, <2>1, <2>2, <2>5, <2>6, <2>8 DEF Exact, reply
  <2>9. CASE target # 0
    <3>1. target \in units /\ target \in DOMAIN doc
      BY <2>2, <2>7, <2>9
    <3>2. got = ExactText(doc, target)
      BY <2>5, <2>9, <3>1, RegularText
    <3>3. Heads(doc, target) # {} =>
            first_heading(doc, ExactText(doc, target)) = First(Heads(doc, target))
      BY <3>1, RegularText
    <3>4. got = <<>> => \A i \in units : ExactText(doc, i) = <<>>
      BY <2>4, <3>1, <3>2
    <3> QED BY <1>2, <1>4, <2>1, <2>6, <3>1, <3>2, <3>3, <3>4 DEF Exact, reply
  <2> QED BY <2>8, <2>9
<1> QED BY <1>3, <1>4

\* What is asked for is proper, and what is answered is what the parser made of it.
AnswerInv ==
    /\ RetrievalTypeOK
    /\ \A i \in DOMAIN results :
          HasPart(results[i]) => Proper(results[i].part, results[i].section)
    /\ Proper(asked.part, asked.section)
    /\ document # <<>> =>
          /\ document \in Documents
          /\ answer = parse_regulation_xml(document, asked.part, asked.section)

LEMMA AnswerInvIsKept ==
    ASSUME RegularRegulations, AnswerInv, [RetrievalNext]_retrievalVars
    PROVE  AnswerInv'
<1>1. RetrievalTypeOK /\ RetrievalTypeOK'
  BY TypesAreKept DEF AnswerInv
<1>2. place \notin {"done", "error"} => document = <<>>
  BY <1>1 DEF RetrievalTypeOK
<1>3. ASSUME UNCHANGED <<asked, document, answer>>, results' = results \/ results' = <<>>
      PROVE  AnswerInv'
  BY <1>1, <1>3 DEF AnswerInv
<1>4. CASE UNCHANGED retrievalVars
  BY <1>3, <1>4 DEF retrievalVars
<1>5. ASSUME NEW clause \in Texts, BuildQuery(clause) PROVE AnswerInv'
  BY <1>3, <1>5 DEF BuildQuery
<1>6. CASE SearchFails \/ NoCandidate \/ FetchFails
  BY <1>3, <1>6 DEF SearchFails, NoCandidate, FetchFails, Fail
<1>7. ASSUME NEW hits \in ResultLists, SearchAnswers(hits) PROVE AnswerInv'
  <2>1. results' = hits /\ UNCHANGED <<asked, document, answer>>
    BY <1>7 DEF SearchAnswers
  <2>2. \A i \in DOMAIN hits : HasPart(hits[i]) => Proper(hits[i].part, hits[i].section)
    BY DEF RegularRegulations
  <2> QED BY <1>1, <2>1, <2>2 DEF AnswerInv
<1>8. CASE Choose
  <2> DEFINE best == select_best_candidate(results, predicted)
  <2>1. /\ place = "select" /\ best # 0 /\ results' = <<>> /\ document' = document
        /\ asked' = [part |-> results[best].part, section |-> results[best].section]
    BY <1>8 DEF Choose
  <2>2. results \in Seq(Hits)
    BY <1>1 DEF RetrievalTypeOK
  <2>3. best \in DOMAIN results /\ HasPart(results[best])
    BY <2>1, <2>2, BestIsFetchable
  <2> HIDE DEF best
  <2>4. Proper(results[best].part, results[best].section)
    BY <2>3 DEF AnswerInv
  <2>5. document' = <<>>
    BY <1>2, <2>1
  <2> QED BY <1>1, <2>1, <2>4, <2>5 DEF AnswerInv
<1>9. ASSUME NEW request \in Requests, CallTool(request) PROVE AnswerInv'
  <2>1. place = "idle" /\ asked' = request /\ document' = document /\ results' = results
    BY <1>9 DEF CallTool
  <2>2. Proper(request.part, request.section)
    BY DEF RegularRegulations
  <2> QED BY <1>1, <1>2, <2>1, <2>2 DEF AnswerInv
<1>10. ASSUME NEW doc \in Documents, FetchAnswers(doc) PROVE AnswerInv'
  <2>1. /\ document' = doc /\ asked' = asked /\ results' = results
        /\ answer' = parse_regulation_xml(doc, asked.part, asked.section)
    BY <1>10 DEF FetchAnswers
  <2> QED BY <1>1, <2>1 DEF AnswerInv
<1>11. CASE ReturnText
  BY <1>1, <1>11 DEF ReturnText, AnswerInv, WholeTitle, Proper
<1> QED BY <1>4, <1>5, <1>6, <1>7, <1>8, <1>9, <1>10, <1>11 DEF RetrievalNext


LEMMA AnswerInvIsExact ==
    ASSUME RegularRegulations, AnswerInv
    PROVE  TextIsExact
<1> SUFFICES ASSUME document # <<>> PROVE TextIsExact
  BY DEF TextIsExact
<1>1. /\ document \in Seq(Elements) /\ Regular(document)
      /\ answer = parse_regulation_xml(document, asked.part, asked.section)
  BY RetrievalAssumption DEF AnswerInv, RegularRegulations, RetrievalAssumption
<1>2. /\ asked \in [part : Seq(STRING), section : Seq(STRING)]
      /\ asked.part = NoNumber => asked.section = NoNumber
  BY DEF AnswerInv, RetrievalTypeOK
<1>3. Proper(asked.part, asked.section)
  BY DEF AnswerInv
<1>4. Exact(document, asked.part, asked.section, answer)
  BY <1>1, <1>2, <1>3, AnswerIsExact
<1>5. asked = WholeTitle <=> asked.part = NoNumber /\ asked.section = NoNumber
  BY <1>2 DEF WholeTitle
<1> QED BY <1>4, <1>5 DEF Exact, TextIsExact, Kind

\* Of regular documents, and asked for properly, the text under a citation is all of
\* that part or section and nothing else, in reading order and with its heading
\* (parse_regulation_xml, retrieve_section). Documents with markup inside a paragraph
\* are not regular, and of those it is false.
THEOREM TextIsExactWhenRegular ==
    ASSUME RegularRegulations
    PROVE  RetrievalSpec => []TextIsExact
<1>1. RetrievalInit => AnswerInv
  BY InitIsTyped DEF RetrievalInit, AnswerInv, WholeTitle, Proper
<1>2. AnswerInv /\ [RetrievalNext]_retrievalVars => AnswerInv'
  BY AnswerInvIsKept
<1>3. AnswerInv => TextIsExact
  BY AnswerInvIsExact
<1> QED BY <1>1, <1>2, <1>3, PTL DEF RetrievalSpec
=============================================================================
