--------------------------- MODULE MemoryStoreProofs ---------------------------
(***************************************************************************)
(* Proofs about MemoryStore: its types, how often a record can be in the   *)
(* file, and how many acknowledged records the faults can cost.            *)
(***************************************************************************)
EXTENDS MemoryStore, Integers, FiniteSetTheorems, SequenceTheorems, TLAPS

-----------------------------------------------------------------------------
(* Counting                                                                *)

\* A set that gains at most one element.
LEMMA AtMostOneMore ==
    ASSUME NEW A, IsFiniteSet(A), NEW x, NEW B, B \subseteq A \cup {x}
    PROVE  /\ IsFiniteSet(B) /\ Cardinality(A) \in Nat /\ Cardinality(B) \in Nat
           /\ Cardinality(B) <= Cardinality(A) + 1
<1>1. /\ IsFiniteSet(A \cup {x}) /\ Cardinality(A) \in Nat
      /\ \/ Cardinality(A \cup {x}) = Cardinality(A)
         \/ Cardinality(A \cup {x}) = Cardinality(A) + 1
  BY FS_AddElement, FS_CardinalityType
<1>2. /\ IsFiniteSet(B) /\ Cardinality(B) <= Cardinality(A \cup {x})
  BY <1>1, FS_Subset
<1>3. Cardinality(B) \in Nat
  BY <1>2, FS_CardinalityType
<1> QED BY <1>1, <1>2, <1>3

\* A set that loses at least one.
LEMMA AtLeastOneLess ==
    ASSUME NEW A, IsFiniteSet(A), NEW x \in A, NEW B, B \subseteq A \ {x}
    PROVE  /\ IsFiniteSet(B) /\ Cardinality(A) \in Nat /\ Cardinality(B) \in Nat
           /\ Cardinality(B) + 1 <= Cardinality(A)
<1>1. /\ IsFiniteSet(A \ {x}) /\ Cardinality(A \ {x}) = Cardinality(A) - 1
      /\ Cardinality(A) \in Nat
  BY FS_RemoveElement, FS_CardinalityType
<1>2. IsFiniteSet(B) /\ Cardinality(B) <= Cardinality(A \ {x})
  BY <1>1, FS_Subset
<1>3. Cardinality(B) \in Nat
  BY <1>2, FS_CardinalityType
<1> QED BY <1>1, <1>2, <1>3

\* A set that gains nothing.
LEMMA NoMore ==
    ASSUME NEW A, IsFiniteSet(A), NEW B, B \subseteq A
    PROVE  /\ IsFiniteSet(B) /\ Cardinality(A) \in Nat /\ Cardinality(B) \in Nat
           /\ Cardinality(B) <= Cardinality(A)
BY FS_Subset, FS_CardinalityType

-----------------------------------------------------------------------------
(* The lines of the file *)

Lines == Ids \cup {Malformed}
At(s, id) == {i \in 1..Len(s) : s[i] = id}
In(s) == {s[i] : i \in 1..Len(s)}

LEMMA AtIsFinite ==
    ASSUME NEW s \in Seq(Lines), NEW id
    PROVE  /\ IsFiniteSet(At(s, id)) /\ Cardinality(At(s, id)) \in Nat
           /\ (Cardinality(At(s, id)) = 0) <=> (id \notin In(s))
<1>1. Len(s) \in Nat
  OBVIOUS
<1>2. IsFiniteSet(1..Len(s)) /\ At(s, id) \subseteq 1..Len(s)
  BY <1>1, FS_Interval DEF At
<1>3. IsFiniteSet(At(s, id)) /\ Cardinality(At(s, id)) \in Nat
  BY <1>2, NoMore
<1>4. Cardinality(At(s, id)) = 0 <=> At(s, id) = {}
  BY <1>3, FS_EmptySet
<1>5. At(s, id) = {} <=> id \notin In(s)
  BY DEF At, In
<1> QED BY <1>3, <1>4, <1>5

LEMMA AppendLine ==
    ASSUME NEW s \in Seq(Lines), NEW x \in Lines
    PROVE  /\ Append(s, x) \in Seq(Lines) /\ In(Append(s, x)) = In(s) \cup {x}
           /\ \A id \in Ids : /\ x = id => Cardinality(At(Append(s, x), id))
                                              = Cardinality(At(s, id)) + 1
                              /\ x # id => At(Append(s, x), id) = At(s, id)
<1>1. /\ Append(s, x) \in Seq(Lines) /\ Len(s) \in Nat /\ Len(Append(s, x)) = Len(s) + 1
      /\ \A i \in 1..Len(s) : Append(s, x)[i] = s[i]
      /\ Append(s, x)[Len(s) + 1] = x
  BY AppendProperties, LenProperties
<1>2. 1..(Len(s) + 1) = 1..Len(s) \cup {Len(s) + 1}
  BY <1>1
<1>3. In(Append(s, x)) = In(s) \cup {x}
  BY <1>1, <1>2 DEF In
<1>4. ASSUME NEW id \in Ids, x = id
      PROVE  Cardinality(At(Append(s, x), id)) = Cardinality(At(s, id)) + 1
  <2>1. At(Append(s, x), id) = At(s, id) \cup {Len(s) + 1}
    BY <1>1, <1>2, <1>4 DEF At
  <2>2. Len(s) + 1 \notin At(s, id)
    BY <1>1 DEF At
  <2> QED BY <2>1, <2>2, AtIsFinite, FS_AddElement
<1>5. ASSUME NEW id \in Ids, x # id
      PROVE  At(Append(s, x), id) = At(s, id)
  BY <1>1, <1>2, <1>5 DEF At
<1> QED BY <1>1, <1>3, <1>4, <1>5

\* The first k lines, with or without the next one.
LEMMA CutLines ==
    ASSUME NEW s \in Seq(Lines), NEW k \in 0..Len(s), NEW id
    PROVE  /\ SubSeq(s, 1, k) \in Seq(Lines) /\ Len(SubSeq(s, 1, k)) = k
           /\ \A i \in 1..k : SubSeq(s, 1, k)[i] = s[i]
           /\ Cardinality(At(SubSeq(s, 1, k), id)) <= Cardinality(At(s, id))
           /\ k < Len(s) /\ s[k + 1] = id =>
                 Cardinality(At(SubSeq(s, 1, k), id)) + 1 <= Cardinality(At(s, id))
<1>0. Len(s) \in Nat /\ \A i \in 1..Len(s) : s[i] \in Lines
  OBVIOUS
<1>1. /\ SubSeq(s, 1, k) \in Seq(Lines) /\ Len(SubSeq(s, 1, k)) = k
      /\ \A i \in 1..k : SubSeq(s, 1, k)[i] = s[i]
  BY <1>0, SubSeqProperties
<1>2. IsFiniteSet(At(s, id))
  BY AtIsFinite
<1>3. At(SubSeq(s, 1, k), id) \subseteq At(s, id)
  BY <1>0, <1>1 DEF At
<1>4. Cardinality(At(SubSeq(s, 1, k), id)) <= Cardinality(At(s, id))
  BY <1>2, <1>3, NoMore
<1>5. ASSUME k < Len(s), s[k + 1] = id
      PROVE  Cardinality(At(SubSeq(s, 1, k), id)) + 1 <= Cardinality(At(s, id))
  <2>1. k + 1 \in At(s, id) /\ k + 1 \notin At(SubSeq(s, 1, k), id)
    BY <1>0, <1>1, <1>5 DEF At
  <2>2. At(SubSeq(s, 1, k), id) \subseteq At(s, id) \ {k + 1}
    BY <1>3, <2>1
  <2> QED BY <1>2, <2>1, <2>2, AtLeastOneLess
<1> QED BY <1>1, <1>4, <1>5

-----------------------------------------------------------------------------
(* The inductive invariant *)

\* An append under way works with the ids its instance has loaded, and its record
\* is not one of them.
BusyIsLoaded(p) ==
    /\ pc[p] # "idle" => loaded[p]
    /\ pc[p] = "write" => arg[p] \notin ids[p]

\* The instances that may still add a copy of a record that is in the file: those
\* that loaded it before the record was there. The others know of it, or will.
MayAdd(id) ==
    {p \in Procs : /\ loaded[p] /\ id \notin ids[p]
                   /\ ~ (pc[p] = "sync" /\ arg[p] = id)}

CopyBudget(id) ==
    Copies(id) > 0 =>
        Copies(id) + Cardinality(MayAdd(id)) <= Cardinality(Procs) + syncFails

\* Acknowledged records that no complete line on disk holds.
NotDurable == (acked \ Separated) \ {lines[i] : i \in {j \in 1..Len(lines) : j <= synced}}

\* Instances about to acknowledge a record that no complete line holds.
Stranded ==
    {p \in Procs : pc[p] = "sync" /\ arg[p] \notin Separated /\ arg[p] \notin In(lines)}

\* What the next write will be glued to.
Loose == IF tail = NoTail THEN 0 ELSE 1

LossBudget ==
    Cardinality(NotDurable) + Cardinality(Stranded) + Loose <= crashes + 2 * shorts

IInv ==
    /\ TypeOK
    /\ IsFiniteSet(acked)
    /\ \A p \in Procs : BusyIsLoaded(p)
    /\ \A id \in Ids : CopyBudget(id)
    /\ LossBudget

LEMMA CopiesOf ==
    ASSUME TypeOK, NEW id \in Ids
    PROVE  /\ Copies(id) = Cardinality(At(lines, id)) + (IF tail = id THEN 1 ELSE 0)
           /\ Cardinality(At(lines, id)) \in Nat /\ Copies(id) \in Nat
           /\ Copies(id) = 0 <=> id \notin WellFormed
<1>1. lines \in Seq(Lines)
  BY DEF TypeOK, Lines
<1>2. Copies(id) = Cardinality(At(lines, id)) + (IF tail = id THEN 1 ELSE 0)
  BY DEF Copies, At
<1>3. /\ Cardinality(At(lines, id)) \in Nat
      /\ Cardinality(At(lines, id)) = 0 <=> id \notin In(lines)
  BY <1>1, AtIsFinite
<1>4. id \in WellFormed <=> id \in In(lines) \/ tail = id
  <2>1. DOMAIN lines = 1..Len(lines)
    BY <1>1
  <2> QED BY <2>1 DEF WellFormed, Range, In
<1> QED BY <1>2, <1>3, <1>4

\* The same of the state after a step.
LEMMA CopiesAfter ==
    ASSUME TypeOK', NEW id \in Ids
    PROVE  /\ Copies(id)' = Cardinality(At(lines', id)) + (IF tail' = id THEN 1 ELSE 0)
           /\ Cardinality(At(lines', id)) \in Nat /\ Copies(id)' \in Nat
<1>1. lines' \in Seq(Lines)
  BY DEF TypeOK, Lines
<1>2. Copies(id)' = Cardinality(At(lines', id)) + (IF tail' = id THEN 1 ELSE 0)
  BY DEF Copies, At
<1> QED BY <1>1, <1>2, AtIsFinite

LEMMA MayAddIsFinite ==
    ASSUME NEW id
    PROVE  /\ IsFiniteSet(MayAdd(id)) /\ IsFiniteSet(MayAdd(id)')
           /\ Cardinality(MayAdd(id)) \in Nat /\ Cardinality(MayAdd(id)') \in Nat
           /\ Cardinality(Procs) \in Nat
           /\ Cardinality(MayAdd(id)) <= Cardinality(Procs)
<1>1. MayAdd(id) \subseteq Procs /\ MayAdd(id)' \subseteq Procs /\ IsFiniteSet(Procs)
  BY ConstantsAssumption DEF MayAdd
<1> QED BY <1>1, NoMore

LEMMA InitIInv == Init => IInv
<1> SUFFICES ASSUME Init PROVE IInv
  OBVIOUS
<1>1. TypeOK
  <2>1. (CHOOSE i \in Ids : TRUE) \in Ids
    BY ConstantsAssumption
  <2>2. arg \in [Procs -> Ids]
    BY <2>1 DEF Init
  <2>3. lines = <<>> /\ tail = NoTail /\ synced = 0 /\ Segments = 0
    BY DEF Init, Segments
  <2>4. synced \in 0..Segments /\ lines \in Seq(Ids \cup {Malformed})
    BY <2>3
  <2>5. /\ acked \subseteq Ids /\ torn \in BOOLEAN /\ crashes \in 0..MaxCrashes
        /\ shorts \in 0..MaxShortWrites /\ syncFails \in 0..MaxSyncFails
    <3>1. acked = {} /\ crashes = 0 /\ shorts = 0 /\ syncFails = 0
      BY DEF Init
    <3>2. torn \in BOOLEAN
      BY DEF Init
    <3> QED BY <3>1, <3>2, ConstantsAssumption
  <2>6. /\ ids \in [Procs -> SUBSET Ids] /\ loaded \in [Procs -> BOOLEAN]
        /\ pc \in [Procs -> {"idle", "write", "sync"}]
    BY DEF Init
  <2> QED BY <2>2, <2>3, <2>4, <2>5, <2>6 DEF TypeOK
<1>2. IsFiniteSet(acked) /\ NotDurable = {} /\ Stranded = {} /\ Loose = 0
  BY FS_EmptySet DEF Init, NotDurable, Stranded, Loose
<1>3. LossBudget
  BY <1>2, FS_EmptySet DEF Init, LossBudget
<1>4. \A p \in Procs : BusyIsLoaded(p)
  BY DEF Init, BusyIsLoaded
<1>5. ASSUME NEW id \in Ids PROVE CopyBudget(id)
  <2>1. id \notin WellFormed
    BY ConstantsAssumption DEF Init, WellFormed, Range
  <2> QED BY <1>1, <2>1, CopiesOf DEF CopyBudget
<1> QED BY <1>1, <1>2, <1>3, <1>4, <1>5 DEF IInv

-----------------------------------------------------------------------------
(* Types *)

LEMMA SegmentsOf ==
    ASSUME TypeOK
    PROVE  /\ Len(lines) \in Nat /\ synced \in Nat /\ synced <= Segments
           /\ OnDisk \in 0..Len(lines) /\ OnDisk <= synced
           /\ Segments = Len(lines) \/ Segments = Len(lines) + 1
           /\ (tail = NoTail) <=> (Segments = Len(lines))
<1>1. Len(lines) \in Nat
  BY LenProperties DEF TypeOK
<1>2. Segments \in {Len(lines), Len(lines) + 1} /\ (tail = NoTail <=> Segments = Len(lines))
  BY <1>1 DEF Segments
<1>3. synced \in 0..Segments
  BY DEF TypeOK
<1> QED BY <1>1, <1>2, <1>3 DEF OnDisk

Instances == /\ ids \in [Procs -> SUBSET Ids]
             /\ loaded \in [Procs -> BOOLEAN]
             /\ pc \in [Procs -> {"idle", "write", "sync"}]
             /\ arg \in [Procs -> Ids]

LEMMA StepTypes == TypeOK /\ Next => TypeOK'
<1> SUFFICES ASSUME TypeOK, Next PROVE TypeOK'
  OBVIOUS
<1>0. /\ Instances /\ lines \in Seq(Lines) /\ Len(lines) \in Nat
      /\ NoTail \notin Ids /\ Fragment \notin Ids /\ NoTail # Fragment
      /\ Separated \subseteq Ids /\ tail \in Ids \cup {NoTail, Fragment}
      /\ synced \in 0..Segments
  BY ConstantsAssumption, LenProperties DEF TypeOK, Instances, Lines
<1>1. ASSUME NEW p \in Procs, NEW id \in Ids, Check(p, id)
      PROVE  TypeOK'
  <2>1. KnownIds(p) \in SUBSET Ids
    BY <1>0 DEF KnownIds, Readable, WellFormed, Instances
  <2>2. Instances'
    BY <1>0, <1>1, <2>1 DEF Check, Instances
  <2>3. UNCHANGED <<lines, tail, torn, synced, acked, crashes, shorts, syncFails>>
    BY <1>1 DEF Check
  <2> QED BY <2>2, <2>3 DEF TypeOK, Instances, Segments
<1>2. ASSUME NEW p \in Procs, Write(p)
      PROVE  TypeOK'
  <2>1. (IF tail = NoTail THEN LineOf(arg[p]) ELSE Malformed) \in Lines
    BY <1>0 DEF LineOf, Lines, Instances
  <2>2. lines' \in Seq(Lines) /\ Len(lines') = Len(lines) + 1
    BY <1>0, <1>2, <2>1, AppendProperties DEF Write
  <2>3. synced' \in 0..Segments'
    BY <1>0, <1>2, <2>2, SegmentsOf DEF Write, Segments
  <2>4. Instances'
    BY <1>0, <1>2 DEF Write, Instances
  <2> QED BY <1>2, <2>2, <2>3, <2>4 DEF TypeOK, Instances, Lines, Write
<1>3. ASSUME NEW p \in Procs, ShortWrite(p)
      PROVE  TypeOK'
  <2>1. tail' \in Ids \cup {NoTail, Fragment} /\ tail' # NoTail
    BY <1>0, <1>3 DEF ShortWrite, Instances
  <2>2. synced' \in 0..Segments'
    BY <1>0, <1>3, <2>1, SegmentsOf DEF ShortWrite, Segments
  <2>3. Instances'
    BY <1>0, <1>3 DEF ShortWrite, Instances
  <2>4. torn' \in BOOLEAN
    BY <1>3 DEF ShortWrite, TypeOK
  <2>5. shorts' \in 0..MaxShortWrites
    BY <1>3, ConstantsAssumption DEF ShortWrite, TypeOK
  <2> QED BY <1>3, <2>1, <2>2, <2>3, <2>4, <2>5 DEF TypeOK, Instances, ShortWrite
<1>4. ASSUME NEW p \in Procs, WriteFails(p) \/ Renew(p)
      PROVE  TypeOK'
  <2>1. Instances'
    BY <1>0, <1>4 DEF WriteFails, Renew, Instances
  <2>2. UNCHANGED <<lines, tail, torn, synced, acked, crashes, shorts, syncFails>>
    BY <1>4 DEF WriteFails, Renew
  <2> QED BY <2>1, <2>2 DEF TypeOK, Instances, Segments
<1>5. ASSUME NEW p \in Procs, Sync(p)
      PROVE  TypeOK'
  <2>1. Instances' /\ acked' \subseteq Ids
    BY <1>0, <1>5 DEF Sync, Instances, TypeOK
  <2>2. synced' \in 0..Segments' /\ Segments' = Segments
    BY <1>5, SegmentsOf DEF Sync, Segments
  <2> QED BY <1>5, <2>1, <2>2 DEF TypeOK, Instances, Sync
<1>6. ASSUME NEW p \in Procs, SyncFails(p)
      PROVE  TypeOK'
  <2>1. Instances'
    BY <1>0, <1>6 DEF SyncFails, Instances
  <2>2. UNCHANGED <<lines, tail, torn, synced, acked, crashes, shorts>>
    BY <1>6 DEF SyncFails
  <2>3. syncFails' \in 0..MaxSyncFails
    BY <1>6, ConstantsAssumption DEF SyncFails, TypeOK
  <2> QED BY <2>1, <2>2, <2>3 DEF TypeOK, Instances, Segments
<1>7. ASSUME NEW k \in 0..Segments, Crash(k)
      PROVE  TypeOK'
  <2> DEFINE kept == IF k <= Len(lines) THEN k ELSE Len(lines)
  <2>1. kept \in 0..Len(lines) /\ k \in Nat
    BY <1>0, <1>7, SegmentsOf
  <2>2. lines' = SubSeq(lines, 1, kept)
    BY <1>7 DEF Crash
  <2> HIDE DEF kept
  <2>3. lines' \in Seq(Lines) /\ Len(lines') = kept
    BY <2>1, <2>2, <1>0, CutLines
  <2>4. tail' \in Ids \cup {NoTail, Fragment}
    BY <1>0, <1>7 DEF Crash, RemainsOf
  <2>5. synced' \in 0..Segments'
    <3>1. synced' = Segments'
      BY <1>7 DEF Crash
    <3>2. Segments' \in Nat
      BY <2>1, <2>3 DEF Segments
    <3> QED BY <3>1, <3>2
  <2>6. Instances'
    BY <1>0, <1>7 DEF Crash, Instances
  <2>7. torn' \in BOOLEAN
    BY <1>7 DEF Crash, TypeOK
  <2>8. crashes' \in 0..MaxCrashes
    BY <1>7, ConstantsAssumption DEF Crash, TypeOK
  <2>9. UNCHANGED <<acked, shorts, syncFails>>
    BY <1>7 DEF Crash
  <2> QED BY <2>3, <2>4, <2>5, <2>6, <2>7, <2>8, <2>9 DEF TypeOK, Instances, Lines
<1> QED BY <1>1, <1>2, <1>3, <1>4, <1>5, <1>6, <1>7 DEF Next

-----------------------------------------------------------------------------
(* Copies *)

LEMMA StepBusyIsLoaded ==
    ASSUME TypeOK, Next, \A p \in Procs : BusyIsLoaded(p)
    PROVE  \A p \in Procs : BusyIsLoaded(p)'
<1> SUFFICES ASSUME NEW q \in Procs PROVE BusyIsLoaded(q)'
  OBVIOUS
<1>0. Instances /\ BusyIsLoaded(q)
  BY DEF TypeOK, Instances
<1>1. ASSUME NEW p \in Procs, NEW id \in Ids, Check(p, id)
      PROVE  BusyIsLoaded(q)'
  BY <1>0, <1>1 DEF Check, Instances, BusyIsLoaded
<1>2. ASSUME NEW p \in Procs,
             Write(p) \/ ShortWrite(p) \/ WriteFails(p) \/ SyncFails(p) \/ Renew(p)
      PROVE  BusyIsLoaded(q)'
  BY <1>0, <1>2 DEF Write, ShortWrite, WriteFails, SyncFails, Renew, Instances,
                    BusyIsLoaded
<1>3. ASSUME NEW p \in Procs, Sync(p)
      PROVE  BusyIsLoaded(q)'
  <2>1. CASE q = p
    BY <2>1, <1>0, <1>3 DEF Sync, Instances, BusyIsLoaded
  <2>2. CASE q # p
    BY <2>2, <1>0, <1>3 DEF Sync, Instances, BusyIsLoaded
  <2> QED BY <2>1, <2>2
<1>4. ASSUME NEW k \in 0..Segments, Crash(k)
      PROVE  BusyIsLoaded(q)'
  BY <1>4 DEF Crash, BusyIsLoaded
<1> QED BY <1>1, <1>2, <1>3, <1>4 DEF Next

\* A step that adds no copy, and lets no further instance add one.
LEMMA NoCopyAdded ==
    ASSUME TypeOK, TypeOK', NEW id \in Ids, CopyBudget(id),
           Copies(id)' <= Copies(id), syncFails' = syncFails,
           Copies(id) > 0 => MayAdd(id)' \subseteq MayAdd(id)
    PROVE  CopyBudget(id)'
<1> SUFFICES ASSUME Copies(id)' > 0
             PROVE  Copies(id)' + Cardinality(MayAdd(id)') <= Cardinality(Procs) + syncFails
  BY DEF CopyBudget
<1>1. Copies(id) \in Nat /\ Copies(id)' \in Nat /\ syncFails \in Nat
  <2>1. Copies(id) \in Nat
    BY CopiesOf
  <2>2. Copies(id)' \in Nat
    BY CopiesAfter
  <2>3. syncFails \in Nat
    BY ConstantsAssumption DEF TypeOK
  <2> QED BY <2>1, <2>2, <2>3
<1>2. Cardinality(MayAdd(id)') <= Cardinality(MayAdd(id))
  BY <1>1, MayAddIsFinite, NoMore
<1>3. Copies(id) + Cardinality(MayAdd(id)) <= Cardinality(Procs) + syncFails
  BY <1>1 DEF CopyBudget
<1> QED BY <1>1, <1>2, <1>3, MayAddIsFinite

\* A copy is added by an instance that could add it and cannot any more.
LEMMA CopyAdded ==
    ASSUME TypeOK, NEW id \in Ids, CopyBudget(id),
           Copies(id)' = Copies(id) + 1, syncFails' = syncFails,
           NEW p \in Procs, p \in MayAdd(id), MayAdd(id)' \subseteq MayAdd(id) \ {p}
    PROVE  CopyBudget(id)'
<1>1. Copies(id) \in Nat /\ syncFails \in Nat
  BY CopiesOf, ConstantsAssumption DEF TypeOK
<1>2. Cardinality(MayAdd(id)') + 1 <= Cardinality(MayAdd(id))
  BY MayAddIsFinite, AtLeastOneLess
<1>3. CASE Copies(id) = 0
  BY <1>1, <1>2, <1>3, MayAddIsFinite DEF CopyBudget
<1>4. CASE Copies(id) # 0
  <2>1. Copies(id) + Cardinality(MayAdd(id)) <= Cardinality(Procs) + syncFails
    BY <1>1, <1>4 DEF CopyBudget
  <2> QED BY <1>1, <1>2, <2>1, MayAddIsFinite DEF CopyBudget
<1> QED BY <1>3, <1>4

\* What a step leaves of the records an instance may add.
LEMMA StepCopyBudget ==
    ASSUME TypeOK, Next, \A p \in Procs : BusyIsLoaded(p), NEW id \in Ids, CopyBudget(id)
    PROVE  CopyBudget(id)'
<1>0. /\ TypeOK' /\ Instances /\ lines \in Seq(Lines) /\ Len(lines) \in Nat
      /\ NoTail \notin Ids /\ Fragment \notin Ids /\ Malformed \notin Ids
  BY StepTypes, ConstantsAssumption, LenProperties DEF TypeOK, Instances, Lines
<1>1. /\ Copies(id) \in Nat /\ Cardinality(At(lines, id)) \in Nat
      /\ Copies(id) = Cardinality(At(lines, id)) + (IF tail = id THEN 1 ELSE 0)
      /\ Copies(id)' = Cardinality(At(lines', id)) + (IF tail' = id THEN 1 ELSE 0)
  BY <1>0, CopiesOf, CopiesAfter
<1>2. ASSUME NEW p \in Procs, NEW x \in Ids, Check(p, x)
      PROVE  CopyBudget(id)'
  <2>1. UNCHANGED <<lines, tail, torn, syncFails>>
    BY <1>2 DEF Check
  <2>2. Copies(id) > 0 => MayAdd(id)' \subseteq MayAdd(id)
    <3> SUFFICES ASSUME Copies(id) > 0, NEW q \in MayAdd(id)' PROVE q \in MayAdd(id)
      OBVIOUS
    <3>1. id \in WellFormed
      BY <1>1, CopiesOf
    <3>2. CASE q # p
      <4>1. /\ q \in Procs /\ loaded'[q] = loaded[q] /\ ids'[q] = ids[q]
            /\ pc'[q] = pc[q] /\ arg'[q] = arg[q]
        BY <3>2, <1>0, <1>2 DEF Check, Instances, MayAdd
      <4> QED BY <4>1 DEF MayAdd
    <3>3. CASE q = p
      <4>1. id \notin KnownIds(p) /\ pc[p] = "idle" /\ (loaded[p] \/ ~torn)
        BY <3>3, <1>0, <1>2 DEF Check, Instances, MayAdd
      <4>2. loaded[p] /\ id \notin ids[p]
        BY <4>1, <3>1 DEF KnownIds, Readable
      <4> QED BY <3>3, <4>1, <4>2 DEF MayAdd
    <3> QED BY <3>2, <3>3
  <2>3. Copies(id)' = Copies(id)
    BY <2>1, <1>1
  <2> QED BY <1>0, <1>1, <2>1, <2>2, <2>3, NoCopyAdded
<1>3. ASSUME NEW p \in Procs, Write(p) \/ ShortWrite(p)
      PROVE  CopyBudget(id)'
  <2>1. /\ pc[p] = "write" /\ pc' = [pc EXCEPT ![p] = "sync"]
        /\ UNCHANGED <<ids, loaded, arg, syncFails>>
    BY <1>3 DEF Write, ShortWrite
  <2>2. loaded[p] /\ arg[p] \notin ids[p]
    BY <2>1 DEF BusyIsLoaded
  <2>3. MayAdd(id)' \subseteq MayAdd(id)
    <3> SUFFICES ASSUME NEW q \in MayAdd(id)' PROVE q \in MayAdd(id)
      OBVIOUS
    <3>1. q # p => pc'[q] = pc[q]
      BY <2>1, <1>0 DEF Instances
    <3> QED BY <3>1, <2>1 DEF MayAdd
  <2>4. CASE /\ tail = NoTail /\ arg[p] = id
             /\ lines' = Append(lines, id) \/ (lines' = lines /\ tail' = id)
             /\ lines' = lines \/ tail' = NoTail
    <3>1. Copies(id)' = Copies(id) + 1
      <4>1. CASE lines' = Append(lines, id) /\ tail' = NoTail
        <5>1. Cardinality(At(lines', id)) = Cardinality(At(lines, id)) + 1
          BY <4>1, <1>0, AppendLine DEF Lines
        <5> QED BY <5>1, <4>1, <2>4, <1>0, <1>1
      <4>2. CASE lines' = lines /\ tail' = id
        BY <4>2, <2>4, <1>0, <1>1
      <4>3. lines' # Append(lines, id) \/ lines' # lines
        BY <1>0, AppendProperties DEF Lines
      <4> QED BY <4>1, <4>2, <4>3, <2>4
    <3>2. p \in MayAdd(id) /\ p \notin MayAdd(id)'
      BY <2>1, <2>2, <2>4, <1>0 DEF MayAdd, Instances
    <3>3. MayAdd(id)' \subseteq MayAdd(id) \ {p}
      BY <2>3, <3>2
    <3> QED BY <3>1, <3>2, <3>3, <2>1, CopyAdded
  <2>5. CASE /\ lines' = lines \/ \E x \in Lines : x # id /\ lines' = Append(lines, x)
             /\ tail' # id
    <3>1. Cardinality(At(lines', id)) = Cardinality(At(lines, id))
      <4>1. ASSUME NEW x \in Lines, x # id, lines' = Append(lines, x)
            PROVE  At(lines', id) = At(lines, id)
        BY <4>1, <1>0, AppendLine
      <4> QED BY <4>1, <2>5
    <3>2. Copies(id)' <= Copies(id)
      BY <3>1, <2>5, <1>1
    <3> QED BY <3>2, <2>1, <2>3, <1>0, NoCopyAdded
  <2>6. CASE Write(p)
    <3>1. /\ lines' = Append(lines, IF tail = NoTail THEN LineOf(arg[p]) ELSE Malformed)
          /\ tail' = NoTail
      BY <2>6 DEF Write
    <3>2. CASE tail = NoTail /\ LineOf(arg[p]) = id
      <4>1. arg[p] = id
        BY <3>2, <1>0 DEF LineOf
      <4> QED BY <2>4, <3>1, <3>2, <4>1
    <3>3. CASE ~ (tail = NoTail /\ LineOf(arg[p]) = id)
      <4> DEFINE x == IF tail = NoTail THEN LineOf(arg[p]) ELSE Malformed
      <4>1. x \in Lines /\ x # id
        BY <3>3, <1>0 DEF LineOf, Lines, Instances
      <4> QED BY <2>5, <3>1, <4>1, <1>0
    <3> QED BY <3>2, <3>3
  <2>7. CASE ShortWrite(p)
    <3>1. /\ lines' = lines
          /\ tail' = Fragment \/ (tail = NoTail /\ tail' = arg[p])
      BY <2>7 DEF ShortWrite
    <3>2. CASE tail' = id
      BY <2>4, <3>1, <3>2, <1>0
    <3>3. CASE tail' # id
      BY <2>5, <3>1, <3>3
    <3> QED BY <3>2, <3>3
  <2> QED BY <1>3, <2>6, <2>7
<1>4. ASSUME NEW p \in Procs, WriteFails(p) \/ Renew(p) \/ Sync(p)
      PROVE  CopyBudget(id)'
  <2>1. UNCHANGED <<lines, tail, syncFails>>
    BY <1>4 DEF WriteFails, Renew, Sync
  <2>2. MayAdd(id)' \subseteq MayAdd(id)
    <3> SUFFICES ASSUME NEW q \in MayAdd(id)' PROVE q \in MayAdd(id)
      OBVIOUS
    <3>1. CASE q # p
      <4>1. /\ q \in Procs /\ loaded'[q] = loaded[q] /\ ids'[q] = ids[q]
            /\ pc'[q] = pc[q] /\ arg'[q] = arg[q]
        BY <3>1, <1>0, <1>4 DEF WriteFails, Renew, Sync, Instances, MayAdd
      <4> QED BY <4>1 DEF MayAdd
    <3>2. CASE q = p
      BY <3>2, <1>0, <1>4 DEF WriteFails, Renew, Sync, Instances, MayAdd
    <3> QED BY <3>1, <3>2
  <2>3. Copies(id)' = Copies(id)
    BY <2>1, <1>1
  <2> QED BY <1>0, <1>1, <2>1, <2>2, <2>3, NoCopyAdded
<1>5. ASSUME NEW p \in Procs, SyncFails(p)
      PROVE  CopyBudget(id)'
  <2>1. /\ UNCHANGED <<lines, tail, ids, loaded, arg>> /\ syncFails' = syncFails + 1
        /\ pc' = [pc EXCEPT ![p] = "idle"]
    BY <1>5 DEF SyncFails
  <2>2. Copies(id)' = Copies(id) /\ syncFails \in Nat
    BY <2>1, <1>1, ConstantsAssumption DEF TypeOK
  <2>3. MayAdd(id)' \subseteq MayAdd(id) \cup {p}
    BY <2>1, <1>0 DEF MayAdd, Instances
  <2>4. Cardinality(MayAdd(id)') <= Cardinality(MayAdd(id)) + 1
    BY <2>3, MayAddIsFinite, AtMostOneMore
  <2> QED BY <1>1, <2>1, <2>2, <2>4, MayAddIsFinite DEF CopyBudget
<1>6. ASSUME NEW k \in 0..Segments, Crash(k)
      PROVE  CopyBudget(id)'
  <2> DEFINE kept == IF k <= Len(lines) THEN k ELSE Len(lines)
  <2>1. kept \in 0..Len(lines) /\ k \in Nat
    BY <1>0, <1>6, SegmentsOf
  <2>2. /\ lines' = SubSeq(lines, 1, kept) /\ syncFails' = syncFails
        /\ tail' \in IF k = Segments THEN {tail} ELSE RemainsOf(k)
        /\ MayAdd(id)' = {}
    BY <1>6 DEF Crash, MayAdd
  <2>3. /\ Cardinality(At(lines', id)) <= Cardinality(At(lines, id))
        /\ kept < Len(lines) /\ lines[kept + 1] = id =>
              Cardinality(At(lines', id)) + 1 <= Cardinality(At(lines, id))
    BY <2>1, <2>2, <1>0, CutLines
  <2>4. Copies(id)' <= Copies(id)
    <3>0. Cardinality(At(lines', id)) \in Nat
      BY <1>0, CopiesAfter
    <3>1. CASE tail' # id
      BY <3>0, <3>1, <2>3, <1>1
    <3>2. CASE tail' = id /\ k = Segments
      BY <3>0, <3>2, <2>2, <2>3, <1>1
    <3>3. CASE tail' = id /\ k # Segments
      <4>1. k < Len(lines) /\ lines[k + 1] = id
        BY <3>3, <2>2, <1>0 DEF RemainsOf
      <4>2. kept = k
        BY <4>1, <2>1, <1>0
      <4> QED BY <3>0, <3>3, <4>1, <4>2, <2>3, <1>1
    <3> QED BY <3>1, <3>2, <3>3
  <2> HIDE DEF kept
  <2> QED BY <1>0, <2>2, <2>4, NoCopyAdded
<1> QED BY <1>2, <1>3, <1>4, <1>5, <1>6 DEF Next

-----------------------------------------------------------------------------
(* Losses *)

\* The lines that are on disk.
Durable == {lines[i] : i \in {j \in 1..Len(lines) : j <= synced}}

LEMMA LossSets ==
    ASSUME IsFiniteSet(acked)
    PROVE  /\ IsFiniteSet(NotDurable) /\ Cardinality(NotDurable) \in Nat
           /\ IsFiniteSet(Stranded) /\ Cardinality(Stranded) \in Nat
           /\ Loose \in {0, 1} /\ Loose' \in {0, 1}
<1>1. NotDurable \subseteq acked /\ Stranded \subseteq Procs /\ IsFiniteSet(Procs)
  BY ConstantsAssumption DEF NotDurable, Stranded
<1> QED BY <1>1, NoMore DEF Loose

\* A step after which no more is lost, nobody else is stranded, and the end of the
\* file is no worse than the faults of the step pay for.
LEMMA NothingLost ==
    ASSUME TypeOK, IsFiniteSet(acked), LossBudget,
           NotDurable' \subseteq NotDurable, Stranded' \subseteq Stranded,
           crashes' \in Nat, shorts' \in Nat,
           Loose' + crashes + 2 * shorts <= Loose + crashes' + 2 * shorts'
    PROVE  LossBudget'
<1>1. /\ Cardinality(NotDurable') \in Nat
      /\ Cardinality(NotDurable') <= Cardinality(NotDurable)
      /\ Cardinality(Stranded') \in Nat
      /\ Cardinality(Stranded') <= Cardinality(Stranded)
  BY LossSets, NoMore
<1>2. crashes \in Nat /\ shorts \in Nat
  BY ConstantsAssumption DEF TypeOK
<1> QED BY <1>1, <1>2, LossSets DEF LossBudget

\* A step that strands one more instance, paid for likewise.
LEMMA OneStranded ==
    ASSUME TypeOK, IsFiniteSet(acked), LossBudget, NEW p,
           NotDurable' \subseteq NotDurable, Stranded' \subseteq Stranded \cup {p},
           crashes' \in Nat, shorts' \in Nat,
           1 + Loose' + crashes + 2 * shorts <= Loose + crashes' + 2 * shorts'
    PROVE  LossBudget'
<1>1. /\ Cardinality(NotDurable') \in Nat
      /\ Cardinality(NotDurable') <= Cardinality(NotDurable)
      /\ Cardinality(Stranded') \in Nat
      /\ Cardinality(Stranded') <= Cardinality(Stranded) + 1
  BY LossSets, NoMore, AtMostOneMore
<1>2. crashes \in Nat /\ shorts \in Nat
  BY ConstantsAssumption DEF TypeOK
<1> QED BY <1>1, <1>2, LossSets DEF LossBudget

LEMMA StepLossBudget ==
    ASSUME TypeOK, IsFiniteSet(acked), LossBudget, Next
    PROVE  IsFiniteSet(acked') /\ LossBudget'
<1>0. /\ TypeOK' /\ Instances /\ lines \in Seq(Lines) /\ Len(lines) \in Nat
      /\ NotDurable = (acked \ Separated) \ Durable
      /\ Separated \subseteq Ids
      /\ crashes \in Nat /\ shorts \in Nat /\ crashes' \in Nat /\ shorts' \in Nat
  <2>1. TypeOK'
    BY StepTypes
  <2>2. crashes \in Nat /\ shorts \in Nat
    BY ConstantsAssumption DEF TypeOK
  <2>3. crashes' \in Nat /\ shorts' \in Nat
    BY <2>1, ConstantsAssumption DEF TypeOK
  <2> QED BY <2>1, <2>2, <2>3, ConstantsAssumption, LenProperties
          DEF TypeOK, Instances, Lines, NotDurable, Durable
<1>1. ASSUME NEW p \in Procs,
             \/ \E id \in Ids : Check(p, id)
             \/ WriteFails(p) \/ Renew(p) \/ SyncFails(p)
      PROVE  acked' = acked /\ LossBudget'
  <2>1. /\ UNCHANGED <<lines, tail, synced, acked, crashes, shorts>>
        /\ \A q \in Procs \ {p} : pc'[q] = pc[q] /\ arg'[q] = arg[q]
        /\ pc'[p] # "sync" \/ (pc'[p] = pc[p] /\ arg'[p] = arg[p])
    BY <1>0, <1>1 DEF Check, WriteFails, Renew, SyncFails, Instances
  <2>2. NotDurable' = NotDurable /\ Loose' = Loose /\ In(lines)' = In(lines)
    BY <2>1 DEF NotDurable, Loose, In
  <2>3. Stranded' \subseteq Stranded
    BY <2>1, <2>2 DEF Stranded
  <2> QED BY <1>0, <2>1, <2>2, <2>3, LossSets, NothingLost
<1>2. ASSUME NEW p \in Procs, Write(p)
      PROVE  acked' = acked /\ LossBudget'
  <2> DEFINE x == IF tail = NoTail THEN LineOf(arg[p]) ELSE Malformed
  <2>1. /\ lines' = Append(lines, x) /\ tail' = NoTail /\ synced' = OnDisk
        /\ pc' = [pc EXCEPT ![p] = "sync"]
        /\ UNCHANGED <<arg, acked, crashes, shorts>>
    BY <1>2 DEF Write
  <2>2. x \in Lines
    BY <1>0 DEF LineOf, Lines, Instances
  <2>3. In(lines') = In(lines) \cup {x}
    BY <1>0, <2>1, <2>2, AppendLine
  <2>4. Durable' = Durable
    <3>1. /\ Len(lines') = Len(lines) + 1
          /\ \A i \in 1..Len(lines) : lines'[i] = lines[i]
      BY <1>0, <2>1, <2>2, AppendProperties
    <3>2. {j \in 1..Len(lines') : j <= synced'} = {j \in 1..Len(lines) : j <= synced}
      BY <1>0, <2>1, <3>1, SegmentsOf DEF OnDisk
    <3> QED BY <3>1, <3>2 DEF Durable
  <2>5. NotDurable' = NotDurable
    BY <2>1, <2>4, <1>0 DEF NotDurable, Durable
  <2>6. \A q \in Procs \ {p} : pc'[q] = pc[q]
    BY <2>1, <1>0 DEF Instances
  <2>7. Stranded' \subseteq Stranded \cup {p}
    BY <2>1, <2>3, <2>6 DEF Stranded
  <2>8. Loose' = 0
    BY <2>1 DEF Loose
  <2>9. CASE tail = NoTail
    <3>1. p \notin Stranded'
      <4>1. arg[p] \in Separated \/ x = arg[p]
        BY <2>9 DEF LineOf
      <4> QED BY <4>1, <2>1, <2>3 DEF Stranded
    <3>2. Stranded' \subseteq Stranded
      BY <2>7, <3>1
    <3>3. Loose = 0
      BY <2>9 DEF Loose
    <3> QED BY <1>0, <2>1, <2>5, <2>8, <3>2, <3>3, NothingLost
  <2>10. CASE tail # NoTail
    <3>1. Loose = 1
      BY <2>10 DEF Loose
    <3> QED BY <1>0, <2>1, <2>5, <2>7, <2>8, <3>1, OneStranded
  <2> QED BY <2>1, <2>9, <2>10
<1>3. ASSUME NEW p \in Procs, ShortWrite(p)
      PROVE  acked' = acked /\ LossBudget'
  <2>1. /\ lines' = lines /\ synced' = OnDisk /\ shorts' = shorts + 1
        /\ pc' = [pc EXCEPT ![p] = "sync"]
        /\ UNCHANGED <<arg, acked, crashes>>
    BY <1>3 DEF ShortWrite
  <2>2. Durable' = Durable
    <3>1. {j \in 1..Len(lines') : j <= synced'} = {j \in 1..Len(lines) : j <= synced}
      BY <1>0, <2>1, SegmentsOf DEF OnDisk
    <3> QED BY <3>1, <2>1 DEF Durable
  <2>3. NotDurable' = NotDurable
    BY <2>1, <2>2, <1>0 DEF NotDurable, Durable
  <2>4. \A q \in Procs \ {p} : pc'[q] = pc[q]
    BY <2>1, <1>0 DEF Instances
  <2>5. Stranded' \subseteq Stranded \cup {p}
    BY <2>1, <2>4 DEF Stranded, In
  <2>6. 1 + Loose' + crashes + 2 * shorts <= Loose + crashes' + 2 * shorts'
    BY <1>0, <2>1, LossSets
  <2> QED BY <1>0, <2>1, <2>3, <2>5, <2>6, OneStranded
<1>4. ASSUME NEW p \in Procs, Sync(p)
      PROVE  IsFiniteSet(acked') /\ LossBudget'
  <2>1. /\ UNCHANGED <<lines, tail, arg, crashes, shorts>> /\ synced' = Segments
        /\ acked' = acked \cup {arg[p]} /\ pc[p] = "sync"
        /\ pc' = [pc EXCEPT ![p] = "idle"]
    BY <1>4 DEF Sync
  <2>2. IsFiniteSet(acked')
    BY <2>1, FS_AddElement
  <2>3. Durable' = In(lines)
    <3>1. {j \in 1..Len(lines) : j <= Segments} = 1..Len(lines)
      BY <1>0, SegmentsOf
    <3> QED BY <2>1, <3>1 DEF Durable, In
  <2>4. Durable \subseteq In(lines)
    BY DEF Durable, In
  <2>5. /\ NotDurable' = (acked' \ Separated) \ In(lines)
        /\ Loose' = Loose
    BY <2>1, <2>3 DEF NotDurable, Durable, Loose
  <2>6. \A q \in Procs \ {p} : pc'[q] = pc[q]
    BY <2>1, <1>0 DEF Instances
  <2>7. Stranded' \subseteq Stranded \ {p}
    BY <2>1, <2>6, <1>0 DEF Stranded, In, Instances
  <2>8. CASE p \notin Stranded
    <3>1. NotDurable' \subseteq NotDurable
      BY <2>1, <2>4, <2>5, <2>8, <1>0 DEF Stranded
    <3>2. Stranded' \subseteq Stranded
      BY <2>7
    <3> QED BY <1>0, <2>1, <2>2, <2>5, <3>1, <3>2, LossSets, NothingLost
  <2>9. CASE p \in Stranded
    <3>1. NotDurable' \subseteq NotDurable \cup {arg[p]}
      BY <2>1, <2>4, <2>5, <1>0
    <3>2. /\ Cardinality(NotDurable') \in Nat
          /\ Cardinality(NotDurable') <= Cardinality(NotDurable) + 1
      BY <3>1, LossSets, AtMostOneMore
    <3>3. /\ Cardinality(Stranded') \in Nat
          /\ Cardinality(Stranded') + 1 <= Cardinality(Stranded)
      BY <2>7, <2>9, LossSets, AtLeastOneLess
    <3> QED BY <1>0, <2>1, <2>2, <2>5, <3>2, <3>3, LossSets DEF LossBudget
  <2> QED BY <2>8, <2>9
<1>5. ASSUME NEW k \in 0..Segments, Crash(k)
      PROVE  acked' = acked /\ LossBudget'
  <2> DEFINE kept == IF k <= Len(lines) THEN k ELSE Len(lines)
  <2>1. kept \in 0..Len(lines) /\ k \in Nat /\ synced \in Nat /\ k >= synced
    BY <1>0, <1>5, SegmentsOf DEF Crash
  <2>2. /\ lines' = SubSeq(lines, 1, kept) /\ synced' = Segments'
        /\ crashes' = crashes + 1 /\ UNCHANGED <<acked, shorts>>
        /\ Stranded' = {}
    BY <1>5 DEF Crash, Stranded
  <2> HIDE DEF kept
  <2>3. Len(lines') = kept /\ \A i \in 1..kept : lines'[i] = lines[i]
    BY <2>1, <2>2, <1>0, CutLines
  <2>4. Durable \subseteq Durable'
    <3>1. \A j \in 1..Len(lines) : j <= synced => j \in 1..kept
      BY <2>1, <1>0 DEF kept
    <3>2. \A j \in 1..kept : j <= synced'
      <4>1. kept \in Nat
        BY <2>1, <1>0
      <4>2. synced' = kept \/ synced' = kept + 1
        BY <4>1, <2>2, <2>3 DEF Segments
      <4> QED BY <4>1, <4>2
    <3> QED BY <2>3, <3>1, <3>2 DEF Durable
  <2>5. NotDurable' \subseteq NotDurable
    BY <2>2, <2>4, <1>0 DEF NotDurable, Durable
  <2>6. Loose' + crashes + 2 * shorts <= Loose + crashes' + 2 * shorts'
    BY <1>0, <2>2, LossSets
  <2> QED BY <1>0, <2>2, <2>5, <2>6, NothingLost
<1>6. ASSUME NEW p \in Procs,
             \/ \E id \in Ids : Check(p, id)
             \/ Write(p) \/ ShortWrite(p) \/ WriteFails(p) \/ Sync(p)
             \/ SyncFails(p) \/ Renew(p)
      PROVE  IsFiniteSet(acked') /\ LossBudget'
  BY <1>1, <1>2, <1>3, <1>4, <1>6
<1> QED BY <1>5, <1>6 DEF Next

-----------------------------------------------------------------------------
(* The properties *)

\* The inductive invariant holds in every reachable state.
THEOREM IInvHolds == Spec => []IInv
<1>1. Init => IInv
  BY InitIInv
<1>2. IInv /\ [Next]_vars => IInv'
  <2> SUFFICES ASSUME IInv, [Next]_vars PROVE IInv'
    OBVIOUS
  <2>1. CASE Next
    BY <2>1, StepTypes, StepBusyIsLoaded, StepCopyBudget, StepLossBudget DEF IInv
  <2>2. CASE UNCHANGED vars
    BY <2>2 DEF vars, IInv, TypeOK, Segments, BusyIsLoaded, CopyBudget, Copies, MayAdd,
               LossBudget, NotDurable, Stranded, In, Loose
  <2> QED BY <2>1, <2>2
<1> QED BY <1>1, <1>2, PTL DEF Spec

\* Every variable keeps its type.
THEOREM TypeCorrect == Spec => []TypeOK
<1>1. IInv => TypeOK
  BY DEF IInv
<1> QED BY <1>1, IInvHolds, PTL

\* However many instances append, crash and write short, a record is in the file
\* at most once per instance and once more per failed fsync: what the id set of an
\* instance gives without a lock on the file (memory_store.py:61-72, 99-111).
THEOREM CopiesAreBoundedHolds == Spec => []CopiesAreBounded
<1>1. IInv => CopiesAreBounded
  <2> SUFFICES ASSUME IInv, NEW id \in Ids
               PROVE  Copies(id) <= Cardinality(Procs) + syncFails
    BY DEF CopiesAreBounded
  <2>1. Copies(id) \in Nat /\ syncFails \in Nat /\ CopyBudget(id)
    BY CopiesOf, ConstantsAssumption DEF IInv, TypeOK
  <2> QED BY <2>1, MayAddIsFinite DEF CopyBudget
<1> QED BY <1>1, IInvHolds, PTL

\* However many faults, a crash costs at most one acknowledged record and a short
\* write at most two (memory_store.py:12-14, 107-111).
THEOREM LossIsBoundedHolds == Spec => []LossIsBounded
<1>1. IInv => LossIsBounded
  <2> SUFFICES ASSUME IInv PROVE LossIsBounded
    OBVIOUS
  <2>1. (acked \ Separated) \ WellFormed \subseteq NotDurable
    <3>1. DOMAIN lines = 1..Len(lines) /\ acked \subseteq Ids
      BY LenProperties DEF IInv, TypeOK
    <3> QED BY <3>1 DEF WellFormed, Range, NotDurable
  <2>2. /\ Cardinality((acked \ Separated) \ WellFormed) \in Nat
        /\ Cardinality((acked \ Separated) \ WellFormed) <= Cardinality(NotDurable)
    BY <2>1, LossSets, NoMore DEF IInv
  <2>3. crashes \in Nat /\ shorts \in Nat
    BY ConstantsAssumption DEF IInv, TypeOK
  <2> QED BY <2>2, <2>3, LossSets DEF IInv, LossBudget, LossIsBounded
<1> QED BY <1>1, IInvHolds, PTL
=============================================================================
