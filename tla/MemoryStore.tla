----------------------------- MODULE MemoryStore -----------------------------
(***************************************************************************)
(* The append-only JSONL file of agent/memory_store.py, shared by several  *)
(* MemoryStore instances (the API builds one per request, the CLI has its  *)
(* own), with machine crashes and short writes.                            *)
(*                                                                         *)
(* The file is its complete lines followed by a possibly unterminated      *)
(* tail.  A line is the record id it parses to, or Malformed.  What is     *)
(* written reaches the disk at the writer's fsync, which flushes the whole *)
(* file; a crash keeps any prefix of what is not yet on disk.  An fsync    *)
(* that succeeds writes all there is, also after one that failed.          *)
(***************************************************************************)
EXTENDS Naturals, FiniteSets, Sequences, Functions

CONSTANTS
    Ids,            \* record ids the callers append
    Separated,      \* records whose text holds a Unicode line separator
    Procs,          \* MemoryStore instances
    Malformed,      \* a line the loader skips
    NoTail,         \* the file is empty or ends with a newline
    Fragment,       \* the file ends with part of a record
    MaxCrashes,     \* bound on machine crashes
    MaxShortWrites, \* bound on writes cut short by a full disk
    MaxSyncFails,   \* bound on failing fsyncs
    MaxLines        \* bound on the lines of the file

ASSUME ConstantsAssumption ==
    /\ Ids # {} /\ Separated \subseteq Ids
    /\ {Malformed, NoTail, Fragment} \cap Ids = {}
    /\ NoTail # Fragment
    /\ IsFiniteSet(Procs)
    /\ MaxCrashes \in Nat /\ MaxShortWrites \in Nat
    /\ MaxSyncFails \in Nat /\ MaxLines \in Nat

VARIABLES
    lines,      \* the newline-terminated lines of memory.jsonl
    tail,       \* what follows the last newline
    torn,       \* the file holds an incomplete multi-byte character
    synced,     \* how many lines are on disk, the tail counted as the last
    ids,        \* ids[p]: the instance's _record_ids
    loaded,     \* loaded[p]: _record_ids has been filled from the file
    pc,         \* where each instance's append is
    arg,        \* arg[p]: the record id being appended
    acked,      \* ids for which some append returned True (history)
    crashes,    \* number of crashes so far
    shorts,     \* number of short writes so far
    syncFails   \* number of failed fsyncs so far

vars == <<lines, tail, torn, synced, ids, loaded, pc, arg, acked, crashes, shorts,
          syncFails>>

\* The lines of the file and, if there is one, its tail.
Segments == Len(lines) + (IF tail = NoTail THEN 0 ELSE 1)

TypeOK ==
    /\ lines \in Seq(Ids \cup {Malformed})
    /\ tail \in Ids \cup {NoTail, Fragment}
    /\ torn \in BOOLEAN
    /\ synced \in 0..Segments
    /\ ids \in [Procs -> SUBSET Ids]
    /\ loaded \in [Procs -> BOOLEAN]
    /\ pc \in [Procs -> {"idle", "write", "sync"}]
    /\ arg \in [Procs -> Ids]
    /\ acked \subseteq Ids
    /\ crashes \in 0..MaxCrashes
    /\ shorts \in 0..MaxShortWrites
    /\ syncFails \in 0..MaxSyncFails

Init ==
    /\ lines = <<>> /\ tail = NoTail /\ torn = FALSE /\ synced = 0
    /\ ids = [p \in Procs |-> {}]
    /\ loaded = [p \in Procs |-> FALSE]
    /\ pc = [p \in Procs |-> "idle"]
    /\ arg \in [Procs -> {CHOOSE i \in Ids : TRUE}]
    /\ acked = {} /\ crashes = 0 /\ shorts = 0 /\ syncFails = 0

-----------------------------------------------------------------------------
\* splitlines() also breaks at U+2028 and U+0085, which json.dumps with
\* ensure_ascii=False leaves in the text: such a record parses to nothing, and
\* every new instance appends it once more.
LineOf(id) == IF id \in Separated THEN Malformed ELSE id

\* The records load() can parse, when it can decode the file: complete lines,
\* and a tail that lacks nothing but its newline.
WellFormed ==
    (Range(lines) \cup {tail}) \cap Ids

\* Mutant: a line that does not parse is not skipped but counted as a record.
Readable_NoSkip ==
    IF torn THEN {} ELSE Range(lines) \cup ({tail} \ {NoTail})

\* load(): a torn character makes read_text raise, so nothing is loaded.
Readable == IF torn THEN {} ELSE WellFormed

\* _known_ids: filled from the file once, then kept for the instance's life.
KnownIds(p) == IF loaded[p] THEN ids[p] ELSE Readable

\* append, up to its write: a known id is refused; an unreadable file makes an
\* instance that has not loaded it yet raise, which changes nothing.
Check(p, id) ==
    /\ pc[p] = "idle"
    /\ loaded[p] \/ ~torn
    /\ ids' = [ids EXCEPT ![p] = KnownIds(p)]
    /\ loaded' = [loaded EXCEPT ![p] = TRUE]
    /\ IF id \in KnownIds(p)
       THEN UNCHANGED <<pc, arg>>
       ELSE pc' = [pc EXCEPT ![p] = "write"] /\ arg' = [arg EXCEPT ![p] = id]
    /\ UNCHANGED <<lines, tail, torn, synced, acked, crashes, shorts, syncFails>>

\* What is written after an unterminated tail becomes one line with it, which is
\* not on disk before the next fsync.
OnDisk == IF synced <= Len(lines) THEN synced ELSE Len(lines)

\* The one unbuffered write, at the end of the file: after an unterminated
\* tail the record is glued to it and neither parses.
Write(p) ==
    /\ pc[p] = "write"
    /\ Len(lines) < MaxLines
    /\ lines' = Append(lines, IF tail = NoTail THEN LineOf(arg[p]) ELSE Malformed)
    /\ tail' = NoTail
    /\ synced' = OnDisk
    /\ pc' = [pc EXCEPT ![p] = "sync"]
    /\ UNCHANGED <<torn, ids, loaded, arg, acked, crashes, shorts, syncFails>>

\* A full disk: write() returns a short count, which append does not look at.
\* (With no byte written at all the OSError is caught by the caller.)
ShortWrite(p) ==
    /\ pc[p] = "write"
    /\ shorts < MaxShortWrites
    /\ tail' \in {Fragment} \cup (IF tail = NoTail /\ arg[p] \notin Separated
                                  THEN {arg[p]} ELSE {})
    /\ torn' \in {torn} \cup (IF tail' = Fragment THEN {TRUE} ELSE {})
    /\ synced' = OnDisk
    /\ shorts' = shorts + 1
    /\ pc' = [pc EXCEPT ![p] = "sync"]
    /\ UNCHANGED <<lines, ids, loaded, arg, acked, crashes, syncFails>>

\* write() fails (OSError): ComplianceMemory.index logs and moves on.
WriteFails(p) ==
    /\ pc[p] = "write"
    /\ pc' = [pc EXCEPT ![p] = "idle"]
    /\ UNCHANGED <<lines, tail, torn, synced, ids, loaded, arg, acked, crashes, shorts,
                   syncFails>>

\* Mutant: the record is acknowledged without the fsync.
Sync_NoFsync(p) ==
    /\ pc[p] = "sync"
    /\ ids' = [ids EXCEPT ![p] = @ \cup {arg[p]}]
    /\ acked' = acked \cup {arg[p]}
    /\ pc' = [pc EXCEPT ![p] = "idle"]
    /\ UNCHANGED <<lines, tail, torn, synced, loaded, arg, crashes, shorts, syncFails>>

\* Mutant: the instance does not remember what it has just appended.
Sync_ForgetId(p) ==
    /\ pc[p] = "sync"
    /\ synced' = Segments
    /\ acked' = acked \cup {arg[p]}
    /\ pc' = [pc EXCEPT ![p] = "idle"]
    /\ UNCHANGED <<lines, tail, torn, ids, loaded, arg, crashes, shorts, syncFails>>

\* fsync, then the id is remembered and append returns True.
Sync(p) ==
    /\ pc[p] = "sync"
    /\ synced' = Segments
    /\ ids' = [ids EXCEPT ![p] = @ \cup {arg[p]}]
    /\ acked' = acked \cup {arg[p]}
    /\ pc' = [pc EXCEPT ![p] = "idle"]
    /\ UNCHANGED <<lines, tail, torn, loaded, arg, crashes, shorts, syncFails>>

\* fsync() fails (OSError), which index logs too: the record is in the file, and
\* the instance does not know.
SyncFails(p) ==
    /\ pc[p] = "sync"
    /\ syncFails < MaxSyncFails
    /\ syncFails' = syncFails + 1
    /\ pc' = [pc EXCEPT ![p] = "idle"]
    /\ UNCHANGED <<lines, tail, torn, synced, ids, loaded, arg, acked, crashes, shorts>>

\* A new request builds a new instance, with nothing loaded.
Renew(p) ==
    /\ pc[p] = "idle"
    /\ loaded[p]
    /\ ids' = [ids EXCEPT ![p] = {}]
    /\ loaded' = [loaded EXCEPT ![p] = FALSE]
    /\ UNCHANGED <<lines, tail, torn, synced, pc, arg, acked, crashes, shorts, syncFails>>

\* What a crash leaves of line k + 1: nothing, a part, or all but its newline. (A
\* line glued to an older tail is never cut exactly where it was glued.)
RemainsOf(k) ==
    {NoTail, Fragment} \cup (IF k < Len(lines) THEN {lines[k + 1]} \cap Ids ELSE {})

\* The machine crashes and restarts: k lines survive, the tail being the last of
\* them, then perhaps a part of the next one, cut anywhere (just before its
\* newline, or inside a multi-byte character). Every instance is gone.
Crash(k) ==
    /\ crashes < MaxCrashes
    /\ k \in synced..Segments
    /\ lines' = SubSeq(lines, 1, IF k <= Len(lines) THEN k ELSE Len(lines))
    /\ tail' \in IF k = Segments THEN {tail} ELSE RemainsOf(k)
    /\ torn' \in {torn} \cup (IF k < Segments /\ tail' = Fragment THEN {TRUE} ELSE {})
    /\ synced' = Segments'
    /\ ids' = [p \in Procs |-> {}]
    /\ loaded' = [p \in Procs |-> FALSE]
    /\ pc' = [p \in Procs |-> "idle"]
    /\ crashes' = crashes + 1
    /\ UNCHANGED <<arg, acked, shorts, syncFails>>

Next ==
    \/ \E p \in Procs :
          \/ \E id \in Ids : Check(p, id)
          \/ Write(p) \/ ShortWrite(p) \/ WriteFails(p) \/ Sync(p)
          \/ SyncFails(p) \/ Renew(p)
    \/ \E k \in 0..Segments : Crash(k)

Spec == Init /\ [][Next]_vars

-----------------------------------------------------------------------------
(* Properties *)

\* How often the loader would return a record.
Copies(id) ==
    Cardinality({i \in 1..Len(lines) : lines[i] = id})
    + (IF tail = id THEN 1 ELSE 0)

\* Deduplication, as strong as a per-instance cache gives it: a record is in
\* the file at most once per concurrent instance, whatever crashes and short
\* writes do, and once more for every fsync that failed after the write.
CopiesAreBounded == \A id \in Ids : Copies(id) <= Cardinality(Procs) + syncFails

\* A crash costs at most one acknowledged record (the one glued to the cut
\* line); a short write at most two (the one cut and the one glued to it).
LossIsBounded ==
    Cardinality((acked \ Separated) \ WellFormed) <= crashes + 2 * shorts

-----------------------------------------------------------------------------
(* What memory_store.py says of itself *)

\* "durable: records survive process restarts": what append acknowledged is
\* among the records the loader can parse.
AckedIsDurable == acked \subseteq WellFormed
=============================================================================
