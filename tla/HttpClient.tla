------------------------------ MODULE HttpClient ------------------------------
(***************************************************************************)
(* HttpClient.get of src/cfr_compliance_mcp/clients/http_client.py: the    *)
(* tasks of one event loop issue GETs through the sliding-window limiter   *)
(* _RateLimiter and retry transient failures.                              *)
(*                                                                         *)
(* Time is kept as ages: a step of the clock makes every timestamp one     *)
(* tick older. An age over Window is as good as any other, so it is capped *)
(* at Window + 1.                                                          *)
(***************************************************************************)
EXTENDS Naturals, Sequences, FiniteSets

CONSTANTS
    Callers,        \* tasks, each issuing one GET after the other
    MaxPerMinute,   \* max_requests_per_minute
    Window,         \* 60 seconds, in clock ticks
    MaxRetries,     \* max_retries
    FineClock,      \* TRUE: two readings of the clock never give the same time
    NoOne           \* nobody holds the limiter's lock

ASSUME ConstantsAssumption ==
    /\ IsFiniteSet(Callers) /\ NoOne \notin Callers
    /\ MaxPerMinute \in Nat \ {0} /\ Window \in Nat \ {0}
    /\ MaxRetries \in Nat /\ FineClock \in BOOLEAN

VARIABLES
    timestamps, \* _timestamps, oldest first, as ages
    holder,     \* who holds _lock
    waiters,    \* who waits for it, first come first served
    pc,         \* where each task is
    left,       \* left[c]: ticks until c's sleep may end
    attempt,    \* attempt[c]: attempt_number of its retry loop
    granted     \* ages of the calls acquire() let through in the window (history)

vars == <<timestamps, holder, waiters, pc, left, attempt, granted>>

Ages == 0..(Window + 1)

\* Every variable has its type, and no GET is attempted more than MaxRetries + 1
\* times.
TypeOK ==
    /\ timestamps \in Seq(Ages)
    /\ holder \in Callers \cup {NoOne}
    /\ waiters \in Seq(Callers)
    /\ pc \in [Callers -> {"idle", "acquire", "sleep", "send", "backoff", "ok", "failed"}]
    /\ left \in [Callers -> 0..Window]
    /\ attempt \in [Callers -> 0..(MaxRetries + 1)]
    /\ granted \in Seq(0..Window)

Init ==
    /\ timestamps = <<>> /\ granted = <<>>
    /\ holder = NoOne /\ waiters = <<>>
    /\ pc = [c \in Callers |-> "idle"]
    /\ left = [c \in Callers |-> 0]
    /\ attempt = [c \in Callers |-> 0]

-----------------------------------------------------------------------------
(* _RateLimiter *)

\* The while loop of _evict_expired: from the left, what is older than the limit
\* goes, up to the first that is not.
WithoutOlder(ts, limit) ==
    LET first == CHOOSE k \in 1..(Len(ts) + 1) :
                     /\ \A i \in 1..(k - 1) : ts[i] > limit
                     /\ k <= Len(ts) => ts[k] <= limit
    IN  SubSeq(ts, first, Len(ts))

\* Mutant: timestamps leave the window early.
Evicted_TooEarly(ts) == WithoutOlder(ts, Window - 2)

\* _evict_expired: what is strictly older than the window goes.
Evicted(ts) == WithoutOlder(ts, Window)

\* The second _evict_expired: on a fine clock, what was Window old when the sleep
\* was computed, or was slept for, is strictly older by now.
EvictedAgain(ts) == WithoutOlder(Evicted(ts), IF FineClock THEN Window - 1 ELSE Window)

\* The end of acquire: the timestamp is taken and the lock given back.
Grant(c, ts) ==
    /\ timestamps' = Append(ts, 0)
    /\ granted' = Append(granted, 0)
    /\ holder' = NoOne
    /\ pc' = [pc EXCEPT ![c] = "send"]

\* The lock is free and c is the first to wait for it.
IsNext(c) ==
    /\ holder = NoOne
    /\ waiters # <<>> /\ Head(waiters) = c
    /\ waiters' = Tail(waiters)

\* There is room in the window.
AcquireAtOnce(c) ==
    LET ts == Evicted(timestamps)
    IN  /\ IsNext(c)
        /\ Len(ts) < MaxPerMinute
        /\ Grant(c, ts)
        /\ UNCHANGED <<left, attempt>>

\* The window is full, but its oldest call leaves it at this very moment.
AcquireAtTheEdge(c) ==
    LET ts == Evicted(timestamps)
    IN  /\ IsNext(c)
        /\ Len(ts) >= MaxPerMinute /\ Head(ts) >= Window
        /\ Grant(c, EvictedAgain(ts))
        /\ UNCHANGED <<left, attempt>>

\* Mutant: the lock is given back during the sleep.
AcquireSleeps_Unlocked(c) ==
    LET ts == Evicted(timestamps)
    IN  /\ IsNext(c)
        /\ Len(ts) >= MaxPerMinute /\ Head(ts) < Window
        /\ timestamps' = ts
        /\ left' = [left EXCEPT ![c] = Window - Head(ts)]
        /\ pc' = [pc EXCEPT ![c] = "sleep"]
        /\ UNCHANGED <<holder, attempt, granted>>

\* The window is full: c sleeps, with the lock, until the oldest call leaves it.
AcquireSleeps(c) ==
    LET ts == Evicted(timestamps)
    IN  /\ IsNext(c)
        /\ Len(ts) >= MaxPerMinute /\ Head(ts) < Window
        /\ timestamps' = ts
        /\ left' = [left EXCEPT ![c] = Window - Head(ts)]
        /\ holder' = c
        /\ pc' = [pc EXCEPT ![c] = "sleep"]
        /\ UNCHANGED <<attempt, granted>>

\* Mutant: the lock is kept after the sleep.
Wakes_KeepsLock(c) ==
    /\ pc[c] = "sleep" /\ left[c] = 0
    /\ timestamps' = Append(EvictedAgain(timestamps), 0)
    /\ granted' = Append(granted, 0)
    /\ pc' = [pc EXCEPT ![c] = "send"]
    /\ UNCHANGED <<holder, waiters, left, attempt>>

\* c wakes, on time or late, and takes its timestamp without looking again.
Wakes(c) ==
    /\ pc[c] = "sleep" /\ left[c] = 0
    /\ Grant(c, EvictedAgain(timestamps))
    /\ UNCHANGED <<waiters, left, attempt>>

-----------------------------------------------------------------------------
(* HttpClient.get *)

Join(c, n) ==
    /\ waiters' = Append(waiters, c)
    /\ pc' = [pc EXCEPT ![c] = "acquire"]
    /\ attempt' = [attempt EXCEPT ![c] = n]
    /\ UNCHANGED <<timestamps, holder, left, granted>>

Get(c) == pc[c] \in {"idle", "ok", "failed"} /\ Join(c, 1)

\* The wait between two attempts is over.
Retry(c) == pc[c] = "backoff" /\ Join(c, attempt[c] + 1)

Answered(c, outcome) ==
    /\ pc[c] = "send"
    /\ pc' = [pc EXCEPT ![c] = outcome]
    /\ UNCHANGED <<timestamps, holder, waiters, left, attempt, granted>>

\* 2xx.
Succeeds(c) == Answered(c, "ok")

\* 404, or a status that is neither 2xx, 404, 429 nor 5xx: not retried.
IsRefused(c) == Answered(c, "failed")

\* Mutant: the number of attempts is not checked.
FailsForNow_Forever(c) == Answered(c, "backoff")

\* 429, 5xx, a timeout or a network failure: another attempt, if one is left.
FailsForNow(c) ==
    Answered(c, IF attempt[c] <= MaxRetries THEN "backoff" ELSE "failed")

-----------------------------------------------------------------------------

Older(ages) == [i \in DOMAIN ages |-> IF ages[i] > Window THEN ages[i] ELSE ages[i] + 1]

Tick ==
    /\ timestamps' = Older(timestamps)
    /\ granted' = WithoutOlder(Older(granted), Window)
    /\ left' = [c \in Callers |-> IF left[c] = 0 THEN 0 ELSE left[c] - 1]
    /\ UNCHANGED <<holder, waiters, pc, attempt>>

Acquire(c) == AcquireAtOnce(c) \/ AcquireAtTheEdge(c) \/ AcquireSleeps(c) \/ Wakes(c)
Answer(c) == Succeeds(c) \/ IsRefused(c) \/ FailsForNow(c)

Next ==
    \/ Tick
    \/ \E c \in Callers : Get(c) \/ Acquire(c) \/ Answer(c) \/ Retry(c)

Spec == Init /\ [][Next]_vars

\* The clock runs, the loop runs what is ready, and httpx times out at last.
FairSpec ==
    /\ Spec
    /\ WF_vars(Tick)
    /\ \A c \in Callers : WF_vars(Acquire(c)) /\ WF_vars(Answer(c)) /\ WF_vars(Retry(c))

-----------------------------------------------------------------------------
(* Properties *)

\* "at most max_per_minute calls to acquire() are allowed to proceed in any
\* trailing 60-second window" (http_client.py:99-101).
RateIsBounded ==
    Cardinality({i \in DOMAIN granted : granted[i] < Window}) <= MaxPerMinute

\* _timestamps and the calls let through agree on the window: the limiter forgets
\* no call that still counts and counts none twice (its deque, http_client.py:110).
NothingIsForgotten ==
    LET Recent(ages) == Cardinality({i \in DOMAIN ages : ages[i] < Window})
    IN  Recent(granted) = Recent(timestamps)

\* A GET ends, with a response or an error, however many tasks compete for the
\* limiter and whatever the API answers (get, http_client.py:225-284).
EveryGetEnds ==
    \A c \in Callers : pc[c] = "acquire" ~> pc[c] \in {"ok", "failed"}
=============================================================================
