---------------------------- MODULE HttpClientProofs ----------------------------
(***************************************************************************)
(* Proofs about HttpClient: its types, that the limiter's deque and the    *)
(* calls it let through agree on the window, and that on a fine clock no   *)
(* window holds more than MaxPerMinute calls.                              *)
(***************************************************************************)
EXTENDS HttpClient, Integers, FiniteSetTheorems, SequenceTheorems,
        WellFoundedInduction, TLAPS

-----------------------------------------------------------------------------
(* What a pass of _evict_expired leaves *)

Below == {p \in Nat \X Nat : p[1] < p[2]}

\* A set of naturals that is not empty has a least element: the induction that a
\* loop which stops at the first timestamp inside the window rests on.
LEMMA LeastElement ==
    ASSUME NEW S \in SUBSET Nat, S # {}
    PROVE  \E least \in S : \A n \in S : least <= n
<1>1. IsWellFoundedOn(Below, Nat)
  <2>1. IsWellFoundedOn({p \in Nat \X Nat : p[1] < p[2]}, Nat)
    BY NatLessThanWellFounded, Zenon DEF OpToRel
  <2> QED BY <2>1 DEF Below
<1>2. \E x \in S : \A y \in S : ~ (<<y, x>> \in Below)
  BY <1>1, WFMin
<1>3. \A x, y \in S : <<y, x>> \notin Below => x <= y
  BY DEF Below
<1> QED BY <1>2, <1>3

\* The loop drops a prefix, everything in it older than the limit, and stops at a
\* timestamp that is not.
LEMMA WithoutOlderIsSuffix ==
    ASSUME NEW A \in SUBSET Nat, NEW ts \in Seq(A), NEW limit \in Nat
    PROVE  LET w == WithoutOlder(ts, limit)
           IN  /\ w \in Seq(A)
               /\ \E gone \in 0..Len(ts) :
                     /\ Len(w) = Len(ts) - gone
                     /\ \A i \in 1..gone : ts[i] > limit
                     /\ \A i \in 1..Len(w) : w[i] = ts[i + gone]
                     /\ w # <<>> => w[1] <= limit
<1> DEFINE Stops(k) == /\ \A i \in 1..(k - 1) : ts[i] > limit
                       /\ k <= Len(ts) => ts[k] <= limit
           Inside == {k \in 1..(Len(ts) + 1) : k <= Len(ts) => ts[k] <= limit}
           first == CHOOSE k \in 1..(Len(ts) + 1) : Stops(k)
           w == WithoutOlder(ts, limit)
<1>0. Len(ts) \in Nat /\ \A i \in 1..Len(ts) : ts[i] \in A
  BY LenProperties
<1>1. \E k \in 1..(Len(ts) + 1) : Stops(k)
  <2>1. Inside \in SUBSET Nat /\ Len(ts) + 1 \in Inside
    BY <1>0
  <2>2. PICK k \in Inside : \A n \in Inside : k <= n
    BY <2>1, LeastElement
  <2>3. \A i \in 1..(k - 1) : ts[i] > limit
    <3> SUFFICES ASSUME NEW i \in 1..(k - 1) PROVE ts[i] > limit
      OBVIOUS
    <3>1. k \in 1..(Len(ts) + 1)
      BY <2>2
    <3>2. i \in 1..Len(ts) /\ ~ (k <= i)
      BY <3>1, <1>0
    <3>3. i \notin Inside
      BY <3>2, <2>2
    <3>4. ts[i] \in Nat
      BY <3>2, <1>0
    <3>5. i \in 1..(Len(ts) + 1) /\ i <= Len(ts)
      BY <3>2, <1>0
    <3>6. ~ (ts[i] <= limit)
      BY <3>3, <3>5
    <3> QED BY <3>4, <3>6
  <2> QED BY <2>2, <2>3
<1>2. first \in 1..(Len(ts) + 1) /\ Stops(first)
  BY <1>1
<1>3. w = SubSeq(ts, first, Len(ts))
  BY DEF WithoutOlder
<1> HIDE DEF first, Stops
<1>4. /\ w \in Seq(A) /\ Len(w) = Len(ts) - (first - 1)
      /\ \A i \in 1..Len(w) : w[i] = ts[i + (first - 1)]
  BY <1>0, <1>2, <1>3
<1>5. w # <<>> => w[1] <= limit
  <2> SUFFICES ASSUME w # <<>> PROVE w[1] <= limit
    OBVIOUS
  <2>1. Len(w) \in Nat /\ Len(w) # 0
    BY <1>4, EmptySeq
  <2>2. first <= Len(ts) /\ w[1] = ts[first]
    BY <2>1, <1>0, <1>2, <1>4
  <2> QED BY <2>2, <1>2 DEF Stops
<1>6. \A i \in 1..(first - 1) : ts[i] > limit
  BY <1>2 DEF Stops
<1>7. first - 1 \in 0..Len(ts)
  BY <1>2, <1>0
<1>8. \E gone \in 0..Len(ts) :
         /\ Len(w) = Len(ts) - gone
         /\ \A i \in 1..gone : ts[i] > limit
         /\ \A i \in 1..Len(w) : w[i] = ts[i + gone]
         /\ w # <<>> => w[1] <= limit
  <2> WITNESS first - 1 \in 0..Len(ts)
  <2> QED BY <1>4, <1>5, <1>6
<1> QED BY <1>4, <1>8

-----------------------------------------------------------------------------
(* Two sequences of ages that agree on the window *)

\* w is ages without some of its oldest, all of which are out of the window.
KeepsRecent(w, ages) ==
    \E gone \in 0..Len(ages) :
        /\ Len(w) = Len(ages) - gone
        /\ \A i \in 1..gone : ages[i] >= Window
        /\ \A i \in 1..Len(w) : w[i] = ages[i + gone]

\* Counted from the latest call, s and t agree for as long as both last, and what
\* only the longer one has is out of the window.
InStep(s, t) ==
    /\ \A k \in 1..Len(s) : k <= Len(t) => s[Len(s) + 1 - k] = t[Len(t) + 1 - k]
    /\ \A k \in 1..Len(s) : k > Len(t) => s[Len(s) + 1 - k] >= Window
    /\ \A k \in 1..Len(t) : k > Len(s) => t[Len(t) + 1 - k] >= Window

LEMMA InStepIsSymmetric ==
    ASSUME NEW s \in Seq(Ages), NEW t \in Seq(Ages), InStep(s, t)
    PROVE  InStep(t, s)
<1>1. Len(s) \in Nat /\ Len(t) \in Nat
  OBVIOUS
<1> QED BY <1>1 DEF InStep

LEMMA SequenceOfAges ==
    ASSUME NEW s \in Seq(Ages)
    PROVE  /\ Len(s) \in Nat /\ DOMAIN s = 1..Len(s)
           /\ \A i \in 1..Len(s) : s[i] \in Ages /\ s[i] \in Nat
<1>1. Len(s) \in Nat /\ DOMAIN s = 1..Len(s) /\ \A i \in 1..Len(s) : s[i] \in Ages
  OBVIOUS
<1>2. \A a \in Ages : a \in Nat
  BY ConstantsAssumption DEF Ages
<1> QED BY <1>1, <1>2

\* What leaves the window may leave either sequence.
LEMMA InStepAfterEviction ==
    ASSUME NEW s \in Seq(Ages), NEW t \in Seq(Ages), NEW w \in Seq(Ages),
           InStep(s, t), KeepsRecent(w, s)
    PROVE  InStep(w, t)
<1>0. Len(s) \in Nat /\ Len(t) \in Nat /\ Len(w) \in Nat
  OBVIOUS
<1>1. PICK gone \in 0..Len(s) :
         /\ Len(w) = Len(s) - gone
         /\ \A i \in 1..gone : s[i] >= Window
         /\ \A i \in 1..Len(w) : w[i] = s[i + gone]
  BY DEF KeepsRecent
<1>2. ASSUME NEW k \in 1..Len(w)
      PROVE  k \in 1..Len(s) /\ w[Len(w) + 1 - k] = s[Len(s) + 1 - k]
  <2>1. Len(w) + 1 - k \in 1..Len(w)
    BY <1>0
  <2>2. w[Len(w) + 1 - k] = s[(Len(w) + 1 - k) + gone]
    BY <2>1, <1>1
  <2>3. (Len(w) + 1 - k) + gone = Len(s) + 1 - k
    BY <1>0, <1>1
  <2> QED BY <2>2, <2>3, <1>0, <1>1
<1>3. ASSUME NEW k \in 1..Len(t), k > Len(w)
      PROVE  t[Len(t) + 1 - k] >= Window
  <2>1. CASE k > Len(s)
    BY <2>1 DEF InStep
  <2>2. CASE k <= Len(s)
    <3>1. k \in 1..Len(s) /\ t[Len(t) + 1 - k] = s[Len(s) + 1 - k]
      BY <2>2, <1>0 DEF InStep
    <3>2. Len(s) + 1 - k \in 1..gone
      BY <1>0, <1>1, <1>3, <2>2
    <3>3. s[Len(s) + 1 - k] >= Window
      BY <3>2, <1>1
    <3> QED BY <3>1, <3>3
  <2> QED BY <2>1, <2>2, <1>0
<1>4. ASSUME NEW k \in 1..Len(w), k <= Len(t)
      PROVE  w[Len(w) + 1 - k] = t[Len(t) + 1 - k]
  BY <1>2, <1>4 DEF InStep
<1>5. ASSUME NEW k \in 1..Len(w), k > Len(t)
      PROVE  w[Len(w) + 1 - k] >= Window
  BY <1>2, <1>5 DEF InStep
<1> QED BY <1>3, <1>4, <1>5 DEF InStep

\* A call that is let through and noted keeps the two in step.
LEMMA InStepAfterGrant ==
    ASSUME NEW s \in Seq(Ages), NEW t \in Seq(Ages), InStep(s, t)
    PROVE  InStep(Append(s, 0), Append(t, 0))
<1> DEFINE ss == Append(s, 0)
           tt == Append(t, 0)
<1>0. Len(s) \in Nat /\ Len(t) \in Nat
  OBVIOUS
<1>1. ASSUME NEW x \in Seq(Ages)
      PROVE  /\ Len(Append(x, 0)) = Len(x) + 1 /\ Len(x) \in Nat
             /\ Append(x, 0)[Len(x) + 1] = 0
             /\ \A k \in 2..(Len(x) + 1) :
                   Append(x, 0)[Len(x) + 2 - k] = x[Len(x) + 1 - (k - 1)]
  <2>1. Len(x) \in Nat /\ Append(x, 0)[Len(x) + 1] = 0
    OBVIOUS
  <2>2. \A i \in 1..Len(x) : Append(x, 0)[i] = x[i]
    OBVIOUS
  <2>3. \A k \in 2..(Len(x) + 1) :
           /\ Len(x) + 2 - k \in 1..Len(x)
           /\ Len(x) + 2 - k = Len(x) + 1 - (k - 1)
    BY <2>1
  <2> QED BY <2>1, <2>2, <2>3
<1>2. /\ Len(ss) = Len(s) + 1 /\ ss[Len(s) + 1] = 0
      /\ \A k \in 2..(Len(s) + 1) : ss[Len(s) + 2 - k] = s[Len(s) + 1 - (k - 1)]
  BY <1>1
<1>3. /\ Len(tt) = Len(t) + 1 /\ tt[Len(t) + 1] = 0
      /\ \A k \in 2..(Len(t) + 1) : tt[Len(t) + 2 - k] = t[Len(t) + 1 - (k - 1)]
  BY <1>1
<1> HIDE DEF ss, tt
<1>4. ASSUME NEW k \in 1..Len(ss), k <= Len(tt)
      PROVE  ss[Len(ss) + 1 - k] = tt[Len(tt) + 1 - k]
  <2>1. CASE k = 1
    BY <2>1, <1>0, <1>2, <1>3
  <2>2. CASE k # 1
    <3>1. k - 1 \in 1..Len(s) /\ k - 1 <= Len(t)
      BY <2>2, <1>0, <1>2, <1>3, <1>4
    <3>2. s[Len(s) + 1 - (k - 1)] = t[Len(t) + 1 - (k - 1)]
      BY <3>1 DEF InStep
    <3>3. k \in 2..(Len(s) + 1) /\ k \in 2..(Len(t) + 1)
      BY <3>1, <1>0
    <3>4. Len(ss) + 1 - k = Len(s) + 2 - k /\ Len(tt) + 1 - k = Len(t) + 2 - k
      BY <1>0, <1>2, <1>3
    <3> QED BY <3>2, <3>3, <3>4, <1>2, <1>3
  <2> QED BY <2>1, <2>2
<1>5. ASSUME NEW k \in 1..Len(ss), k > Len(tt)
      PROVE  ss[Len(ss) + 1 - k] >= Window
  <2>1. k - 1 \in 1..Len(s) /\ k - 1 > Len(t)
    BY <1>0, <1>2, <1>3, <1>5
  <2>2. s[Len(s) + 1 - (k - 1)] >= Window
    BY <2>1 DEF InStep
  <2>3. k \in 2..(Len(s) + 1) /\ Len(ss) + 1 - k = Len(s) + 2 - k
    BY <2>1, <1>0, <1>2
  <2> QED BY <2>2, <2>3, <1>2
<1>6. ASSUME NEW k \in 1..Len(tt), k > Len(ss)
      PROVE  tt[Len(tt) + 1 - k] >= Window
  <2>1. k - 1 \in 1..Len(t) /\ k - 1 > Len(s)
    BY <1>0, <1>2, <1>3, <1>6
  <2>2. t[Len(t) + 1 - (k - 1)] >= Window
    BY <2>1 DEF InStep
  <2>3. k \in 2..(Len(t) + 1) /\ Len(tt) + 1 - k = Len(t) + 2 - k
    BY <2>1, <1>0, <1>3
  <2> QED BY <2>2, <2>3, <1>3
<1>7. InStep(ss, tt)
  BY <1>4, <1>5, <1>6 DEF InStep
<1> QED BY <1>7 DEF ss, tt

\* So does a tick of the clock.
LEMMA OlderAges ==
    ASSUME NEW s \in Seq(Ages)
    PROVE  /\ Older(s) \in Seq(Ages) /\ Len(Older(s)) = Len(s)
           /\ \A i \in 1..Len(s) :
                 Older(s)[i] = IF s[i] > Window THEN s[i] ELSE s[i] + 1
<1>1. Len(s) \in Nat /\ DOMAIN s = 1..Len(s) /\ \A i \in 1..Len(s) : s[i] \in Ages
  OBVIOUS
<1>2. \A a \in Ages : (IF a > Window THEN a ELSE a + 1) \in Ages
  BY ConstantsAssumption DEF Ages
<1>3. Older(s) = [i \in 1..Len(s) |-> IF s[i] > Window THEN s[i] ELSE s[i] + 1]
  BY <1>1 DEF Older
<1>4. Older(s) \in [1..Len(s) -> Ages]
  BY <1>1, <1>2, <1>3
<1>5. Older(s) \in Seq(Ages)
  BY <1>1, <1>4
<1> QED BY <1>1, <1>3, <1>5

LEMMA InStepAfterTick ==
    ASSUME NEW s \in Seq(Ages), NEW t \in Seq(Ages), InStep(s, t)
    PROVE  InStep(Older(s), Older(t))
<1>0. /\ Len(s) \in Nat /\ Len(t) \in Nat
      /\ \A i \in 1..Len(s) : s[i] \in Ages
      /\ \A i \in 1..Len(t) : t[i] \in Ages
  OBVIOUS
<1>1. /\ Len(Older(s)) = Len(s) /\ Len(Older(t)) = Len(t)
      /\ \A i \in 1..Len(s) : Older(s)[i] = IF s[i] > Window THEN s[i] ELSE s[i] + 1
      /\ \A i \in 1..Len(t) : Older(t)[i] = IF t[i] > Window THEN t[i] ELSE t[i] + 1
  BY OlderAges
<1>2. \A k \in 1..Len(s) : Len(s) + 1 - k \in 1..Len(s)
  BY <1>0
<1>3. \A k \in 1..Len(t) : Len(t) + 1 - k \in 1..Len(t)
  BY <1>0
<1>4. \A a \in Ages : a >= Window => (IF a > Window THEN a ELSE a + 1) >= Window
  BY ConstantsAssumption DEF Ages
<1>5. \A k \in 1..Len(s) : k <= Len(t) =>
         Older(s)[Len(s) + 1 - k] = Older(t)[Len(t) + 1 - k]
  <2> SUFFICES ASSUME NEW k \in 1..Len(s), k <= Len(t)
               PROVE  Older(s)[Len(s) + 1 - k] = Older(t)[Len(t) + 1 - k]
    OBVIOUS
  <2>1. k \in 1..Len(t) /\ s[Len(s) + 1 - k] = t[Len(t) + 1 - k]
    BY <1>0 DEF InStep
  <2> QED BY <2>1, <1>1, <1>2, <1>3
<1>6. \A k \in 1..Len(s) : k > Len(t) => Older(s)[Len(s) + 1 - k] >= Window
  BY <1>0, <1>1, <1>2, <1>4 DEF InStep
<1>7. \A k \in 1..Len(t) : k > Len(s) => Older(t)[Len(t) + 1 - k] >= Window
  BY <1>0, <1>1, <1>3, <1>4 DEF InStep
<1> QED BY <1>1, <1>5, <1>6, <1>7 DEF InStep

\* Sequences in step have as many calls in the window.
Recent(ages) == {i \in DOMAIN ages : ages[i] < Window}

LEMMA RecentIsFinite ==
    ASSUME NEW s \in Seq(Ages)
    PROVE  /\ IsFiniteSet(Recent(s)) /\ Cardinality(Recent(s)) \in Nat
           /\ Cardinality(Recent(s)) <= Len(s)
<1>1. Len(s) \in Nat /\ DOMAIN s = 1..Len(s)
  OBVIOUS
<1>2. IsFiniteSet(1..Len(s)) /\ Cardinality(1..Len(s)) = Len(s)
  BY <1>1, FS_Interval
<1>3. Recent(s) \subseteq 1..Len(s)
  BY <1>1 DEF Recent
<1> QED BY <1>2, <1>3, FS_Subset, FS_CardinalityType

LEMMA InStepAgree ==
    ASSUME NEW s \in Seq(Ages), NEW t \in Seq(Ages), InStep(s, t)
    PROVE  Cardinality(Recent(s)) <= Cardinality(Recent(t))
<1> DEFINE shift == [i \in Recent(s) |-> (Len(t) + 1) - (Len(s) + 1 - i)]
<1>0. /\ Len(s) \in Nat /\ Len(t) \in Nat
      /\ DOMAIN s = 1..Len(s) /\ DOMAIN t = 1..Len(t)
      /\ \A i \in 1..Len(s) : s[i] \in Nat
  BY SequenceOfAges
<1>1. ASSUME NEW i \in Recent(s)
      PROVE  (Len(t) + 1) - (Len(s) + 1 - i) \in Recent(t)
  <2>1. i \in 1..Len(s) /\ s[i] < Window /\ s[i] \in Nat
    BY <1>0 DEF Recent
  <2> DEFINE k == Len(s) + 1 - i
  <2>2. k \in 1..Len(s) /\ Len(s) + 1 - k = i
    BY <2>1, <1>0
  <2>3. ~ (s[i] >= Window)
    BY <2>1, ConstantsAssumption
  <2>4. k <= Len(t)
    BY <2>2, <2>3, <1>0 DEF InStep
  <2>5. t[Len(t) + 1 - k] = s[i]
    BY <2>2, <2>4 DEF InStep
  <2>6. Len(t) + 1 - k \in 1..Len(t)
    BY <2>2, <2>4, <1>0
  <2> QED BY <2>1, <2>5, <2>6, <1>0 DEF Recent
<1>2. shift \in [Recent(s) -> Recent(t)]
  BY <1>1
<1>3. \A i, j \in Recent(s) : shift[i] = shift[j] => i = j
  <2>1. Recent(s) \subseteq Int
    BY <1>0 DEF Recent
  <2> QED BY <2>1, <1>0
<1>4. shift \in Injection(Recent(s), Recent(t))
  BY <1>2, <1>3 DEF Injection, IsInjective
<1>5. IsFiniteSet(Recent(t))
  BY RecentIsFinite
<1> QED BY <1>4, <1>5, FS_Injection

-----------------------------------------------------------------------------
(* The limiter's two passes *)

LEMMA EvictedKeepsRecent ==
    ASSUME NEW ts \in Seq(Ages)
    PROVE  /\ Evicted(ts) \in Seq(Ages) /\ KeepsRecent(Evicted(ts), ts)
           /\ Len(Evicted(ts)) <= Len(ts)
           /\ Len(Evicted(ts)) = Len(ts) => Evicted(ts) = ts
           /\ Evicted(ts) # <<>> => Evicted(ts)[1] \in 0..Window
<1> DEFINE w == Evicted(ts)
<1>0. Ages \in SUBSET Nat /\ Window \in Nat /\ w = WithoutOlder(ts, Window)
  BY ConstantsAssumption DEF Ages, Evicted
<1> HIDE DEF w
<1>1. /\ w \in Seq(Ages)
      /\ \E gone \in 0..Len(ts) :
            /\ Len(w) = Len(ts) - gone
            /\ \A i \in 1..gone : ts[i] > Window
            /\ \A i \in 1..Len(w) : w[i] = ts[i + gone]
            /\ w # <<>> => w[1] <= Window
  BY <1>0, WithoutOlderIsSuffix
<1>2. PICK gone \in 0..Len(ts) :
            /\ Len(w) = Len(ts) - gone
            /\ \A i \in 1..gone : ts[i] > Window
            /\ \A i \in 1..Len(w) : w[i] = ts[i + gone]
            /\ w # <<>> => w[1] <= Window
  BY <1>1
<1>3. Len(ts) \in Nat /\ Len(w) \in Nat /\ \A i \in 1..Len(ts) : ts[i] \in Nat
  BY <1>1, SequenceOfAges
<1>4. KeepsRecent(w, ts)
  <2>1. \A i \in 1..gone : ts[i] >= Window
    BY <1>0, <1>2, <1>3
  <2> QED BY <1>2, <2>1 DEF KeepsRecent
<1>5. Len(w) <= Len(ts)
  BY <1>2, <1>3
<1>6. ASSUME Len(w) = Len(ts) PROVE w = ts
  <2>1. gone = 0
    BY <1>2, <1>3, <1>6
  <2>2. \A i \in 1..Len(w) : w[i] = ts[i]
    BY <1>2, <2>1
  <2> QED BY <2>2, <1>1, <1>6, SeqEqual
<1>7. w # <<>> => w[1] \in 0..Window
  <2> SUFFICES ASSUME w # <<>> PROVE w[1] \in 0..Window
    OBVIOUS
  <2>1. 1 \in 1..Len(w)
    BY <1>1, <1>3, EmptySeq
  <2>2. w[1] \in Nat /\ w[1] <= Window
    BY <2>1, <1>1, <1>2, SequenceOfAges
  <2> QED BY <2>2, <1>0
<1>8. /\ w \in Seq(Ages) /\ KeepsRecent(w, ts) /\ Len(w) <= Len(ts)
      /\ Len(w) = Len(ts) => w = ts
      /\ w # <<>> => w[1] \in 0..Window
  BY <1>1, <1>4, <1>5, <1>6, <1>7
<1> QED BY <1>8 DEF w

\* The two passes together drop only what left the window, and on a fine clock the
\* oldest of a sequence whose oldest left it.
LEMMA EvictedAgainKeepsRecent ==
    ASSUME NEW ts \in Seq(Ages), NEW s \in Seq(Ages), InStep(ts, s)
    PROVE  /\ EvictedAgain(ts) \in Seq(Ages) /\ InStep(EvictedAgain(ts), s)
           /\ Len(EvictedAgain(ts)) <= Len(ts)
           /\ FineClock /\ ts # <<>> /\ ts[1] >= Window =>
                 Len(EvictedAgain(ts)) < Len(ts)
<1> DEFINE limit == IF FineClock THEN Window - 1 ELSE Window
           e == Evicted(ts)
           w == EvictedAgain(ts)
<1>0. /\ Ages \in SUBSET Nat /\ Window \in Nat /\ limit \in Nat
      /\ limit + 1 >= Window
      /\ FineClock => limit + 1 = Window
  BY ConstantsAssumption DEF Ages
<1>1. w = WithoutOlder(e, limit)
  BY DEF EvictedAgain
<1>2. /\ e \in Seq(Ages) /\ KeepsRecent(e, ts) /\ Len(e) <= Len(ts)
      /\ Len(e) = Len(ts) => e = ts
  BY EvictedKeepsRecent
<1> HIDE DEF e, w, limit
<1>3. /\ w \in Seq(Ages)
      /\ \E gone \in 0..Len(e) :
            /\ Len(w) = Len(e) - gone
            /\ \A i \in 1..gone : e[i] > limit
            /\ \A i \in 1..Len(w) : w[i] = e[i + gone]
            /\ w # <<>> => w[1] <= limit
  BY <1>0, <1>1, <1>2, WithoutOlderIsSuffix
<1>4. PICK gone \in 0..Len(e) :
            /\ Len(w) = Len(e) - gone
            /\ \A i \in 1..gone : e[i] > limit
            /\ \A i \in 1..Len(w) : w[i] = e[i + gone]
            /\ w # <<>> => w[1] <= limit
  BY <1>3
<1>5. /\ Len(ts) \in Nat /\ Len(e) \in Nat /\ Len(w) \in Nat
      /\ \A i \in 1..Len(e) : e[i] \in Nat
  BY <1>2, <1>3, SequenceOfAges
<1>6. KeepsRecent(w, e)
  <2>1. \A i \in 1..gone : i \in 1..Len(e) /\ e[i] > limit
    BY <1>4, <1>5
  <2>2. \A n \in Nat : n > limit => n >= Window
    BY <1>0
  <2>3. \A i \in 1..gone : e[i] >= Window
    BY <2>1, <2>2, <1>5
  <2> QED BY <1>4, <2>3 DEF KeepsRecent
<1>7. InStep(w, s)
  BY <1>2, <1>3, <1>6, InStepAfterEviction
<1>8. Len(w) <= Len(ts)
  BY <1>2, <1>4, <1>5
<1>9. ASSUME FineClock, ts # <<>>, ts[1] >= Window
      PROVE  Len(w) < Len(ts)
  <2>1. CASE Len(e) # Len(ts)
    BY <2>1, <1>2, <1>4, <1>5
  <2>2. CASE Len(e) = Len(ts)
    <3>1. e = ts /\ Len(e) > 0
      BY <2>2, <1>2, <1>5, <1>9, EmptySeq
    <3>2. SUFFICES ASSUME gone = 0 PROVE FALSE
      BY <2>2, <1>4, <1>5
    <3>3. w # <<>> /\ w[1] = e[1]
      BY <3>1, <3>2, <1>4, <1>5
    <3>4. e[1] <= limit /\ e[1] >= Window /\ e[1] \in Nat
      BY <3>1, <3>3, <1>4, <1>5, <1>9
    <3> QED BY <3>4, <1>0, <1>9
  <2> QED BY <2>1, <2>2
<1>10. /\ w \in Seq(Ages) /\ InStep(w, s) /\ Len(w) <= Len(ts)
       /\ FineClock /\ ts # <<>> /\ ts[1] >= Window => Len(w) < Len(ts)
  BY <1>3, <1>7, <1>8, <1>9
<1> QED BY <1>10 DEF w

-----------------------------------------------------------------------------
(* The inductive invariant *)

OldestFirst(s) == \A i, j \in 1..Len(s) : i <= j => s[i] >= s[j]

\* Who sleeps in acquire() holds the lock, and by the time it may wake the oldest
\* timestamp will be out of the window.
SleeperHolds(c) ==
    pc[c] = "sleep" =>
        /\ holder = c
        /\ timestamps # <<>> /\ timestamps[1] + left[c] >= Window

\* On a fine clock the deque never holds more than the limit.
DequeIsBounded == FineClock => Len(timestamps) <= MaxPerMinute

\* Who waits for another attempt has one left.
HasAnotherAttempt(c) == pc[c] = "backoff" => attempt[c] <= MaxRetries

IInv ==
    /\ TypeOK
    /\ OldestFirst(granted)
    /\ InStep(timestamps, granted)
    /\ \A c \in Callers : SleeperHolds(c)
    /\ DequeIsBounded
    /\ \A c \in Callers : HasAnotherAttempt(c)

\* A sequence is one of whatever set holds its elements.
LEMMA SequenceWithin ==
    ASSUME NEW A, NEW B, NEW s \in Seq(A), \A i \in 1..Len(s) : s[i] \in B
    PROVE  s \in Seq(B)
<1>1. Len(s) \in Nat /\ s = [i \in 1..Len(s) |-> s[i]]
  BY LenProperties
<1>2. s \in [1..Len(s) -> B]
  BY <1>1
<1> QED BY <1>1, <1>2

LEMMA GrantedAreAges ==
    ASSUME NEW s \in Seq(0..Window)
    PROVE  s \in Seq(Ages)
<1>1. 0..Window \subseteq Ages
  BY ConstantsAssumption DEF Ages
<1> QED BY <1>1, SeqMonotonic

LEMMA InitIInv == Init => IInv
<1> SUFFICES ASSUME Init PROVE IInv
  OBVIOUS
<1>1. TypeOK
  BY ConstantsAssumption DEF Init, TypeOK
<1>2. OldestFirst(granted) /\ InStep(timestamps, granted) /\ DequeIsBounded
  BY ConstantsAssumption DEF Init, OldestFirst, InStep, DequeIsBounded
<1>3. \A c \in Callers : SleeperHolds(c) /\ HasAnotherAttempt(c)
  BY DEF Init, SleeperHolds, HasAnotherAttempt
<1> QED BY <1>1, <1>2, <1>3 DEF IInv

\* The clock: the deque and the history age alike, and what leaves the history is
\* out of the window.
LEMMA TickKeepsIInv == IInv /\ Tick => IInv'
<1> SUFFICES ASSUME IInv, Tick PROVE IInv'
  OBVIOUS
<1> DEFINE old == Older(granted)
<1>0. /\ Ages \in SUBSET Nat /\ Window \in Nat
      /\ timestamps \in Seq(Ages) /\ granted \in Seq(0..Window)
      /\ left \in [Callers -> 0..Window]
  BY ConstantsAssumption DEF IInv, TypeOK, Ages
<1>1. granted \in Seq(Ages)
  BY <1>0, GrantedAreAges
<1>2. /\ old \in Seq(Ages) /\ Len(old) = Len(granted) /\ Len(old) \in Nat
      /\ \A i \in 1..Len(old) : old[i] = granted[i] + 1 /\ granted[i] \in Nat
  <2>1. /\ old \in Seq(Ages) /\ Len(old) = Len(granted)
        /\ \A i \in 1..Len(old) :
              old[i] = IF granted[i] > Window THEN granted[i] ELSE granted[i] + 1
    BY <1>1, OlderAges
  <2>2. Len(old) \in Nat /\ \A i \in 1..Len(old) : granted[i] \in 0..Window
    BY <1>0, <2>1
  <2> QED BY <2>1, <2>2, <1>0
<1>3. /\ Older(timestamps) \in Seq(Ages) /\ Len(Older(timestamps)) = Len(timestamps)
      /\ \A i \in 1..Len(timestamps) :
            Older(timestamps)[i] = IF timestamps[i] > Window THEN timestamps[i]
                                   ELSE timestamps[i] + 1
  BY <1>0, OlderAges
<1>4. timestamps' = Older(timestamps) /\ granted' = WithoutOlder(old, Window)
  BY DEF Tick
<1> HIDE DEF old
<1>5. /\ granted' \in Seq(Ages)
      /\ \E gone \in 0..Len(old) :
            /\ Len(granted') = Len(old) - gone
            /\ \A i \in 1..gone : old[i] > Window
            /\ \A i \in 1..Len(granted') : granted'[i] = old[i + gone]
            /\ granted' # <<>> => granted'[1] <= Window
  BY <1>0, <1>2, <1>4, WithoutOlderIsSuffix
<1>6. PICK gone \in 0..Len(old) :
            /\ Len(granted') = Len(old) - gone
            /\ \A i \in 1..gone : old[i] > Window
            /\ \A i \in 1..Len(granted') : granted'[i] = old[i + gone]
            /\ granted' # <<>> => granted'[1] <= Window
  BY <1>5
<1>7. Len(granted') \in Nat /\ \A i \in 1..Len(granted') : granted'[i] \in Nat
  BY <1>5, SequenceOfAges
<1>8. OldestFirst(granted)'
  <2> SUFFICES ASSUME NEW i \in 1..Len(granted'), NEW j \in 1..Len(granted'), i <= j
               PROVE  granted'[i] >= granted'[j]
    BY DEF OldestFirst
  <2>1. /\ i + gone \in 1..Len(granted) /\ j + gone \in 1..Len(granted)
        /\ i + gone <= j + gone
    BY <1>2, <1>6, <1>7
  <2>2. granted[i + gone] >= granted[j + gone]
    BY <2>1 DEF IInv, OldestFirst
  <2>3. /\ granted'[i] = granted[i + gone] + 1 /\ granted'[j] = granted[j + gone] + 1
        /\ granted[i + gone] \in Nat /\ granted[j + gone] \in Nat
    BY <2>1, <1>2, <1>6
  <2> QED BY <2>2, <2>3
<1>9. granted' \in Seq(0..Window)
  <2>1. \A i \in 1..Len(granted') : granted'[i] \in 0..Window
    <3> SUFFICES ASSUME NEW i \in 1..Len(granted') PROVE granted'[i] \in 0..Window
      OBVIOUS
    <3>1. granted'[1] <= Window /\ 1 \in 1..Len(granted')
      BY <1>5, <1>6, <1>7, EmptySeq
    <3>2. granted'[1] >= granted'[i]
      BY <3>1, <1>7, <1>8 DEF OldestFirst
    <3> QED BY <3>1, <3>2, <1>0, <1>7
  <2> QED BY <2>1, <1>5, SequenceWithin
<1>10. InStep(timestamps, granted)'
  <2>1. InStep(Older(timestamps), old)
    BY <1>0, <1>1, InStepAfterTick DEF IInv, old
  <2>2. KeepsRecent(granted', old)
    <3>1. \A i \in 1..gone : i \in 1..Len(old) /\ old[i] \in Nat /\ old[i] > Window
      BY <1>2, <1>6
    <3>2. \A i \in 1..gone : old[i] >= Window
      BY <3>1, <1>0
    <3> QED BY <3>2, <1>6 DEF KeepsRecent
  <2>3. InStep(old, Older(timestamps))
    BY <2>1, <1>2, <1>3, InStepIsSymmetric
  <2>4. InStep(granted', Older(timestamps))
    BY <2>2, <2>3, <1>2, <1>3, <1>5, InStepAfterEviction
  <2>5. InStep(Older(timestamps), granted')
    BY <2>4, <1>3, <1>5, InStepIsSymmetric
  <2> QED BY <2>5, <1>4
<1>11. /\ left' \in [Callers -> 0..Window]
       /\ \A c \in Callers : left'[c] = IF left[c] = 0 THEN 0 ELSE left[c] - 1
  BY <1>0 DEF Tick
<1>12. TypeOK'
  BY <1>3, <1>4, <1>9, <1>11 DEF IInv, TypeOK, Tick
<1>13. ASSUME NEW c \in Callers PROVE SleeperHolds(c)'
  <2> SUFFICES ASSUME pc[c] = "sleep"
               PROVE  /\ holder = c /\ timestamps' # <<>>
                      /\ timestamps'[1] + left'[c] >= Window
    BY DEF SleeperHolds, Tick
  <2>1. /\ holder = c /\ timestamps # <<>>
        /\ timestamps[1] + left[c] >= Window
    BY DEF IInv, SleeperHolds
  <2>2. Len(timestamps) \in Nat /\ 1 \in 1..Len(timestamps) /\ timestamps[1] \in Nat
    BY <2>1, <1>0, SequenceOfAges, EmptySeq
  <2>3. timestamps' # <<>>
    BY <2>2, <1>3, <1>4
  <2>4. timestamps'[1] = IF timestamps[1] > Window THEN timestamps[1]
                         ELSE timestamps[1] + 1
    BY <2>2, <1>3, <1>4
  <2>5. left[c] \in Nat /\ left'[c] = IF left[c] = 0 THEN 0 ELSE left[c] - 1
    BY <1>0, <1>11
  <2>6. timestamps'[1] + left'[c] >= Window
    BY <2>1, <2>2, <2>4, <2>5, <1>0
  <2> QED BY <2>1, <2>3, <2>6
<1>14. DequeIsBounded'
  BY <1>3, <1>4 DEF IInv, DequeIsBounded
<1>15. ASSUME NEW c \in Callers PROVE HasAnotherAttempt(c)'
  BY DEF IInv, HasAnotherAttempt, Tick
<1> QED BY <1>8, <1>10, <1>12, <1>13, <1>14, <1>15 DEF IInv

\* acquire() lets c through: the deque may lose what left the window first.
LEMMA GrantKeepsIInv ==
    ASSUME IInv, NEW c \in Callers, NEW ts \in Seq(Ages),
           InStep(ts, granted), FineClock => Len(ts) < MaxPerMinute,
           Grant(c, ts), waiters' \in Seq(Callers), UNCHANGED <<left, attempt>>,
           \A d \in Callers \ {c} : pc[d] # "sleep"
    PROVE  IInv'
<1>0. /\ granted \in Seq(0..Window) /\ 0 \in 0..Window /\ 0 \in Ages
      /\ pc \in [Callers -> {"idle", "acquire", "sleep", "send", "backoff", "ok", "failed"}]
  BY ConstantsAssumption DEF IInv, TypeOK, Ages
<1>1. /\ timestamps' = Append(ts, 0) /\ granted' = Append(granted, 0)
      /\ holder' = NoOne /\ pc' = [pc EXCEPT ![c] = "send"]
  BY DEF Grant
<1>2. TypeOK'
  <2>1. timestamps' \in Seq(Ages) /\ granted' \in Seq(0..Window)
    BY <1>0, <1>1, AppendProperties
  <2>2. pc' \in [Callers -> {"idle", "acquire", "sleep", "send", "backoff", "ok", "failed"}]
    BY <1>0, <1>1
  <2> QED BY <1>1, <2>1, <2>2 DEF IInv, TypeOK
<1>3. OldestFirst(granted)'
  <2>1. /\ Len(granted') = Len(granted) + 1 /\ Len(granted) \in Nat
        /\ granted'[Len(granted) + 1] = 0
        /\ \A i \in 1..Len(granted) : granted'[i] = granted[i] /\ granted[i] \in Nat
    <3>1. granted \in Seq(Ages)
      BY <1>0, GrantedAreAges
    <3> QED BY <1>0, <1>1, <3>1, AppendProperties, SequenceOfAges
  <2> SUFFICES ASSUME NEW i \in 1..Len(granted'), NEW j \in 1..Len(granted'), i <= j
               PROVE  granted'[i] >= granted'[j]
    BY DEF OldestFirst
  <2>2. CASE j = Len(granted) + 1
    <3>1. granted'[i] \in Nat /\ granted'[j] = 0
      BY <2>1, <2>2
    <3> QED BY <3>1
  <2>3. CASE j # Len(granted) + 1
    <3>1. i \in 1..Len(granted) /\ j \in 1..Len(granted)
      BY <2>1, <2>3
    <3>2. granted[i] >= granted[j]
      BY <3>1 DEF IInv, OldestFirst
    <3> QED BY <3>1, <3>2, <2>1
  <2> QED BY <2>2, <2>3
<1>4. InStep(timestamps, granted)'
  <2>1. granted \in Seq(Ages)
    BY <1>0, GrantedAreAges
  <2>2. InStep(Append(ts, 0), Append(granted, 0))
    BY <2>1, InStepAfterGrant
  <2> QED BY <2>2, <1>1
<1>5. \A d \in Callers : SleeperHolds(d)'
  BY <1>0, <1>1 DEF SleeperHolds
<1>6. DequeIsBounded'
  BY <1>0, <1>1, AppendProperties, ConstantsAssumption DEF DequeIsBounded
<1>7. \A d \in Callers : HasAnotherAttempt(d)'
  BY <1>0, <1>1 DEF IInv, HasAnotherAttempt
<1> QED BY <1>2, <1>3, <1>4, <1>5, <1>6, <1>7 DEF IInv

\* While nobody holds the lock nobody sleeps in acquire().
LEMMA FreeLock ==
    ASSUME IInv, holder = NoOne
    PROVE  \A c \in Callers : pc[c] # "sleep"
BY ConstantsAssumption DEF IInv, SleeperHolds

\* The first pass over the deque.
LEMMA FirstPass ==
    ASSUME IInv
    PROVE  /\ Evicted(timestamps) \in Seq(Ages)
           /\ InStep(Evicted(timestamps), granted)
           /\ Len(Evicted(timestamps)) <= Len(timestamps)
           /\ Len(Evicted(timestamps)) \in Nat /\ Len(timestamps) \in Nat
           /\ Len(Evicted(timestamps)) # 0 =>
                 Evicted(timestamps) # <<>> /\ Evicted(timestamps)[1] \in 0..Window
<1>1. timestamps \in Seq(Ages) /\ granted \in Seq(Ages) /\ InStep(timestamps, granted)
  BY GrantedAreAges DEF IInv, TypeOK
<1>2. /\ Evicted(timestamps) \in Seq(Ages)
      /\ KeepsRecent(Evicted(timestamps), timestamps)
      /\ Len(Evicted(timestamps)) <= Len(timestamps)
      /\ Evicted(timestamps) # <<>> => Evicted(timestamps)[1] \in 0..Window
  BY <1>1, EvictedKeepsRecent
<1>3. InStep(Evicted(timestamps), granted)
  BY <1>1, <1>2, InStepAfterEviction
<1>4. Len(Evicted(timestamps)) \in Nat /\ Len(timestamps) \in Nat
  BY <1>1, <1>2, LenProperties
<1>5. Len(Evicted(timestamps)) # 0 => Evicted(timestamps) # <<>>
  BY EmptySeq
<1> QED BY <1>2, <1>3, <1>4, <1>5

LEMMA AcquireKeepsIInv ==
    ASSUME IInv, NEW c \in Callers, Acquire(c)
    PROVE  IInv'
<1> DEFINE ts == Evicted(timestamps)
<1>0. /\ waiters \in Seq(Callers) /\ granted \in Seq(Ages)
      /\ holder \in Callers \cup {NoOne} /\ NoOne \notin Callers
      /\ MaxPerMinute \in Nat \ {0} /\ Window \in Nat
      /\ left \in [Callers -> 0..Window]
      /\ pc \in [Callers -> {"idle", "acquire", "sleep", "send", "backoff", "ok", "failed"}]
  BY ConstantsAssumption, GrantedAreAges DEF IInv, TypeOK
<1>1. ASSUME IsNext(c)
      PROVE  waiters' \in Seq(Callers) /\ holder = NoOne
  BY <1>0, <1>1, HeadTailProperties DEF IsNext
<1>2. CASE AcquireAtOnce(c)
  <2>1. /\ IsNext(c) /\ Len(ts) < MaxPerMinute /\ Grant(c, ts)
        /\ UNCHANGED <<left, attempt>>
    BY <1>2 DEF AcquireAtOnce
  <2> QED BY <2>1, <1>1, FirstPass, FreeLock, GrantKeepsIInv
<1>3. CASE AcquireAtTheEdge(c)
  <2>1. /\ IsNext(c) /\ Len(ts) >= MaxPerMinute /\ Head(ts) >= Window
        /\ Grant(c, EvictedAgain(ts)) /\ UNCHANGED <<left, attempt>>
    BY <1>3 DEF AcquireAtTheEdge
  <2>2. /\ ts \in Seq(Ages) /\ InStep(ts, granted) /\ Len(ts) \in Nat
        /\ Len(ts) <= Len(timestamps) /\ Len(timestamps) \in Nat
        /\ ts # <<>> /\ ts[1] >= Window
    BY <2>1, <1>0, FirstPass
  <2> HIDE DEF ts
  <2>3. /\ EvictedAgain(ts) \in Seq(Ages) /\ InStep(EvictedAgain(ts), granted)
        /\ FineClock => Len(EvictedAgain(ts)) < Len(ts)
    BY <2>2, <1>0, EvictedAgainKeepsRecent
  <2>4. FineClock => Len(EvictedAgain(ts)) < MaxPerMinute
    <3>1. Len(EvictedAgain(ts)) \in Nat
      BY <2>3, LenProperties
    <3> QED BY <3>1, <2>2, <2>3, <1>0 DEF IInv, DequeIsBounded
  <2> QED BY <2>1, <2>3, <2>4, <1>1, FreeLock, GrantKeepsIInv
<1>4. CASE AcquireSleeps(c)
  <2>1. /\ IsNext(c) /\ Len(ts) >= MaxPerMinute /\ Head(ts) < Window
        /\ timestamps' = ts /\ left' = [left EXCEPT ![c] = Window - Head(ts)]
        /\ holder' = c /\ pc' = [pc EXCEPT ![c] = "sleep"]
        /\ UNCHANGED <<attempt, granted>>
    BY <1>4 DEF AcquireSleeps
  <2>2. /\ ts \in Seq(Ages) /\ InStep(ts, granted) /\ Len(ts) \in Nat
        /\ Len(ts) <= Len(timestamps) /\ Len(timestamps) \in Nat
        /\ ts # <<>> /\ ts[1] \in 0..Window /\ ts[1] = Head(ts)
    BY <2>1, <1>0, FirstPass
  <2> HIDE DEF ts
  <2>3. Window - Head(ts) \in 0..Window /\ ts[1] + (Window - Head(ts)) >= Window
    BY <2>2, <1>0
  <2>4. TypeOK'
    <3>1. /\ left' \in [Callers -> 0..Window]
          /\ pc' \in [Callers -> {"idle", "acquire", "sleep", "send", "backoff", "ok", "failed"}]
      BY <2>1, <2>3, <1>0
    <3> QED BY <3>1, <2>1, <2>2, <1>1 DEF IInv, TypeOK
  <2>5. OldestFirst(granted)' /\ InStep(timestamps, granted)'
    BY <2>1, <2>2 DEF IInv
  <2>6. ASSUME NEW d \in Callers PROVE SleeperHolds(d)'
    <3>1. CASE d = c
      <4>1. left'[c] = Window - Head(ts)
        BY <2>1, <1>0
      <4> QED BY <3>1, <4>1, <2>1, <2>2, <2>3 DEF SleeperHolds
    <3>2. CASE d # c
      <4>1. pc'[d] = pc[d] /\ pc[d] # "sleep"
        BY <3>2, <2>1, <1>0, <1>1, FreeLock
      <4> QED BY <4>1 DEF SleeperHolds
    <3> QED BY <3>1, <3>2
  <2>7. DequeIsBounded'
    BY <2>1, <2>2, <1>0 DEF IInv, DequeIsBounded
  <2>8. \A d \in Callers : HasAnotherAttempt(d)'
    BY <2>1, <1>0 DEF IInv, HasAnotherAttempt
  <2> QED BY <2>4, <2>5, <2>6, <2>7, <2>8 DEF IInv
<1>5. CASE Wakes(c)
  <2>1. /\ pc[c] = "sleep" /\ left[c] = 0 /\ Grant(c, EvictedAgain(timestamps))
        /\ UNCHANGED <<waiters, left, attempt>>
    BY <1>5 DEF Wakes
  <2>2. /\ holder = c /\ timestamps # <<>> /\ timestamps[1] + left[c] >= Window
    BY <2>1 DEF IInv, SleeperHolds
  <2>3. /\ timestamps \in Seq(Ages) /\ InStep(timestamps, granted)
        /\ Len(timestamps) \in Nat /\ timestamps[1] \in Nat
    <3>1. timestamps \in Seq(Ages) /\ InStep(timestamps, granted)
      BY DEF IInv, TypeOK
    <3>2. Len(timestamps) \in Nat \ {0}
      BY <2>2, <3>1, EmptySeq
    <3>3. 1 \in 1..Len(timestamps)
      BY <3>2
    <3> QED BY <3>1, <3>2, <3>3, SequenceOfAges
  <2>4. timestamps[1] >= Window
    BY <2>1, <2>2, <2>3, <1>0
  <2>5. /\ EvictedAgain(timestamps) \in Seq(Ages)
        /\ InStep(EvictedAgain(timestamps), granted)
        /\ FineClock => Len(EvictedAgain(timestamps)) < Len(timestamps)
    BY <2>2, <2>3, <2>4, <1>0, EvictedAgainKeepsRecent
  <2>6. FineClock => Len(EvictedAgain(timestamps)) < MaxPerMinute
    <3>1. Len(EvictedAgain(timestamps)) \in Nat
      BY <2>5, LenProperties
    <3> QED BY <3>1, <2>3, <2>5, <1>0 DEF IInv, DequeIsBounded
  <2>7. \A d \in Callers \ {c} : pc[d] # "sleep"
    BY <2>2 DEF IInv, SleeperHolds
  <2> QED BY <2>1, <2>5, <2>6, <2>7, <1>0, GrantKeepsIInv
<1> QED BY <1>2, <1>3, <1>4, <1>5 DEF Acquire

LEMMA GetKeepsIInv ==
    ASSUME IInv, NEW c \in Callers, Get(c) \/ Answer(c) \/ Retry(c)
    PROVE  IInv'
<1> DEFINE Places == {"idle", "acquire", "sleep", "send", "backoff", "ok", "failed"}
<1>0. /\ waiters \in Seq(Callers) /\ MaxRetries \in Nat
      /\ pc \in [Callers -> Places]
      /\ attempt \in [Callers -> 0..(MaxRetries + 1)]
  BY ConstantsAssumption DEF IInv, TypeOK
<1>1. /\ UNCHANGED <<timestamps, holder, left, granted>>
      /\ \A d \in Callers \ {c} : pc'[d] = pc[d] /\ attempt'[d] = attempt[d]
      /\ pc[c] # "sleep" /\ pc'[c] # "sleep"
      /\ pc'[c] = "backoff" => attempt'[c] <= MaxRetries
      /\ waiters' \in Seq(Callers)
      /\ pc' \in [Callers -> Places]
      /\ attempt' \in [Callers -> 0..(MaxRetries + 1)]
  <2>1. CASE Get(c)
    <3>1. pc[c] \in {"idle", "ok", "failed"} /\ Join(c, 1)
      BY <2>1 DEF Get
    <3> QED BY <3>1, <1>0, AppendProperties DEF Join
  <2>2. CASE Retry(c)
    <3>1. pc[c] = "backoff" /\ Join(c, attempt[c] + 1)
      BY <2>2 DEF Retry
    <3>2. attempt[c] <= MaxRetries
      BY <3>1 DEF IInv, HasAnotherAttempt
    <3>3. attempt[c] + 1 \in 0..(MaxRetries + 1)
      BY <3>2, <1>0
    <3> QED BY <3>1, <3>3, <1>0, AppendProperties DEF Join
  <2>3. CASE Answer(c)
    <3>1. \E outcome \in {"ok", "failed", "backoff"} :
             /\ Answered(c, outcome)
             /\ outcome = "backoff" => attempt[c] <= MaxRetries
      BY <2>3 DEF Answer, Succeeds, IsRefused, FailsForNow
    <3> QED BY <3>1, <1>0 DEF Answered
  <2> QED BY <2>1, <2>2, <2>3
<1>2. TypeOK'
  BY <1>1 DEF IInv, TypeOK
<1>3. OldestFirst(granted)' /\ InStep(timestamps, granted)' /\ DequeIsBounded'
  BY <1>1 DEF IInv, DequeIsBounded
<1>4. \A d \in Callers : SleeperHolds(d)' /\ HasAnotherAttempt(d)'
  BY <1>0, <1>1 DEF IInv, SleeperHolds, HasAnotherAttempt
<1> QED BY <1>2, <1>3, <1>4 DEF IInv

\* The inductive invariant holds in every reachable state.
THEOREM IInvHolds == Spec => []IInv
<1>1. Init => IInv
  BY InitIInv
<1>2. IInv /\ [Next]_vars => IInv'
  <2> SUFFICES ASSUME IInv, [Next]_vars PROVE IInv'
    OBVIOUS
  <2>1. CASE Tick
    BY <2>1, TickKeepsIInv
  <2>2. ASSUME NEW c \in Callers, Get(c) \/ Acquire(c) \/ Answer(c) \/ Retry(c)
        PROVE  IInv'
    BY <2>2, AcquireKeepsIInv, GetKeepsIInv
  <2>3. CASE UNCHANGED vars
    BY <2>3 DEF vars, IInv, TypeOK, OldestFirst, InStep, SleeperHolds, DequeIsBounded,
               HasAnotherAttempt
  <2> QED BY <2>1, <2>2, <2>3 DEF Next
<1> QED BY <1>1, <1>2, PTL DEF Spec

-----------------------------------------------------------------------------
(* The properties *)

\* Every variable keeps its type, and no GET is attempted more than
\* MaxRetries + 1 times (stop_after_attempt, http_client.py:252).
THEOREM TypeCorrect == Spec => []TypeOK
<1>1. IInv => TypeOK
  BY DEF IInv
<1> QED BY <1>1, IInvHolds, PTL

\* The deque and the calls let through agree on the window: the limiter forgets
\* no call that still counts and counts none twice (http_client.py:110, 128-131).
THEOREM NothingIsForgottenHolds == Spec => []NothingIsForgotten
<1>1. IInv => NothingIsForgotten
  <2> SUFFICES ASSUME IInv PROVE NothingIsForgotten
    OBVIOUS
  <2>1. timestamps \in Seq(Ages) /\ granted \in Seq(Ages) /\ InStep(timestamps, granted)
    BY GrantedAreAges DEF IInv, TypeOK
  <2>2. Cardinality(Recent(timestamps)) <= Cardinality(Recent(granted))
    BY <2>1, InStepAgree
  <2>3. Cardinality(Recent(granted)) <= Cardinality(Recent(timestamps))
    BY <2>1, InStepIsSymmetric, InStepAgree
  <2>4. /\ Cardinality(Recent(timestamps)) \in Nat
        /\ Cardinality(Recent(granted)) \in Nat
    BY <2>1, RecentIsFinite
  <2>5. Cardinality(Recent(granted)) = Cardinality(Recent(timestamps))
    BY <2>2, <2>3, <2>4
  <2> QED BY <2>5 DEF NothingIsForgotten, Recent
<1> QED BY <1>1, IInvHolds, PTL

\* The documented rate, whatever the limit, the window and the number of tasks:
\* on a clock that never reads the same twice, at most MaxPerMinute calls pass in
\* any trailing window (http_client.py:99-101).
THEOREM RateIsBoundedHolds == ASSUME FineClock PROVE Spec => []RateIsBounded
<1>1. IInv => RateIsBounded
  <2> SUFFICES ASSUME IInv PROVE RateIsBounded
    OBVIOUS
  <2>1. timestamps \in Seq(Ages) /\ granted \in Seq(Ages) /\ InStep(timestamps, granted)
    BY GrantedAreAges DEF IInv, TypeOK
  <2>2. Cardinality(Recent(granted)) <= Cardinality(Recent(timestamps))
    BY <2>1, InStepIsSymmetric, InStepAgree
  <2>3. /\ Cardinality(Recent(timestamps)) \in Nat
        /\ Cardinality(Recent(granted)) \in Nat
        /\ Cardinality(Recent(timestamps)) <= Len(timestamps)
        /\ Len(timestamps) \in Nat
    BY <2>1, RecentIsFinite, LenProperties
  <2>4. Len(timestamps) <= MaxPerMinute
    BY DEF IInv, DequeIsBounded
  <2>5. Cardinality(Recent(granted)) <= MaxPerMinute
    BY <2>2, <2>3, <2>4, ConstantsAssumption
  <2> QED BY <2>5 DEF RateIsBounded, Recent
<1> QED BY <1>1, IInvHolds, PTL
=============================================================================
