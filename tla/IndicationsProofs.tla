-------------------------- MODULE IndicationsProofs --------------------------
(***************************************************************************)
(* Proofs about Indications, for any intervals and any number of ends of   *)
(* file: the sleep of the reader is a function of the outage alone.        *)
(***************************************************************************)
EXTENDS Indications, WellFoundedInduction, TLAPS

-----------------------------------------------------------------------------
(* Induction over the naturals, for a set rather than a predicate. *)

\* Every set of naturals that is not empty has a least element.
LEMMA LeastElement ==
  ASSUME NEW T, T \subseteq Nat, T # {}
  PROVE  \E n \in T : \A m \in T : n <= m
<1>1. IsWellFoundedOn({ss \in Nat \X Nat : ss[1] < ss[2]}, Nat)
  BY NatLessThanWellFounded DEF OpToRel
<1>2. PICK n \in T : \A m \in T : <<m, n>> \notin {ss \in Nat \X Nat : ss[1] < ss[2]}
  BY <1>1, WFMin
<1>3. SUFFICES ASSUME NEW m \in T PROVE n <= m
  OBVIOUS
<1>4. <<m, n>> \notin {ss \in Nat \X Nat : ss[1] < ss[2]} /\ m \in Nat /\ n \in Nat
  BY <1>2
<1>5. ~(m < n)
  BY <1>4
<1> QED
  BY <1>4, <1>5

\* A set that holds zero and with every natural the next one holds them all.
LEMMA SetInduction ==
  ASSUME NEW T, 0 \in T, \A n \in Nat : n \in T => n + 1 \in T
  PROVE  Nat \subseteq T
<1> DEFINE Out == Nat \ T
<1>1. SUFFICES ASSUME Out # {} PROVE FALSE
  OBVIOUS
<1>2. PICK n \in Out : \A m \in Out : n <= m
  BY <1>1, LeastElement
<1>3. n # 0 /\ n - 1 \in Nat
  BY <1>2
<1>4. n - 1 \notin Out
  BY <1>2, <1>3
<1> QED
  BY <1>3, <1>4

-----------------------------------------------------------------------------
(* The intervals of the backoff. *)

\* incrementCurrentInterval never passes MaxInterval.
LEMMA IncrementBound ==
  ASSUME NEW interval \in Nat
  PROVE  Increment(interval) \in Nat /\ Increment(interval) <= MaxInterval
  BY IntervalAssumption DEF Increment

\* The backoff as far as its first n steps.
Prefix(n) ==
  {g \in [0 .. n -> Nat] : g[0] = InitialInterval /\ \A k \in 1 .. n : g[k] = Increment(g[k - 1])}

\* Every prefix can be made longer, so there is one of every length.
LEMMA PrefixExists ==
  ASSUME NEW n \in Nat
  PROVE  Prefix(n) # {}
<1> DEFINE T == {m \in Nat : Prefix(m) # {}}
<1>1. 0 \in T
  <2>1. [k \in 0 .. 0 |-> InitialInterval] \in Prefix(0)
    BY IntervalAssumption DEF Prefix
  <2> QED
    BY <2>1
<1>2. ASSUME NEW m \in Nat, m \in T PROVE m + 1 \in T
  <2>1. PICK g : g \in Prefix(m)
    BY <1>2
  <2>2. g \in [0 .. m -> Nat] /\ g[0] = InitialInterval /\ \A k \in 1 .. m : g[k] = Increment(g[k - 1])
    BY <2>1 DEF Prefix
  <2>3. PICK next \in Nat : next = Increment(g[m])
    BY <2>2, IncrementBound
  <2> DEFINE h == [k \in 0 .. m + 1 |-> IF k = m + 1 THEN next ELSE g[k]]
  <2>4. h \in [0 .. m + 1 -> Nat] /\ h[0] = InitialInterval
    BY <2>2, <2>3
  <2>5. ASSUME NEW k \in 1 .. m + 1 PROVE h[k] = Increment(h[k - 1])
    <3>1. CASE k = m + 1
      <4>1. h[k] = next /\ h[k - 1] = g[m]
        BY <3>1
      <4> QED
        BY <4>1, <2>3
    <3>2. CASE k \in 1 .. m
      <4>1. h[k] = g[k] /\ h[k - 1] = g[k - 1]
        BY <3>2
      <4> QED
        BY <4>1, <3>2, <2>2
    <3> QED
      BY <3>1, <3>2
  <2>6. h \in Prefix(m + 1)
    BY <2>4, <2>5 DEF Prefix
  <2> QED
    BY <2>6
<1> HIDE DEF T
<1>3. Nat \subseteq T
  BY <1>1, <1>2, SetInduction
<1> QED
  BY <1>3 DEF T

\* Two prefixes agree as far as both go.
LEMMA PrefixesAgree ==
  ASSUME NEW n \in Nat, NEW m \in Nat, NEW g \in Prefix(n), NEW h \in Prefix(m)
  PROVE  \A k \in 0 .. n : k <= m => g[k] = h[k]
<1> DEFINE T == {k \in Nat : k <= n /\ k <= m => g[k] = h[k]}
<1>0. /\ g[0] = InitialInterval /\ \A k \in 1 .. n : g[k] = Increment(g[k - 1])
      /\ h[0] = InitialInterval /\ \A k \in 1 .. m : h[k] = Increment(h[k - 1])
  BY DEF Prefix
<1>1. 0 \in T
  BY <1>0
<1>2. ASSUME NEW k \in Nat, k \in T PROVE k + 1 \in T
  <2>1. SUFFICES ASSUME k + 1 <= n, k + 1 <= m PROVE g[k + 1] = h[k + 1]
    OBVIOUS
  <2>2. g[k] = h[k]
    BY <1>2, <2>1
  <2>3. k + 1 \in 1 .. n /\ k + 1 \in 1 .. m /\ (k + 1) - 1 = k
    BY <2>1
  <2> QED
    BY <1>0, <2>2, <2>3
<1> HIDE DEF T
<1>3. Nat \subseteq T
  BY <1>1, <1>2, SetInduction
<1> QED
  BY <1>3 DEF T

\* The recursive definition of Backoff defines a function.
LEMMA BackoffUnfolds ==
  \A n \in Nat : Backoff[n] = IF n = 0 THEN InitialInterval ELSE Increment(Backoff[n - 1])
<1> DEFINE pick(n) == CHOOSE g \in Prefix(n) : TRUE
           f == [n \in Nat |-> pick(n)[n]]
<1>1. \A n \in Nat : pick(n) \in Prefix(n)
  BY PrefixExists
<1> HIDE DEF pick
<1>2. ASSUME NEW n \in Nat
      PROVE  f[n] = IF n = 0 THEN InitialInterval ELSE Increment(f[n - 1])
  <2>1. pick(n) \in Prefix(n) /\ f[n] = pick(n)[n]
    BY <1>1
  <2>2. CASE n = 0
    BY <2>1, <2>2 DEF Prefix
  <2>3. CASE n # 0
    <3>1. n - 1 \in Nat /\ pick(n - 1) \in Prefix(n - 1) /\ f[n - 1] = pick(n - 1)[n - 1]
      BY <2>3, <1>1
    <3>2. pick(n)[n] = Increment(pick(n)[n - 1])
      BY <2>1, <2>3 DEF Prefix
    <3>3. n - 1 \in 0 .. n - 1 /\ n - 1 <= n
      BY <3>1
    <3>4. pick(n - 1)[n - 1] = pick(n)[n - 1]
      BY <2>1, <3>1, <3>3, PrefixesAgree
    <3> QED
      BY <2>1, <2>3, <3>1, <3>2, <3>4
  <2> QED
    BY <2>2, <2>3
<1>3. f = [n \in Nat |-> IF n = 0 THEN InitialInterval ELSE Increment(f[n - 1])]
  BY <1>2
<1> HIDE DEF f
<1>4. Backoff = [n \in Nat |-> IF n = 0 THEN InitialInterval ELSE Increment(Backoff[n - 1])]
  BY <1>3 DEF Backoff
<1> QED
  BY <1>4

-----------------------------------------------------------------------------
(* The theorems. *)

\* Two intervals on, the next end of file finds the backoff where its outage is.
LEMMA TwoIntervals ==
  ASSUME NEW n \in Nat, NEW interval \in Nat, interval = Backoff[2 * n]
  PROVE  /\ Increment(interval) = Backoff[2 * (n + 1) - 1]
         /\ Increment(Increment(interval)) = Backoff[2 * (n + 1)]
<1>1. 2 * (n + 1) - 1 \in Nat \ {0} /\ (2 * (n + 1) - 1) - 1 = 2 * n
  OBVIOUS
<1>2. Backoff[2 * (n + 1) - 1] = Increment(interval)
  BY <1>1, BackoffUnfolds
<1>3. 2 * (n + 1) \in Nat \ {0}
  OBVIOUS
<1>4. Backoff[2 * (n + 1)] = Increment(Backoff[2 * (n + 1) - 1])
  BY <1>3, BackoffUnfolds
<1> QED
  BY <1>2, <1>4

\* The backoff starts from InitialInterval.
LEMMA FirstInterval == Backoff[2 * 0] = InitialInterval
<1>1. 2 * 0 = 0
  OBVIOUS
<1> QED
  BY <1>1, BackoffUnfolds

\* The initial state satisfies the invariant.
LEMMA InitInd == Init => IndInv
<1>1. Backoff[2 * 0] = InitialInterval
  BY FirstInterval
<1> QED
  BY <1>1, IntervalAssumption, MaxEofsAssumption DEF Init, IndInv, SleepFollowsOutage

\* Every step preserves it.
LEMMA NextInd == IndInv /\ [Next]_vars => IndInv'
<1> SUFFICES ASSUME IndInv, [Next]_vars PROVE IndInv'
  OBVIOUS
<1>1. CASE EnableIndication
  BY <1>1 DEF EnableIndication, IndInv, SleepFollowsOutage
<1>2. CASE Recv
  <2>1. Backoff[2 * 0] = InitialInterval /\ InitialInterval \in Nat
    BY FirstInterval, IntervalAssumption
  <2> QED
    BY <1>2, <2>1 DEF Recv, IndInv, SleepFollowsOutage
<1>3. CASE RecvEof
  <2>1. /\ pc' = "sleep" /\ sleep' = Increment(currentInterval)
        /\ currentInterval' = Increment(Increment(currentInterval))
        /\ outage' = outage + 1 /\ eofs' = eofs + 1 /\ eofs < MaxEofs
    BY <1>3 DEF RecvEof
  <2>2. /\ currentInterval \in Nat /\ outage \in Nat /\ eofs \in Nat /\ outage <= eofs
        /\ currentInterval = Backoff[2 * outage]
    BY DEF IndInv
  <2>3. sleep' = Backoff[2 * outage' - 1] /\ currentInterval' = Backoff[2 * outage']
    BY <2>1, <2>2, TwoIntervals
  <2>4. sleep' \in Nat /\ sleep' <= MaxInterval /\ currentInterval' \in Nat
    BY <2>1, <2>2, IncrementBound
  <2>5. /\ outage' \in Nat /\ eofs' \in Nat /\ outage' <= eofs' /\ eofs' <= MaxEofs
        /\ outage' # 0
    BY <2>1, <2>2, MaxEofsAssumption
  <2> QED
    BY <2>1, <2>3, <2>4, <2>5 DEF IndInv, SleepFollowsOutage
<1>4. CASE RecvError
  BY <1>4 DEF RecvError, IndInv, SleepFollowsOutage
<1>5. CASE Sleep
  BY <1>5 DEF Sleep, IndInv, SleepFollowsOutage
<1>6. CASE EnableAgain
  BY <1>6 DEF EnableAgain, IndInv, SleepFollowsOutage
<1>7. CASE UNCHANGED vars
  BY <1>7 DEF vars, IndInv, SleepFollowsOutage
<1> QED
  BY <1>1, <1>2, <1>3, <1>4, <1>5, <1>6, <1>7 DEF Next, Ended

\* The inductive invariant of the reader holds in every state.
THEOREM IndInvHolds == Spec => []IndInv
<1> QED
  BY InitInd, NextInd, PTL DEF Spec

\* How long the reader sleeps is a function of the ends of file since the last
\* indication, and bounded by MaxInterval.
THEOREM SleepIsOfOutage == Spec => []SleepFollowsOutage
<1>1. IndInv => SleepFollowsOutage
  BY DEF IndInv
<1> QED
  BY <1>1, IndInvHolds, PTL
=============================================================================
