----------------------------- MODULE RetryProofs -----------------------------
(* Proofs about Retry: the results of the retry helpers, for any maxRetry. *)
EXTENDS Retry, TLAPS

\* A request that is answered keeps the invariant.
LEMMA RequestKeepsInv == IndInv /\ Request => IndInv'
<1> SUFFICES ASSUME IndInv, Request PROVE IndInv'
  OBVIOUS
<1>1. PICK ans \in Answers :
        /\ attempts' = IF attempts > maxRetry + 1 THEN attempts ELSE attempts + 1
        /\ held' = (held \/ ans \in {"OK", "Lost"})
        /\ lost' = (lost \/ ans = "Lost")
        /\ result' = IF attempts = 0 THEN FirstResult(ans) ELSE RetryResult(ans)
  BY DEF Request
<1>2. /\ result = "pending" /\ kind' = kind /\ earlier' = earlier
      /\ attempts \in Nat /\ attempts <= maxRetry /\ attempts' = attempts + 1
  BY <1>1, MaxRetryAssumption DEF Request, IndInv
<1>3. /\ ans \in {"AlreadyExists", "OK", "Unavailable", "Lost", "ResourceExhausted"}
      /\ ans = "AlreadyExists" => held
  BY DEF Answers, IndInv
<1>4. /\ result' \in {"pending", "nil", "err"}
      /\ result' = "nil" => ans \in {"OK", "AlreadyExists"}
      /\ result' # "nil" => ans # "OK"
      /\ result' = "pending" => attempts < maxRetry
  <2>1. CASE attempts = 0
    BY <1>1, <1>2, <1>3, <2>1, MaxRetryAssumption DEF FirstResult, IndInv
  <2>2. CASE attempts # 0
    BY <1>1, <1>2, <1>3, <2>2, MaxRetryAssumption DEF RetryResult
  <2> QED
    BY <2>1, <2>2
<1>5. attempts' \in 0 .. maxRetry + 1 /\ (result' = "pending" => attempts' <= maxRetry)
  BY <1>2, <1>4, MaxRetryAssumption
<1>6. held' \in BOOLEAN /\ lost' \in BOOLEAN /\ earlier' \in BOOLEAN
  BY <1>1, <1>2 DEF IndInv
<1>7. IF result' = "nil" THEN held' ELSE held' => earlier' \/ lost'
  <2>1. IF result = "nil" THEN held ELSE held => earlier \/ lost
    BY DEF IndInv
  <2> QED
    BY <1>1, <1>2, <1>3, <1>4, <2>1, Zenon
<1>8. kind' \in {"sched", "queue", "flow"}
  BY <1>2 DEF IndInv
<1> QED
  BY <1>4, <1>5, <1>6, <1>7, <1>8 DEF IndInv

\* Every state satisfies the invariant.
THEOREM IndInvHolds == Spec => []IndInv
<1>1. Init => IndInv
  <2>1. 0 \in 0 .. maxRetry + 1 /\ 0 <= maxRetry
    BY MaxRetryAssumption
  <2> SUFFICES ASSUME Init PROVE IndInv
    OBVIOUS
  <2>2. /\ kind \in {"sched", "queue", "flow"} /\ result \in {"pending", "nil", "err"}
        /\ attempts \in 0 .. maxRetry + 1 /\ attempts <= maxRetry
    BY <2>1 DEF Init
  <2>3. /\ held \in BOOLEAN /\ earlier \in BOOLEAN /\ lost \in BOOLEAN
        /\ held => earlier
    BY DEF Init
  <2>4. result # "nil"
    BY DEF Init
  <2> QED
    BY <2>2, <2>3, <2>4, Zenon DEF IndInv
<1>2. IndInv /\ UNCHANGED vars => IndInv'
  BY DEF IndInv, vars
<1>3. IndInv /\ [Next]_vars => IndInv'
  BY <1>2, RequestKeepsInv DEF Next, Returned
<1> QED
  BY <1>1, <1>3, PTL DEF Spec

\* A nil result is the truth, an error for something the agent holds comes only
\* of an earlier run or a lost answer, and no helper sends more than maxRetry
\* requests after the first.
THEOREM ResultsAreHonest == Spec => []ResultIsHonest
<1>1. IndInv => ResultIsHonest
  BY MaxRetryAssumption DEF IndInv, ResultIsHonest
<1> QED
  BY <1>1, IndInvHolds, PTL
=============================================================================
