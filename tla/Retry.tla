-------------------------------- MODULE Retry --------------------------------
(***************************************************************************)
(* CreateTrafficSchedWithRetry, CreateTrafficQueuesWithRetry and           *)
(* AddFlowWithRetry (core/workflow_utils.go): one call of one of them      *)
(* against an agent that may fail, lose answers, run out of resources and  *)
(* answer AlreadyExists to a flow it holds.  Nothing in the repository     *)
(* calls them yet.                                                         *)
(***************************************************************************)
EXTENDS Integers

CONSTANT maxRetry
ASSUME MaxRetryAssumption == maxRetry \in Nat \ {0}

VARIABLES
  kind,      \* "sched", "queue" or "flow"
  attempts,  \* requests sent so far
  held,      \* the agent holds what is asked for
  earlier,   \* it held it before the call
  lost,      \* history: an answer was lost after the agent had done the work
  result     \* "pending" before the call returns, then "nil" or "err"

vars == <<kind, attempts, held, earlier, lost, result>>

Init ==
  /\ kind \in {"sched", "queue", "flow"}
  /\ attempts = 0
  /\ held \in BOOLEAN
  /\ earlier = held
  /\ lost = FALSE
  /\ result = "pending"

\* A flow the agent holds it does not add again; what it answers to a scheduler
\* or a queue it holds is its own affair.
Answers ==
  {"Unavailable"}
  \cup (IF kind = "flow" THEN {"ResourceExhausted"} ELSE {})
  \cup (IF kind = "flow" /\ held THEN {"AlreadyExists"} ELSE {"OK", "Lost"})

\* Mutant: any first failure of a flow counts as "already exists".
FirstResult_Swallowed(ans) ==
  CASE kind = "flow" -> IF ans = "ResourceExhausted" THEN "pending" ELSE "nil"
    [] OTHER         -> IF ans = "OK" THEN "nil" ELSE "pending"

\* What the first answer makes of the call: a flow is only tried again after
\* ResourceExhausted.
FirstResult(ans) ==
  CASE kind = "flow" /\ ans \in {"OK", "AlreadyExists"} -> "nil"
    [] kind = "flow" /\ ans \in {"Unavailable", "Lost"} -> "err"
    [] kind # "flow" /\ ans = "OK"                      -> "nil"
    [] OTHER                                            -> "pending"

\* Mutant: no limit.
RetryResult_Forever(ans) == IF ans = "OK" THEN "nil" ELSE "pending"

\* Inside the loop everything but OK goes round again, AlreadyExists too; then
\* the last error is returned.
RetryResult(ans) ==
  CASE ans = "OK"                            -> "nil"
    [] ans # "OK" /\ attempts = maxRetry     -> "err"
    [] OTHER                                 -> "pending"

\* The counter is capped, for a loop without a limit.
Request ==
  /\ result = "pending"
  /\ \E ans \in Answers :
       /\ attempts' = IF attempts > maxRetry + 1 THEN attempts ELSE attempts + 1
       /\ held' = (held \/ ans \in {"OK", "Lost"})
       /\ lost' = (lost \/ ans = "Lost")
       /\ result' = IF attempts = 0 THEN FirstResult(ans) ELSE RetryResult(ans)
  /\ UNCHANGED <<kind, earlier>>

Returned == result # "pending" /\ UNCHANGED vars

Next == Request \/ Returned

\* The agent answers, with an error at the latest when the connection breaks.
Spec == Init /\ [][Next]_vars /\ WF_vars(Request)

-----------------------------------------------------------------------------
(* Properties. *)

\* A call that returns nil leaves the agent with what was asked for.  One that
\* returns an error although the agent holds it was not told: the agent held it
\* before the call, or did the work and its answer was lost, and the retries end
\* in AlreadyExists, which the loop does not take for success, or in other
\* errors.  There are never more than maxRetry retries.
ResultIsHonest ==
  /\ result = "nil" => held
  /\ (result = "err" /\ held) => (earlier \/ lost)
  /\ attempts <= maxRetry + 1

\* The inductive invariant: until the call returns a request is left, and what
\* the agent holds by then it had before or was given without an answer.
IndInv ==
  /\ kind \in {"sched", "queue", "flow"}
  /\ attempts \in 0 .. maxRetry + 1
  /\ held \in BOOLEAN /\ earlier \in BOOLEAN /\ lost \in BOOLEAN
  /\ result \in {"pending", "nil", "err"}
  /\ result = "pending" => attempts <= maxRetry
  /\ IF result = "nil" THEN held ELSE held => earlier \/ lost

\* The call returns.
CallReturns == <>(result # "pending")
=============================================================================
