----------------------------- MODULE Indications -----------------------------
(***************************************************************************)
(* readIndications (core/olt_manager.go): the stream of indications of the *)
(* openolt-agent, read until an error; after an end of file it is enabled  *)
(* again, with the exponential backoff of the vendored backoff library in  *)
(* between.  handleIndication only logs.                                   *)
(***************************************************************************)
EXTENDS Integers

CONSTANTS
  InitialInterval,  \* DefaultInitialInterval, in microseconds
  MaxInterval,      \* indicationBackoff.MaxInterval, in microseconds
  EnableAnswers,    \* what EnableIndication may answer: "ok", "error", "nil"
  MaxEofs           \* bound on the ends of file of a behaviour

ASSUME IntervalAssumption ==
  InitialInterval \in Nat \ {0} /\ MaxInterval \in Nat /\ InitialInterval <= MaxInterval
ASSUME EnableAnswersAssumption == EnableAnswers \subseteq {"ok", "error", "nil"}
ASSUME MaxEofsAssumption == MaxEofs \in Nat

VARIABLES
  pc,               \* where the reader is
  endedBy,          \* what ended it
  currentInterval,  \* of indicationBackoff
  sleep,            \* the interval around which the reader last drew its time to sleep
  outage,           \* ends of file since the last indication
  eofs              \* ends of file so far

vars == <<pc, endedBy, currentInterval, sleep, outage, eofs>>

\* incrementCurrentInterval, with the Multiplier 1.5.
Increment(interval) ==
  IF 3 * interval >= 2 * MaxInterval THEN MaxInterval ELSE (3 * interval) \div 2

Init ==
  /\ pc = "enable"
  /\ endedBy = "none"
  /\ currentInterval = InitialInterval
  /\ sleep = 0
  /\ outage = 0
  /\ eofs = 0

\* The first EnableIndication; an error or a nil stream ends the reader.
EnableIndication ==
  /\ pc = "enable"
  /\ \E answer \in EnableAnswers :
       \/ answer = "ok" /\ pc' = "recv" /\ UNCHANGED endedBy
       \/ answer # "ok" /\ pc' = "ended" /\ endedBy' = "enable"
  /\ UNCHANGED <<currentInterval, sleep, outage, eofs>>

\* Mutant: the backoff is not reset.
Recv_NoReset ==
  /\ pc = "recv"
  /\ outage' = 0
  /\ UNCHANGED <<pc, endedBy, currentInterval, sleep, eofs>>

\* An indication is received: the backoff is reset.
Recv ==
  /\ pc = "recv"
  /\ currentInterval' = InitialInterval
  /\ outage' = 0
  /\ UNCHANGED <<pc, endedBy, sleep, eofs>>

\* An end of file: NextBackOff is called twice, for the comparison with Stop,
\* which it never returns as MaxElapsedTime is 0, and for the time to sleep.
RecvEof ==
  /\ pc = "recv"
  /\ eofs < MaxEofs
  /\ pc' = "sleep"
  /\ sleep' = Increment(currentInterval)
  /\ currentInterval' = Increment(Increment(currentInterval))
  /\ outage' = outage + 1
  /\ eofs' = eofs + 1
  /\ UNCHANGED endedBy

RecvError ==
  /\ pc = "recv"
  /\ pc' = "ended"
  /\ endedBy' = "recv"
  /\ UNCHANGED <<currentInterval, sleep, outage, eofs>>

Sleep ==
  /\ pc = "sleep"
  /\ pc' = "enable again"
  /\ UNCHANGED <<endedBy, currentInterval, sleep, outage, eofs>>

\* EnableIndication after an end of file; an error ends the reader, and a nil
\* stream, which is not looked for here, the process.
EnableAgain ==
  /\ pc = "enable again"
  /\ \E answer \in EnableAnswers :
       \/ answer = "ok" /\ pc' = "recv" /\ UNCHANGED endedBy
       \/ answer = "error" /\ pc' = "ended" /\ endedBy' = "enable again"
       \/ answer = "nil" /\ pc' = "ended" /\ endedBy' = "panic"
  /\ UNCHANGED <<currentInterval, sleep, outage, eofs>>

Ended == pc = "ended" /\ UNCHANGED vars

Next ==
  \/ EnableIndication \/ Recv \/ RecvEof \/ RecvError \/ Sleep \/ EnableAgain
  \/ Ended

Spec == Init /\ [][Next]_vars

-----------------------------------------------------------------------------
(* Properties. *)

\* The intervals of a backoff, from one reset on.
Backoff[n \in Nat] == IF n = 0 THEN InitialInterval ELSE Increment(Backoff[n - 1])

\* How long the reader sleeps depends only on the ends of file since the last
\* indication: every other interval of the backoff, as each takes two, and
\* nothing of an earlier outage is left once an indication has come through.
\* The interval reaches MaxInterval and never passes it.
SleepFollowsOutage ==
  /\ pc = "sleep" => sleep = Backoff[2 * outage - 1]
  /\ sleep <= MaxInterval

\* The backoff itself follows the outage too: two intervals for each end of file.
IndInv ==
  /\ pc \in {"enable", "recv", "sleep", "enable again", "ended"}
  /\ currentInterval \in Nat /\ sleep \in Nat /\ outage \in Nat /\ eofs \in Nat
  /\ outage <= eofs /\ eofs <= MaxEofs
  /\ currentInterval = Backoff[2 * outage]
  /\ pc = "sleep" => outage # 0
  /\ SleepFollowsOutage

\* "so that we will continue to retry": no attempt to enable the indications
\* again ends the reader.
ContinuesToRetry == endedBy # "enable again"
=============================================================================
