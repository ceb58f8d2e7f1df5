------------------------------ MODULE BatchedJob ------------------------------
(***************************************************************************)
(* What provisionONUs promises, without its goroutines, counters and       *)
(* wait groups: tasks are launched in batches, a batch is closed, and      *)
(* neither the next batch begins nor the job ends before every task        *)
(* launched so far has finished.                                           *)
(***************************************************************************)
CONSTANT Task

VARIABLES phase, launched, finished

jobVars == <<phase, launched, finished>>

JobTypeOK == /\ phase \in {"launching", "draining", "ended"}
             /\ launched \subseteq Task
             /\ finished \subseteq launched

JobInit == /\ phase = "launching"
           /\ launched = {}
           /\ finished = {}

\* Launching the last task of a batch closes it.
LaunchTask == /\ phase = "launching"
              /\ phase' \in {"launching", "draining"}
              /\ \E t \in launched' \ launched : /\ t \in Task
                                               /\ launched' = launched \cup {t}
              /\ UNCHANGED finished

\* A batch whose last members could not be launched is closed as well.
CloseBatch == /\ phase = "launching"
              /\ phase' = "draining"
              /\ UNCHANGED <<launched, finished>>

FinishTask == /\ \E t \in launched \ finished : finished' = finished \cup {t}
              /\ UNCHANGED <<phase, launched>>

NextBatch == /\ phase = "draining"
             /\ finished = launched
             /\ phase' = "launching"
             /\ UNCHANGED <<launched, finished>>

EndJob == /\ phase # "ended"
          /\ finished = launched
          /\ phase' = "ended"
          /\ UNCHANGED <<launched, finished>>

JobNext == LaunchTask \/ CloseBatch \/ FinishTask \/ NextBatch \/ EndJob

JobSpec == JobInit /\ [][JobNext]_jobVars
=============================================================================
