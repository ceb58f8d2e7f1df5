------------------------------ MODULE MCWorkflow ------------------------------
(* Instances of Workflow for TLC. *)
EXTENDS Workflow, TLC

CONSTANTS a, b, c

\* Three subscribers on two PONs; in the long TT workflow one on each PON.
MCScenarios ==
  {[workflow |-> "DT", ponOf |-> (a :> 0 @@ b :> 0 @@ c :> 1)],
   [workflow |-> "ATT", ponOf |-> (a :> 0 @@ b :> 0)],
   [workflow |-> "TT", ponOf |-> (a :> 0 @@ b :> 1)]}

\* A fresh agent, or one that still holds flows of two PONs and of the NNI.
MCLeftovers == {{}, {<<-1, 1>>, <<0, 3>>, <<1, 1>>}}
=============================================================================
