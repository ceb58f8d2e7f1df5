----------------------------- MODULE MCMulticast -----------------------------
(* Instances of Multicast for TLC. *)
EXTENDS Multicast, TLC

CONSTANTS a, b, c, d

On(pon, onu) == [pon |-> pon, onu |-> onu]
Test(workflow, subs, oldGroups, oldFlows) ==
  [workflow |-> workflow, subs |-> subs, groups |-> oldGroups, flows |-> oldFlows]

\* Two ONUs on PON 0 and one on each of two more PONs, so that a PON can be
\* passed over; two subscribers that set the same group; an agent that still
\* holds a group and a flow; a workflow without multicast.
MCScenarios ==
  {Test("TT", a :> On(0, 1) @@ b :> On(0, 2) @@ c :> On(1, 1) @@ d :> On(2, 1), {}, {}),
   Test("TT", a :> On(0, 1) @@ b :> On(0, 1) @@ c :> On(1, 1), {}, {}),
   Test("TT", a :> On(0, 1) @@ b :> On(1, 1) @@ c :> On(1, 2), {1}, {2}),
   Test("DT", a :> On(0, 1) @@ b :> On(1, 1), {}, {})}
=============================================================================
