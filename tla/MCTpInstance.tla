----------------------------- MODULE MCTpInstance -----------------------------
(* Instances of TpInstance for TLC. *)
EXTENDS TpInstance, TLC

CONSTANTS a, b, c

On(pon, onu) == [pon |-> pon, onu |-> onu]
Dedicated == [type \in Types |-> 0]
All == {"ok", "error", "lost"}

Scenario(subs, control, sharing, taken, answers, initReads) ==
  [subs |-> subs, onuInstance |-> control, numGemPorts |-> 2, sharing |-> sharing,
   end |-> 8, taken |-> taken, answers |-> answers, initReads |-> initReads]

\* Two subscribers of an ONU and one of another PON; two subscribers whatever etcd
\* answers, with six free ids and with three; a single-instance profile.
MCScenarios ==
  {Scenario(a :> On(0, 1) @@ b :> On(0, 1) @@ c :> On(1, 1), "multi-instance", Dedicated, {0}, {"ok"}, {"ok"}),
   Scenario(a :> On(0, 1) @@ b :> On(0, 2), "multi-instance", Dedicated, {0, 2}, All, {"ok"}),
   Scenario(a :> On(0, 1) @@ b :> On(0, 2), "multi-instance", Dedicated, {0, 2, 3, 4, 7}, All, {"ok"}),
   Scenario(a :> On(0, 1) @@ b :> On(0, 1) @@ c :> On(0, 2), "single-instance", Dedicated, {}, {"ok"}, {"ok"})}

\* The device shares the pools of alloc ids between two PONs.
MCSharedScenarios ==
  {Scenario(a :> On(0, 1) @@ b :> On(1, 1), "multi-instance", [alloc |-> 1, gem |-> 0], {}, {"ok"}, {"ok"})}
=============================================================================
