------------------------------ MODULE MCStartup ------------------------------
(* Instances of Startup for TLC. *)
EXTENDS Startup, TLC

Device(rangeTech, workflow, tps, old) ==
  [ponPorts |-> Cardinality(DOMAIN rangeTech), technology |-> "XGS-PON", rangeTech |-> rangeTech,
   workflow |-> workflow, tpIDsString |-> tps, old |-> old, agentUp |-> TRUE, accepted |-> TRUE,
   batches |-> 1, subs |-> {1, 2}]

OnePon == (0 :> "XGS-PON")
TwoPons == (0 :> "XGS-PON" @@ 1 :> "XGS-PON")
NoPons == [p \in {} |-> "none"]
Healthy64 == Device(TwoPons, "TT", <<64>>, {})

\* A healthy device with two profiles, one of them left by an earlier run; ranges of
\* another technology, under which there is a profile of an earlier run or none; one
\* EPON range, one PON in no range, no PONs; more batches than PONs, and as many; a
\* workflow that is not supported; no TP id; an agent that is away; a number of ONUs
\* that is not accepted.
MCScenarios ==
  {Device(TwoPons, "TT", <<64, NotANumber, 65>>, {<<"XGS-PON", 64>>}),
   Device((0 :> "XGS-PON" @@ 1 :> "GPON"), "ATT", <<64>>, {<<"XGS-PON", 64>>, <<"GPON", 64>>}),
   Device((0 :> "GPON"), "DT", <<64>>, {<<"XGS-PON", 64>>, <<"GPON", 65>>}),
   Device((0 :> "EPON"), "ATT", <<64>>, {}),
   Device((0 :> "XGS-PON" @@ 1 :> "none"), "DT", <<64>>, {}),
   Device(NoPons, "TT", <<64>>, {}),
   [Device(OnePon, "TT", <<64>>, {}) EXCEPT !.batches = 2],
   [Healthy64 EXCEPT !.batches = 2, !.subs = {1}],
   Device(TwoPons, "other", <<64>>, {}),
   Device(TwoPons, "TT", <<NotANumber>>, {}),
   [Healthy64 EXCEPT !.agentUp = FALSE],
   [Healthy64 EXCEPT !.accepted = FALSE]}
=============================================================================
