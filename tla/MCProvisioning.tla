--------------------------- MODULE MCProvisioning ---------------------------
(* Instances of Provisioning for TLC. *)
EXTENDS Provisioning

Config(n, p, s) == [numOfOnu |-> n, ponPorts |-> p, subscribersPerOnu |-> s]

\* Two rejected configurations, one batch of two ONUs, two batches of two ONUs,
\* and two batches on a single PON.
HostileConfigs ==
  {Config(3, 1, 1), Config(1, 2, 1), Config(2, 2, 2), Config(4, 2, 1), Config(2, 1, 1)}

\* Every number of ONUs up to 16 and some larger ones, on up to nine PON ports.
ManyConfigs == {Config(n, p, 1) : n \in (0 .. 16) \cup {32, 64, 128}, p \in 1 .. 9}

OneOnu == {Config(1, 1, 1)}

ThreeIds == 1 .. 3
TwoLeftovers == {{}, {2}}
=============================================================================
