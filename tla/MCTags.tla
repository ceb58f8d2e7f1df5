-------------------------------- MODULE MCTags --------------------------------
(* Instances of Tags for TLC. *)
EXTENDS Tags

\* Two ONUs on one PON and one on another, with two subscribers each; and two
\* ONUs at the edges of the bit fields, with all sixteen UNIs.
MCScenarios ==
  {[workflow |-> w, subscribersPerOnu |-> 2, onus |-> {<<0, 1>>, <<0, 2>>, <<1, 1>>}] :
     w \in {"ATT", "DT", "TT"}}
  \cup
  {[workflow |-> "TT", subscribersPerOnu |-> 16, onus |-> {<<0, 255>>, <<15, 1>>}]}

\* The first batch, and the batch that draws the last serial numbers that differ
\* in their first four characters.
MCSerialsDrawn == {0, 8997}
=============================================================================
