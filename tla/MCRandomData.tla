---------------------------- MODULE MCRandomData ----------------------------
(* Instances of RandomData.  Two miners without chunks under the script;        *)
(* one miner with chunks of the API node, and kills; the same with the  *)
(* script, where the only random data is that of a failed rebalance.           *)
EXTENDS RandomData, TLC

CONSTANTS m1, m2, r1, c1

MCEnvs ==
  {[neurons |-> {m1, m2}, data |-> {r1}, others |-> {"script"}],
   [neurons |-> {m1}, data |-> {r1, c1}, others |-> {"api", "kill"}],
   [neurons |-> {m1}, data |-> {c1}, others |-> {"api", "script"}]}
=============================================================================
