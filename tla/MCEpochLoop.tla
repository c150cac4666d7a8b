---------------------------- MODULE MCEpochLoop ----------------------------
(* Instances of EpochLoop: two uids that get new hotkeys; failing miners and    *)
(* kills; epochs and kills; weights and kills.                                  *)
EXTENDS EpochLoop, TLC

CONSTANTS u1, u2

MCEnvs ==
  LET quiet == [hotkeys |-> (u1 :> 1 @@ u2 :> 0), epochs |-> 0, rewarded |-> {},
                failing |-> {}, pool |-> 0, kill |-> TRUE]
  IN  {[quiet EXCEPT !.hotkeys = (u1 :> 2 @@ u2 :> 1), !.rewarded = {u1, u2}, !.kill = FALSE],
       [quiet EXCEPT !.failing = {u1}],
       [quiet EXCEPT !.epochs = 4],
       [quiet EXCEPT !.pool = 2]}
=============================================================================
