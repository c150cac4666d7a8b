--------------------------- MODULE MCSequential ---------------------------
(* One component at a time, the others at rest.                             *)
EXTENDS Distribution, MerkleTree, Rewards, Admission, Client, TLC

CONSTANTS m1, m2, m3,   \* miners
          h1, h2, h3   \* callers

MCMetagraphs ==
  LET Up     == [serving |-> TRUE, permit |-> FALSE, stake |-> 0]
      Down   == [serving |-> FALSE, permit |-> FALSE, stake |-> 0]
      Permit == [serving |-> TRUE, permit |-> TRUE, stake |-> 1]
      Heavy  == [serving |-> TRUE, permit |-> TRUE, stake |-> 2]
  IN  {0 :> Up @@ 1 :> Permit @@ 2 :> Up @@ 3 :> Up, 0 :> Up @@ 1 :> Heavy @@ 2 :> Up @@ 3 :> Down}

MCRounds == {<<m1>>, <<m2, m1>>, <<m1, m3>>}

\* Client is the only module that has these sets, and it makes no difference in them.
Symmetry == Permutations(Process) \cup Permutations(Node) \cup Permutations(Cid)

\* The component that moves.
VARIABLE turn

vars == <<plan, tree, rew, gate, client, turn>>

Init ==
  /\ PlanInit /\ TreeInit /\ RewInit /\ GateInit /\ ClientInit
  /\ turn \in {"plan", "tree", "rew", "gate", "client"}

Next ==
  \/ turn = "plan"   /\ PlanNext   /\ UNCHANGED <<tree, rew, gate, client, turn>>
  \/ turn = "tree"   /\ TreeNext   /\ UNCHANGED <<plan, rew, gate, client, turn>>
  \/ turn = "rew"    /\ RewNext    /\ UNCHANGED <<plan, tree, gate, client, turn>>
  \/ turn = "gate"   /\ GateNext   /\ UNCHANGED <<plan, tree, rew, client, turn>>
  \/ turn = "client" /\ ClientNext /\ UNCHANGED <<plan, tree, rew, gate, turn>>

Spec == Init /\ [][Next]_vars

-----------------------------------------------------------------------------
\* The type invariants of the five components.
TypeOK == PlanTypeOK /\ TreeTypeOK /\ RewTypeOK /\ GateTypeOK /\ ClientTypeOK
=============================================================================
