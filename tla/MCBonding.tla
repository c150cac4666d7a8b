----------------------------- MODULE MCBonding -----------------------------
(***************************************************************************)
(* Small instances of Bonding: two tiers above Bronze, reached with one    *)
(* and two successes.                                                      *)
(***************************************************************************)
EXTENDS Bonding, TLC

CONSTANTS u1, u2

Score12 == <<55, 60>>
Total12 == <<1, 2>>

\* A registered row under calls that overlap; any other one, and registrations,
\* under calls that do not.
MCSettings ==
  {[start |-> "registered", shared |-> TRUE, registers |-> FALSE],
   [start |-> "none", shared |-> FALSE, registers |-> TRUE],
   [start |-> "legacy", shared |-> FALSE, registers |-> TRUE]}

Processes == Permutations(Updater)
=============================================================================
