------------------------------ MODULE MCMiner ------------------------------
(***************************************************************************)
(* Small instances of Miner.  Two callers, v and w, and one or two hashes. *)
(***************************************************************************)
EXTENDS Miner, TLC

CONSTANTS v, w, h1, h2, r1, r2

Both == {v, w}

\* A legacy row of v, which v stores again and w reads.
UseV      == h1 :> {v}
UseW      == h1 :> {w}
OwnerV    == h1 :> v

\* Two new hashes: both callers use h1, only w uses h2.
MixedUse  == h1 :> Both @@ h2 :> {w}
NoOwners  == h1 :> None @@ h2 :> None

\* The handlers are symmetric in their slots.
Slots == Permutations(Req)
=============================================================================
