----------------------------- MODULE MerkleTree -----------------------------
(***************************************************************************)
(* The Merkle tree of the commitments (storage/shared/merkle.py).          *)
(*                                                                         *)
(* A hash of a concatenation is the sequence of what is concatenated.  The *)
(* list of leaves and the last level are one list in memory after          *)
(* make_tree, and two after deserialize.                                   *)
(***************************************************************************)
EXTENDS Integers, Sequences, FiniteSets, SequencesExt

CONSTANTS
  Leaf,       \* values of leaves
  MaxLeaves   \* bound: leaves of a tree

ASSUME MerkleTreeAssumption == MaxLeaves \in Nat

VARIABLE tree

Hash(parts) == <<"hash", parts>>

-----------------------------------------------------------------------------
(* Levels, proofs                                                          *)

\* _calculate_next_level: the last node of an odd level goes up as it is.
NextLevel(level) ==
  LET n == Len(level)
  IN  [i \in 1..(n + 1) \div 2 |->
         IF 2 * i <= n THEN Hash(<<level[2 * i - 1], level[2 * i]>>) ELSE level[n]]

\* The leaves, and what one call of _calculate_next_level after the other puts above.
Above(leaves) ==
  LET above[h \in 0..MaxLeaves] == IF h = 0 THEN leaves ELSE NextLevel(above[h - 1])
  IN  above

\* make_tree: the root first, which is the first level with one node.
Levels(leaves) ==
  LET above  == Above(leaves)
      height == CHOOSE h \in 0..MaxLeaves :
                  Len(above[h]) = 1 /\ \A k \in 0..h - 1 : Len(above[k]) > 1
  IN  [x \in 1..height + 1 |-> above[height + 1 - x]]

Root(levels) == levels[1][1]

\* Indices of a leaf and its ancestors, in the order of the levels.
Index(levels, i) ==
  LET at[x \in 1..Len(levels)] ==
        IF x = Len(levels) THEN i ELSE (at[x + 1] + 1) \div 2
  IN  at
IsSolo(level, i) == i = Len(level) /\ i % 2 = 1

\* What get_proof appends for node k of a level.
Sibling(level, k) ==
  IF IsSolo(level, k) THEN <<>>
  ELSE IF k % 2 = 0 THEN <<[side |-> "left", value |-> level[k - 1]]>>
  ELSE <<[side |-> "right", value |-> level[k + 1]]>>

\* get_proof: the proof before the loop reaches a level, from the last level up.
Proofs(levels, i) ==
  LET at == Index(levels, i)
      proof[x \in 1..Len(levels)] ==
        IF x = Len(levels) THEN <<>>
                           ELSE proof[x + 1] \o Sibling(levels[x + 1], at[x + 1])
  IN  proof

Proof(levels, i) == Proofs(levels, i)[1]

\* A bug: every sibling is taken for the right one.
Combine_Right(hash, p) == Hash(<<hash, p.value>>)

\* The hash of a node and its sibling.
Combine(hash, p) ==
  IF p.side = "left" THEN Hash(<<p.value, hash>>) ELSE Hash(<<hash, p.value>>)

\* validate_merkle_proof: proof_hash after each part of the proof.
ProofHash(proof, target) ==
  LET hash[k \in 0..Len(proof)] ==
        IF k = 0 THEN target ELSE Combine(hash[k - 1], proof[k])
  IN  hash

Validates(proof, target, root) == ProofHash(proof, target)[Len(proof)] = root

\* A bug: the update stops at the parent of the leaf.
UpdatePath_Parent(levels, i, value) ==
  LET n    == Len(levels)
      last == ReplaceAt(levels[n], i, value)
      above == NextLevel(last)
  IN  [x \in 1..n |-> IF x = n THEN last ELSE IF x = n - 1 THEN above ELSE levels[x]]

\* What update_leaf puts at place k above a level.
Parent(level, k) ==
  Hash(IF 2 * k <= Len(level) THEN <<level[2 * k - 1], level[2 * k]>> ELSE <<level[2 * k - 1]>>)

\* update_leaf: the levels from the last one up to the root; a node without a right
\* sibling is hashed alone.
Updates(levels, i, value) ==
  LET at == Index(levels, i)
      up[x \in 1..Len(levels)] ==
        IF x = Len(levels) THEN ReplaceAt(levels[x], i, value)
                           ELSE ReplaceAt(levels[x], at[x], Parent(up[x + 1], at[x]))
  IN  up

UpdatePath(levels, i, value) ==
  LET up == Updates(levels, i, value)
  IN  [x \in 1..Len(levels) |-> up[x]]

-----------------------------------------------------------------------------
(* Operations                                                              *)

EmptyTree == [leaves |-> <<>>, levels |-> <<>>, ready |-> FALSE, shared |-> FALSE, solo |-> FALSE]

\* reset_tree.
ResetTree ==
  /\ tree.leaves # <<>>
  /\ tree' = EmptyTree

\* add_leaf: to the last level as well when they are one list.
AddLeaf(value) ==
  /\ Len(tree.leaves) < MaxLeaves
  /\ tree' = [tree EXCEPT
       !.ready = FALSE,
       !.leaves = Append(@, value),
       !.levels = IF tree.shared THEN ReplaceAt(@, Len(@), Append(Last(@), value)) ELSE @]

MakeTree ==
  /\ tree' = IF tree.leaves = <<>>
               THEN [tree EXCEPT !.ready = TRUE]
               ELSE [tree EXCEPT !.ready = TRUE, !.shared = TRUE, !.solo = FALSE,
                                 !.levels = Levels(tree.leaves)]

\* Whether a node on the path has no sibling.
SoloPath(levels, i) == \E x \in 2..Len(levels) : IsSolo(levels[x], Index(levels, i)[x])

\* A tree that is ready without levels is left out: there the code raises a TypeError and
\* changes nothing.
UpdateLeaf(i, value) ==
  /\ tree.ready
  /\ tree.levels # <<>>
  /\ i \in 1..Len(tree.leaves)
  /\ LET levels == UpdatePath(tree.levels, i, value)
     IN  tree' = [tree EXCEPT
           !.levels = levels,
           !.leaves = IF tree.shared THEN Last(levels) ELSE @,
           !.solo   = @ \/ SoloPath(tree.levels, i)]

\* serialize and deserialize.
Reload ==
  /\ tree.shared
  /\ tree' = [tree EXCEPT !.shared = FALSE]

-----------------------------------------------------------------------------
(* Specification                                                           *)

TreeInit == tree = EmptyTree

TreeNext ==
  \/ ResetTree \/ MakeTree \/ Reload
  \/ \E value \in Leaf : AddLeaf(value)
  \/ \E i \in 1..MaxLeaves, value \in Leaf : UpdateLeaf(i, value)

TreeSpec == TreeInit /\ [][TreeNext]_tree

-----------------------------------------------------------------------------
(* Properties                                                              *)

Built == tree.ready /\ tree.levels # <<>>

TreeTypeOK ==
  /\ tree.leaves \in Seq(Leaf) /\ Len(tree.leaves) <= MaxLeaves
  /\ {tree.ready, tree.shared, tree.solo} \subseteq BOOLEAN
  /\ Built => /\ Len(tree.levels[1]) = 1
              /\ Last(tree.levels) \in Seq(Leaf) /\ Len(Last(tree.levels)) = Len(tree.leaves)

\* The proof of every leaf leads to the root, and to no other value at its place. After
\* updates of leaves whose paths have a node without a sibling it still does for the
\* leaves whose paths have none.
ProofsHold ==
  Built =>
    \A i \in 1..Len(tree.leaves), value \in Leaf :
      ~ tree.solo \/ ~ SoloPath(tree.levels, i) =>
        (Validates(Proof(tree.levels, i), value, Root(tree.levels))
           <=> value = Last(tree.levels)[i])

\* An update gives the root that a tree built from the new leaves has, after any number
\* of updates of leaves whose paths have no node without a sibling.
UpdateRebuilds ==
  Built /\ ~ tree.solo => tree.levels = Levels(Last(tree.levels))

=============================================================================
