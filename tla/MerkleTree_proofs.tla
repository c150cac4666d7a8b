-------------------------- MODULE MerkleTree_proofs --------------------------
(***************************************************************************)
(* Proofs about MerkleTree, for any leaves and any bound on their number.  *)
(*                                                                         *)
(* An induction over levels or parts of a proof is one over the set of the *)
(* numbers that have been reached (Steps), which LeastNatural allows.      *)
(***************************************************************************)
EXTENDS MerkleTree, FiniteSetTheorems, WellFoundedInduction, TLAPS

\* Of finite sets, some set contains no other: the place of an induction on finite sets.
LEMMA LeastSet ==
  ASSUME NEW S, NEW F \in SUBSET FiniteSubsetsOf(S), F # {}
  PROVE  \E T \in F : \A U \in F : U \subseteq T => U = T
  <1> DEFINE R == StrictSubsetOrdering(S)
  <1>1. IsWellFoundedOn(R, FiniteSubsetsOf(S))
    BY FS_StrictSubsetOrderingWellFounded
  <1>2. \A T, U \in SUBSET S : U \subseteq T /\ U # T => <<U, T>> \in R
    BY DEF StrictSubsetOrdering
  <1>3. F \subseteq SUBSET S
    BY DEF FiniteSubsetsOf
  <1> HIDE DEF R
  <1>4. PICK T \in F : \A U \in F : ~ (<<U, T>> \in R)
    BY <1>1, WFMin
  <1> QED BY <1>2, <1>3, <1>4

\* A set of natural numbers that is not empty has a least one.
LEMMA LeastNatural ==
  ASSUME NEW T \in SUBSET Nat, T # {}
  PROVE  \E x \in T : \A y \in T : x <= y
  <1> DEFINE F == {0..x : x \in T}
  <1>1. F \in SUBSET FiniteSubsetsOf(Nat) /\ F # {}
    <2>1. \A x \in T : 0..x \in SUBSET Nat /\ IsFiniteSet(0..x)
      BY FS_Interval
    <2> QED BY <2>1 DEF FiniteSubsetsOf
  <1> HIDE DEF F
  <1>2. PICK U \in F : \A V \in F : V \subseteq U => V = U
    BY <1>1, LeastSet
  <1>3. PICK x \in T : U = 0..x
    BY DEF F
  <1>4. ASSUME NEW y \in T PROVE x <= y
    <2>1. 0..y \in F
      BY DEF F
    <2>2. SUFFICES ASSUME y < x PROVE FALSE
      OBVIOUS
    <2>3. 0..y \subseteq U /\ x \in U /\ x \notin 0..y
      BY <1>3, <2>2
    <2> QED BY <1>2, <2>1, <2>3
  <1> QED BY <1>4


\* A set that has 0, and with a number below n the next one, has all numbers up to n.
LEMMA Steps ==
  ASSUME NEW n \in Nat, NEW P, 0 \in P, \A k \in 0..n - 1 : k \in P => k + 1 \in P
  PROVE  \A k \in 0..n : k \in P
  <1> SUFFICES ASSUME NEW k \in 0..n, k \notin P PROVE FALSE
    OBVIOUS
  <1>1. PICK T : T = {m \in 0..n : m \notin P} /\ T \in SUBSET Nat /\ T # {}
    <2>1. {m \in 0..n : m \notin P} \in SUBSET Nat
      OBVIOUS
    <2> QED BY <2>1
  <1>2. PICK m \in T : \A y \in T : m <= y
    BY <1>1, LeastNatural
  <1>3. m \in 1..n /\ m - 1 \in 0..n - 1 /\ m - 1 + 1 = m
    BY <1>1, <1>2
  <1>4. m - 1 \in P
    BY <1>1, <1>2, <1>3
  <1> QED BY <1>1, <1>2, <1>3, <1>4


\* The same from n down to 1.
LEMMA StepsDown ==
  ASSUME NEW n \in Nat, NEW P, n \in P, \A x \in 1..n - 1 : x + 1 \in P => x \in P
  PROVE  \A x \in 1..n : x \in P
  <1>1. CASE n = 0
    BY <1>1
  <1>2. CASE n > 0
    <2>1. PICK Q : Q = {k \in 0..n - 1 : n - k \in P}
      OBVIOUS
    <2>2. 0 \in Q
      <3>1. n - 0 = n /\ 0 \in 0..n - 1
        BY <1>2
      <3> QED BY <2>1, <3>1
    <2>3. ASSUME NEW k \in 0..n - 1 - 1, k \in Q PROVE k + 1 \in Q
      <3>1. n - (k + 1) \in 1..n - 1 /\ n - (k + 1) + 1 = n - k /\ k + 1 \in 0..n - 1
        BY <1>2
      <3> QED BY <2>1, <2>3, <3>1
    <2>4. n - 1 \in Nat
      BY <1>2
    <2>5. \A k \in 0..n - 1 : k \in Q
      BY <2>2, <2>3, <2>4, Steps
    <2>6. \A x \in 1..n : n - x \in 0..n - 1 /\ n - (n - x) = x
      OBVIOUS
    <2> QED BY <2>1, <2>5, <2>6
  <1> QED BY <1>1, <1>2

-----------------------------------------------------------------------------
(* Lists                                                                   *)

\* A list, whatever its members are.
IsList(s) == s \in Seq({s[k] : k \in DOMAIN s})

LEMMA SeqFacts ==
  ASSUME NEW S, NEW s \in Seq(S)
  PROVE  Len(s) \in Nat /\ DOMAIN s = 1..Len(s) /\ s = [k \in 1..Len(s) |-> s[k]]
  OBVIOUS

LEMMA ListFacts ==
  ASSUME NEW s, IsList(s)
  PROVE  Len(s) \in Nat /\ DOMAIN s = 1..Len(s) /\ s = [k \in 1..Len(s) |-> s[k]]
  BY SeqFacts DEF IsList

LEMMA MakeList ==
  ASSUME NEW s, NEW n \in Nat, s = [k \in 1..n |-> s[k]]
  PROVE  IsList(s) /\ Len(s) = n
  <1>1. s \in [1..n -> {s[k] : k \in DOMAIN s}]
    OBVIOUS
  <1>2. s \in Seq({s[k] : k \in DOMAIN s})
    BY <1>1
  <1>3. DOMAIN s = 1..n
    OBVIOUS
  <1> QED BY <1>2, <1>3 DEF IsList

\* Lists of the same length with the same members are the same.
LEMMA SameList ==
  ASSUME NEW s, NEW t, IsList(s), IsList(t), Len(s) = Len(t), \A k \in 1..Len(s) : s[k] = t[k]
  PROVE  s = t
  <1>1. Len(s) \in Nat /\ s = [k \in 1..Len(s) |-> s[k]] /\ t = [k \in 1..Len(s) |-> t[k]]
    BY ListFacts
  <1> QED BY <1>1

LEMMA ReplaceFacts ==
  ASSUME NEW s, IsList(s), NEW i \in 1..Len(s), NEW v, NEW t, t = ReplaceAt(s, i, v)
  PROVE  /\ IsList(t) /\ Len(t) = Len(s)
         /\ \A k \in 1..Len(s) : t[k] = IF k = i THEN v ELSE s[k]
  <1>1. Len(s) \in Nat /\ s = [k \in 1..Len(s) |-> s[k]] /\ DOMAIN s = 1..Len(s)
    BY ListFacts
  <1>2. t = [k \in 1..Len(s) |-> IF k = i THEN v ELSE s[k]]
    BY <1>1 DEF ReplaceAt
  <1>3. t = [k \in 1..Len(s) |-> t[k]]
    BY <1>1, <1>2
  <1> QED BY <1>1, <1>2, <1>3, MakeList

\* What \o gives; a name for it keeps the provers from rewriting lists.
Joined(t, s, r) == t = s \o r

LEMMA AppendList ==
  ASSUME NEW s, IsList(s), NEW v, NEW t, Joined(t, s, <<v>>)
  PROVE  /\ IsList(t) /\ Len(t) = Len(s) + 1 /\ t[Len(s) + 1] = v
         /\ \A k \in 1..Len(s) : t[k] = s[k]
  <1>1. PICK S : S = {s[k] : k \in DOMAIN s} \cup {v}
    OBVIOUS
  <1>2. s \in Seq(S) /\ <<v>> \in Seq(S)
    BY <1>1 DEF IsList
  <1>3. t \in Seq(S) /\ Len(t) = Len(s) + 1 /\ Len(s) \in Nat
    BY <1>2 DEF Joined
  <1>4. t[Len(s) + 1] = v /\ \A k \in 1..Len(s) : t[k] = s[k]
    BY <1>2 DEF Joined
  <1>5. t = [k \in 1..Len(t) |-> t[k]]
    BY <1>3, SeqFacts
  <1>6. IsList(t)
    <2>1. Len(t) \in Nat
      BY <1>3
    <2> QED BY <1>5, <2>1, MakeList
  <1> QED BY <1>3, <1>4, <1>6

LEMMA EmptyList == ASSUME NEW s, IsList(s) PROVE IsList(<<>>) /\ Len(<<>>) = 0 /\ s \o <<>> = s
  BY DEF IsList

-----------------------------------------------------------------------------
(* The invariant                                                           *)

\* Each level has half the nodes of the level below, and only the first has one node.
Shaped(levels) ==
  /\ IsList(levels) /\ levels # <<>>
  /\ \A x \in 1..Len(levels) : IsList(levels[x])
  /\ Len(levels[1]) = 1
  /\ \A x \in 1..Len(levels) - 1 :
       Len(levels[x + 1]) > 1 /\ Len(levels[x]) = (Len(levels[x + 1]) + 1) \div 2

\* A node with two children is made from them; this no update disturbs.
Paired(levels) ==
  \A x \in 1..Len(levels) - 1 : \A k \in 1..Len(levels[x]) :
    2 * k <= Len(levels[x + 1]) => levels[x][k] = NextLevel(levels[x + 1])[k]

\* Each level is made from the level below.
Hashed(levels) == \A x \in 1..Len(levels) - 1 : levels[x] = NextLevel(levels[x + 1])

\* The list of leaves, the levels and the flags of a tree.
Sound(leaves, levels, ready, shared, solo) ==
  /\ leaves \in Seq(Leaf) /\ Len(leaves) <= MaxLeaves
  /\ {ready, shared, solo} \subseteq BOOLEAN
  /\ IsList(levels)
  /\ leaves = <<>> => levels = <<>>
  /\ shared => levels # <<>> /\ Last(levels) = leaves
  /\ ready /\ levels # <<>> =>
       /\ Shaped(levels)
       /\ Last(levels) \in Seq(Leaf) /\ Len(Last(levels)) = Len(leaves)
       /\ Paired(levels)
       /\ ~ solo => Hashed(levels)

TreeInv ==
  /\ tree = [leaves |-> tree.leaves, levels |-> tree.levels, ready |-> tree.ready,
             shared |-> tree.shared, solo |-> tree.solo]
  /\ Sound(tree.leaves, tree.levels, tree.ready, tree.shared, tree.solo)

-----------------------------------------------------------------------------
(* Levels                                                                  *)

LEMMA NextLevelFacts ==
  ASSUME NEW level, IsList(level), NEW above, above = NextLevel(level)
  PROVE  /\ IsList(above) /\ Len(above) = (Len(level) + 1) \div 2
         /\ \A k \in 1..Len(above) :
              above[k] = IF 2 * k <= Len(level) THEN Hash(<<level[2 * k - 1], level[2 * k]>>)
                                                ELSE level[Len(level)]
  <1>1. Len(level) \in Nat
    BY ListFacts
  <1>2. PICK n \in Nat : n = (Len(level) + 1) \div 2
    BY <1>1
  <1>3. above = [k \in 1..n |->
                   IF 2 * k <= Len(level) THEN Hash(<<level[2 * k - 1], level[2 * k]>>)
                                          ELSE level[Len(level)]]
    BY <1>2 DEF NextLevel
  <1>4. above = [k \in 1..n |-> above[k]]
    BY <1>3
  <1>5. IsList(above) /\ Len(above) = n
    BY <1>4, MakeList
  <1> QED BY <1>2, <1>3, <1>5

\* The levels above the leaves exist.
LEMMA AboveDefined ==
  ASSUME NEW leaves, NEW above, above = Above(leaves)
  PROVE  /\ above[0] = leaves
         /\ \A h \in 1..MaxLeaves : above[h] = NextLevel(above[h - 1])
  <1> DEFINE Upto(f, n) == f = [h \in 0..n |-> IF h = 0 THEN leaves ELSE NextLevel(f[h - 1])]
  <1>1. PICK P : P = {n \in 0..MaxLeaves : \E f : Upto(f, n)}
    OBVIOUS
  <1>2. 0 \in P
    <2>1. Upto([h \in 0..0 |-> leaves], 0)
      OBVIOUS
    <2>2. 0 \in 0..MaxLeaves
      BY MerkleTreeAssumption
    <2> QED BY <1>1, <2>1, <2>2
  <1>3. ASSUME NEW n \in 0..MaxLeaves - 1, n \in P PROVE n + 1 \in P
    <2>1. PICK f : Upto(f, n)
      BY <1>1, <1>3
    <2>2. PICK g : g = [h \in 0..n + 1 |-> IF h = n + 1 THEN NextLevel(f[n]) ELSE f[h]]
      OBVIOUS
    <2>3. Upto(g, n + 1)
      <3>1. \A h \in 0..n : g[h] = f[h]
        BY <2>2
      <3>2. ASSUME NEW h \in 0..n + 1
            PROVE  g[h] = IF h = 0 THEN leaves ELSE NextLevel(g[h - 1])
        <4>1. CASE h = n + 1
          BY <2>2, <3>1, <4>1
        <4>2. CASE h \in 0..n
          <5>1. h = 0 \/ h - 1 \in 0..n
            BY <4>2
          <5> QED BY <2>1, <3>1, <4>2, <5>1
        <4> QED BY <4>1, <4>2
      <3> QED BY <2>2, <3>2
    <2>4. n + 1 \in 0..MaxLeaves
      BY MerkleTreeAssumption
    <2> QED BY <1>1, <2>3, <2>4
  <1>4. PICK f : Upto(f, MaxLeaves)
    <2>1. MaxLeaves \in P
      BY <1>2, <1>3, Steps, MerkleTreeAssumption
    <2> QED BY <1>1, <2>1
  <1>5. Upto(above, MaxLeaves)
    BY <1>4 DEF Above
  <1>6. 0 \in 0..MaxLeaves /\ \A h \in 1..MaxLeaves : h \in 0..MaxLeaves /\ h # 0
    BY MerkleTreeAssumption
  <1> QED BY <1>5, <1>6

\* Half of a number, rounded up, is less, until it is 1.
LEMMA Halves ==
  ASSUME NEW a \in Nat, a > 0, NEW h \in Nat, NEW n \in Nat, a = 1 \/ a + h <= n,
         NEW b, b = (a + 1) \div 2
  PROVE  b \in Nat /\ b > 0 /\ (b = 1 \/ b + (h + 1) <= n)
  <1>1. b \in Nat /\ b > 0 /\ (a = 1 => b = 1) /\ (a > 1 => b + 1 <= a)
    OBVIOUS
  <1>2. CASE a = 1
    BY <1>1, <1>2
  <1>3. CASE a > 1
    BY <1>1, <1>3
  <1> QED BY <1>2, <1>3

LEMMA MoreThanOne == ASSUME NEW a \in Nat, a > 0, a # 1 PROVE a > 1
  OBVIOUS

\* After as many levels as there are leaves, one has a single node.
LEMMA AboveShrinks ==
  ASSUME NEW leaves, IsList(leaves), Len(leaves) \in 1..MaxLeaves,
         NEW above, above = Above(leaves)
  PROVE  /\ \A h \in 0..MaxLeaves : IsList(above[h]) /\ Len(above[h]) \in Nat /\ Len(above[h]) > 0
         /\ \E h \in 0..MaxLeaves : Len(above[h]) = 1
  <1> DEFINE Small(h) == /\ IsList(above[h]) /\ Len(above[h]) \in Nat /\ Len(above[h]) > 0
                         /\ Len(above[h]) = 1 \/ Len(above[h]) + h <= Len(leaves)
  <1>1. PICK P : P = {h \in 0..MaxLeaves : Small(h)}
    OBVIOUS
  <1>2. above[0] = leaves /\ \A h \in 1..MaxLeaves : above[h] = NextLevel(above[h - 1])
    BY AboveDefined
  <1>3. 0 \in P
    BY <1>1, <1>2, MerkleTreeAssumption
  <1>4. ASSUME NEW h \in 0..MaxLeaves - 1, h \in P PROVE h + 1 \in P
    <2>1. h + 1 \in 1..MaxLeaves /\ h + 1 \in 0..MaxLeaves /\ (h + 1) - 1 = h
      BY MerkleTreeAssumption
    <2>2. above[h + 1] = NextLevel(above[h]) /\ Small(h)
      BY <1>1, <1>2, <1>4, <2>1
    <2>3. IsList(above[h + 1]) /\ Len(above[h + 1]) = (Len(above[h]) + 1) \div 2
      BY <2>2, NextLevelFacts
    <2> HIDE DEF Small
    <2>4. Small(h + 1)
      <3>1. h \in Nat /\ Len(leaves) \in Nat /\ Len(above[h]) \in Nat /\ Len(above[h]) > 0
        BY <2>2, MerkleTreeAssumption DEF Small
      <3>2. Len(above[h]) = 1 \/ Len(above[h]) + h <= Len(leaves)
        BY <2>2 DEF Small
      <3>3. /\ Len(above[h + 1]) \in Nat /\ Len(above[h + 1]) > 0
            /\ Len(above[h + 1]) = 1 \/ Len(above[h + 1]) + (h + 1) <= Len(leaves)
        BY <2>3, <3>1, <3>2, Halves
      <3> QED BY <2>3, <3>3 DEF Small
    <2> QED BY <1>1, <2>1, <2>4
  <1>5. \A h \in 0..MaxLeaves : Small(h)
    BY <1>1, <1>3, <1>4, Steps, MerkleTreeAssumption
  <1>6. Len(above[MaxLeaves]) = 1
    BY <1>5, MerkleTreeAssumption
  <1> QED BY <1>5, <1>6, MerkleTreeAssumption

\* What make_tree builds.
LEMMA LevelsBuilt ==
  ASSUME NEW leaves, IsList(leaves), Len(leaves) \in 1..MaxLeaves,
         NEW levels, levels = Levels(leaves)
  PROVE  Shaped(levels) /\ Hashed(levels) /\ Last(levels) = leaves
  <1>1. PICK above : above = Above(leaves)
    OBVIOUS
  <1>2. /\ above[0] = leaves
        /\ \A h \in 1..MaxLeaves : above[h] = NextLevel(above[h - 1])
    BY <1>1, AboveDefined
  <1>3. /\ \A h \in 0..MaxLeaves : IsList(above[h]) /\ Len(above[h]) \in Nat /\ Len(above[h]) > 0
        /\ \E h \in 0..MaxLeaves : Len(above[h]) = 1
    BY <1>1, AboveShrinks
  <1> DEFINE Top(h) == Len(above[h]) = 1 /\ \A k \in 0..h - 1 : Len(above[k]) > 1
  <1>4. \E h \in 0..MaxLeaves : Top(h)
    <2>1. PICK T \in SUBSET Nat : T = {h \in 0..MaxLeaves : Len(above[h]) = 1} /\ T # {}
      <3>1. {h \in 0..MaxLeaves : Len(above[h]) = 1} \in SUBSET Nat
        BY MerkleTreeAssumption
      <3> QED BY <1>3, <3>1
    <2>2. PICK h \in T : \A y \in T : h <= y
      BY <2>1, LeastNatural
    <2>3. ASSUME NEW k \in 0..h - 1 PROVE Len(above[k]) > 1
      <3>1. h \in 0..MaxLeaves /\ k \in 0..MaxLeaves /\ k \notin T
        BY <2>1, <2>2, MerkleTreeAssumption
      <3>2. Len(above[k]) # 1 /\ Len(above[k]) \in Nat /\ Len(above[k]) > 0
        BY <1>3, <2>1, <3>1
      <3> QED BY <3>2, MoreThanOne
    <2> QED BY <2>1, <2>2, <2>3
  <1>5. PICK n \in 0..MaxLeaves : n = (CHOOSE h \in 0..MaxLeaves : Top(h)) /\ Top(n)
    BY <1>4
  <1>6. levels = [x \in 1..n + 1 |-> above[n + 1 - x]]
    BY <1>1, <1>5 DEF Levels
  <1> HIDE DEF Top
  <1>7. n \in Nat /\ IsList(levels) /\ Len(levels) = n + 1
    <2>1. levels = [x \in 1..n + 1 |-> levels[x]] /\ n + 1 \in Nat
      BY <1>6, MerkleTreeAssumption
    <2> QED BY <2>1, MakeList, MerkleTreeAssumption
  <1>8. ASSUME NEW x \in 1..n + 1
        PROVE  n + 1 - x \in 0..MaxLeaves /\ levels[x] = above[n + 1 - x] /\ IsList(levels[x])
    <2>1. n + 1 - x \in 0..MaxLeaves
      BY MerkleTreeAssumption
    <2> QED BY <1>3, <1>6, <2>1
  <1>9. levels[n + 1] = leaves /\ Len(levels[1]) = 1
    <2>1. 1 \in 1..n + 1 /\ n + 1 \in 1..n + 1 /\ n + 1 - 1 = n /\ n + 1 - (n + 1) = 0
      BY <1>7
    <2> QED BY <1>2, <1>5, <1>8, <2>1 DEF Top
  <1>10. ASSUME NEW x \in 1..n
         PROVE  /\ levels[x] = NextLevel(levels[x + 1])
                /\ Len(levels[x + 1]) > 1 /\ Len(levels[x]) = (Len(levels[x + 1]) + 1) \div 2
    <2>1. /\ x \in 1..n + 1 /\ x + 1 \in 1..n + 1 /\ n + 1 - x \in 1..MaxLeaves
          /\ n + 1 - x - 1 = n + 1 - (x + 1) /\ n + 1 - (x + 1) \in 0..n - 1
      BY <1>7, MerkleTreeAssumption
    <2>2. levels[x] = NextLevel(levels[x + 1]) /\ IsList(levels[x + 1])
      BY <1>2, <1>8, <2>1
    <2>3. Len(levels[x + 1]) > 1
      BY <1>5, <1>8, <2>1 DEF Top
    <2> QED BY <2>2, <2>3, NextLevelFacts
  <1>11. /\ \A x \in 1..Len(levels) : IsList(levels[x])
         /\ levels # <<>> /\ Last(levels) = leaves
         /\ \A x \in 1..Len(levels) - 1 : x \in 1..n
    <2>1. Len(levels) - 1 = n /\ Len(levels) > 0
      BY <1>7
    <2> QED BY <1>7, <1>8, <1>9, <2>1 DEF Last
  <1> QED BY <1>7, <1>9, <1>10, <1>11 DEF Shaped, Hashed

\* No level is empty.
LEMMA ShapedFacts ==
  ASSUME NEW levels, Shaped(levels)
  PROVE  /\ Len(levels) \in Nat /\ Len(levels) > 0
         /\ \A x \in 1..Len(levels) :
              IsList(levels[x]) /\ Len(levels[x]) \in Nat /\ Len(levels[x]) > 0
         /\ \A x \in 1..Len(levels) - 1 :
              Len(levels[x + 1]) > 1 /\ Len(levels[x]) = (Len(levels[x + 1]) + 1) \div 2
  <1>1. Len(levels) \in Nat /\ Len(levels) > 0
    BY ListFacts DEF Shaped, IsList
  <1>2. ASSUME NEW x \in 1..Len(levels)
        PROVE  IsList(levels[x]) /\ Len(levels[x]) \in Nat /\ Len(levels[x]) > 0
    <2>1. IsList(levels[x]) /\ Len(levels[x]) \in Nat
      BY ListFacts DEF Shaped
    <2>2. CASE x = 1
      <3>1. Len(levels[x]) = 1
        BY <2>2 DEF Shaped
      <3> QED BY <2>1, <3>1
    <2>3. CASE x # 1
      <3>1. x - 1 \in 1..Len(levels) - 1 /\ x - 1 + 1 = x
        BY <1>1, <2>3
      <3>2. Len(levels[x]) > 1
        BY <3>1 DEF Shaped
      <3> QED BY <2>1, <3>2
    <2> QED BY <2>2, <2>3
  <1> QED BY <1>1, <1>2 DEF Shaped

\* From the leaves up, trees of the same leaves agree, and neither stops first.
LEMMA NotTaller ==
  ASSUME NEW a, Shaped(a), Hashed(a), NEW b, Shaped(b), Hashed(b), Last(a) = Last(b),
         Len(a) <= Len(b)
  PROVE  a = b
  <1>1. PICK m \in Nat, n \in Nat : m = Len(a) /\ n = Len(b) /\ m > 0 /\ m <= n
    <2>1. Len(a) \in Nat /\ Len(b) \in Nat /\ Len(a) > 0
      BY ShapedFacts
    <2> QED BY <2>1
  <1>2. PICK P : P = {k \in 0..m - 1 : a[m - k] = b[n - k]}
    OBVIOUS
  <1>3. 0 \in P
    BY <1>1, <1>2 DEF Last
  <1>4. ASSUME NEW k \in 0..m - 1 - 1, k \in P PROVE k + 1 \in P
    <2>1. /\ m - (k + 1) \in 1..m - 1 /\ n - (k + 1) \in 1..n - 1 /\ k + 1 \in 0..m - 1
          /\ m - (k + 1) + 1 = m - k /\ n - (k + 1) + 1 = n - k
      BY <1>1
    <2>2. a[m - (k + 1)] = NextLevel(a[m - k]) /\ b[n - (k + 1)] = NextLevel(b[n - k])
      BY <1>1, <2>1 DEF Hashed
    <2> QED BY <1>2, <1>4, <2>1, <2>2
  <1>5. m - 1 \in Nat
    BY <1>1
  <1>6. \A k \in 0..m - 1 : a[m - k] = b[n - k]
    BY <1>2, <1>3, <1>4, <1>5, Steps
  <1>7. m = n
    <2>1. SUFFICES ASSUME m < n PROVE FALSE
      BY <1>1
    <2>2. n - m \in 1..n - 1 /\ n - (m - 1) = n - m + 1 /\ m - (m - 1) = 1 /\ m - 1 \in 0..m - 1
      BY <1>1, <2>1
    <2>3. a[1] = b[n - m + 1]
      BY <1>6, <2>2
    <2>4. Len(b[n - m + 1]) > 1 /\ Len(a[1]) = 1
      BY <1>1, <2>2 DEF Shaped
    <2> QED BY <2>3, <2>4
  <1>8. ASSUME NEW x \in 1..m PROVE a[x] = b[x]
    <2>1. m - x \in 0..m - 1 /\ m - (m - x) = x
      BY <1>1
    <2> QED BY <1>6, <1>7, <2>1
  <1> QED BY <1>1, <1>7, <1>8, SameList DEF Shaped

LEMMA OneTree ==
  ASSUME NEW a, Shaped(a), Hashed(a), NEW b, Shaped(b), Hashed(b), Last(a) = Last(b)
  PROVE  a = b
  <1>1. Len(a) \in Nat /\ Len(b) \in Nat
    BY ListFacts DEF Shaped
  <1>2. Len(a) <= Len(b) \/ Len(b) <= Len(a)
    BY <1>1
  <1> QED BY <1>2, NotTaller

-----------------------------------------------------------------------------
(* The path from a leaf to the root                                        *)

\* The places of a leaf and its ancestors.
LEMMA IndexDefined ==
  ASSUME NEW levels, NEW n \in Nat, n = Len(levels), n > 0, NEW i, NEW at, at = Index(levels, i)
  PROVE  /\ at[n] = i
         /\ \A x \in 1..n - 1 : at[x] = (at[x + 1] + 1) \div 2
  <1> DEFINE From(f, m) == f = [x \in m..n |-> IF x = n THEN i ELSE (f[x + 1] + 1) \div 2]
  <1>1. PICK P : P = {m \in 1..n : \E f : From(f, m)}
    OBVIOUS
  <1>2. n \in P
    <2>1. PICK f : f = [x \in n..n |-> i]
      OBVIOUS
    <2>2. From(f, n) /\ n \in 1..n
      BY <2>1
    <2> HIDE DEF From
    <2> QED BY <1>1, <2>2
  <1>3. ASSUME NEW m \in 1..n - 1, m + 1 \in P PROVE m \in P
    <2>1. PICK f : From(f, m + 1)
      BY <1>1, <1>3
    <2>2. PICK g : g = [x \in m..n |-> IF x = m THEN (f[m + 1] + 1) \div 2 ELSE f[x]]
      OBVIOUS
    <2>3. \A x \in m + 1..n : x \in m..n /\ x # m /\ (x = n \/ x + 1 \in m + 1..n)
      OBVIOUS
    <2>4. \A x \in m + 1..n : g[x] = f[x]
      BY <2>2, <2>3
    <2>5. ASSUME NEW x \in m..n
          PROVE  g[x] = IF x = n THEN i ELSE (g[x + 1] + 1) \div 2
      <3>1. CASE x = m
        <4>1. m + 1 \in m + 1..n /\ m # n /\ m \in m..n
          OBVIOUS
        <4> QED BY <2>2, <2>4, <3>1, <4>1
      <3>2. CASE x \in m + 1..n
        BY <2>1, <2>3, <2>4, <3>2
      <3> QED BY <3>1, <3>2
    <2>6. From(g, m) /\ m \in 1..n
      BY <2>2, <2>5
    <2> HIDE DEF From
    <2> QED BY <1>1, <2>6
  <1>4. PICK f : From(f, 1)
    <2>1. 1 \in P
      BY <1>2, <1>3, StepsDown
    <2> HIDE DEF From
    <2> QED BY <1>1, <2>1
  <1>5. From(at, 1)
    BY <1>4 DEF Index
  <1>6. n \in 1..n /\ \A x \in 1..n - 1 : x \in 1..n /\ x # n
    OBVIOUS
  <1> QED BY <1>5, <1>6

\* The parent of a node that has a sibling has two children.
LEMMA TwoChildren ==
  ASSUME NEW n \in Nat, NEW k \in 1..n, k # n \/ k % 2 # 1
  PROVE  2 * ((k + 1) \div 2) <= n
  <1>1. k < n \/ k % 2 = 0
    OBVIOUS
  <1>2. k % 2 = 0 => 2 * ((k + 1) \div 2) = k
    OBVIOUS
  <1>3. 2 * ((k + 1) \div 2) <= k + 1
    OBVIOUS
  <1> QED BY <1>1, <1>2, <1>3

LEMMA HalfInside ==
  ASSUME NEW n \in Nat, NEW k \in 1..n
  PROVE  (k + 1) \div 2 \in 1..((n + 1) \div 2)
  <1>1. PICK a \in Int : a = (k + 1) \div 2
    OBVIOUS
  <1>2. PICK b \in Int : b = (n + 1) \div 2
    OBVIOUS
  <1>3. 1 <= a /\ a <= b
    BY <1>1, <1>2
  <1> QED BY <1>1, <1>2, <1>3

\* They are places of the levels.
LEMMA IndexInside ==
  ASSUME NEW levels, Shaped(levels), NEW n \in Nat, n = Len(levels),
         NEW i \in 1..Len(levels[n]), NEW at, at = Index(levels, i)
  PROVE  /\ at[n] = i /\ \A x \in 1..n - 1 : at[x] = (at[x + 1] + 1) \div 2
         /\ \A x \in 1..n : at[x] \in 1..Len(levels[x])
  <1>1. /\ n > 0
        /\ \A x \in 1..n : Len(levels[x]) \in Nat
        /\ \A x \in 1..n - 1 : Len(levels[x]) = (Len(levels[x + 1]) + 1) \div 2
    BY ShapedFacts
  <1>2. at[n] = i /\ \A x \in 1..n - 1 : at[x] = (at[x + 1] + 1) \div 2
    BY <1>1, IndexDefined
  <1>3. PICK P : P = {x \in 1..n : at[x] \in 1..Len(levels[x])}
    OBVIOUS
  <1>4. n \in P
    BY <1>1, <1>2, <1>3
  <1>5. ASSUME NEW x \in 1..n - 1, x + 1 \in P PROVE x \in P
    <2>1. x \in 1..n /\ x + 1 \in 1..n
      OBVIOUS
    <2>2. PICK below \in Nat, k \in Nat :
            below = Len(levels[x + 1]) /\ k = at[x + 1] /\ k \in 1..below
      <3>1. at[x + 1] \in 1..Len(levels[x + 1]) /\ Len(levels[x + 1]) \in Nat
        BY <1>1, <1>3, <1>5, <2>1
      <3> QED BY <3>1
    <2>3. at[x] = (k + 1) \div 2 /\ Len(levels[x]) = (below + 1) \div 2
      BY <1>1, <1>2, <2>2
    <2>4. (k + 1) \div 2 \in 1..((below + 1) \div 2)
      BY <2>2, HalfInside
    <2> QED BY <1>3, <2>1, <2>3, <2>4
  <1>6. \A x \in 1..n : x \in P
    BY <1>4, <1>5, StepsDown
  <1> QED BY <1>2, <1>3, <1>6

\* What get_proof has appended before each level.
Gathered(proof, levels, at, n) ==
  /\ proof[n] = <<>>
  /\ \A x \in 1..n - 1 : Joined(proof[x], proof[x + 1], Sibling(levels[x + 1], at[x + 1]))

LEMMA ProofsDefined ==
  ASSUME NEW levels, NEW n \in Nat, n = Len(levels), n > 0, NEW i,
         NEW at, at = Index(levels, i), NEW proof, proof = Proofs(levels, i)
  PROVE  Gathered(proof, levels, at, n)
  <1> DEFINE From(f, m) == f = [x \in m..n |->
                             IF x = n THEN <<>>
                             ELSE f[x + 1] \o Sibling(levels[x + 1], at[x + 1])]
  <1>1. PICK P : P = {m \in 1..n : \E f : From(f, m)}
    OBVIOUS
  <1>2. n \in P
    <2>1. PICK f : f = [x \in n..n |-> <<>>]
      OBVIOUS
    <2>2. From(f, n) /\ n \in 1..n
      BY <2>1
    <2> HIDE DEF From
    <2> QED BY <1>1, <2>2
  <1>3. ASSUME NEW m \in 1..n - 1, m + 1 \in P PROVE m \in P
    <2>1. PICK f : From(f, m + 1)
      BY <1>1, <1>3
    <2>2. PICK s : s = f[m + 1] \o Sibling(levels[m + 1], at[m + 1])
      OBVIOUS
    <2>3. PICK g : g = [x \in m..n |-> IF x = m THEN s ELSE f[x]]
      OBVIOUS
    <2>4. \A x \in m + 1..n : x \in m..n /\ x # m /\ (x = n \/ x + 1 \in m + 1..n)
      OBVIOUS
    <2>5. \A x \in m + 1..n : g[x] = f[x]
      BY <2>3, <2>4
    <2>6. ASSUME NEW x \in m..n
          PROVE  g[x] = IF x = n THEN <<>>
                        ELSE g[x + 1] \o Sibling(levels[x + 1], at[x + 1])
      <3>1. CASE x = m
        <4>1. m + 1 \in m + 1..n /\ m # n /\ m \in m..n
          OBVIOUS
        <4>2. g[m] = s /\ g[m + 1] = f[m + 1]
          BY <2>3, <2>5, <4>1
        <4> QED BY <2>2, <3>1, <4>1, <4>2
      <3>2. CASE x \in m + 1..n
        BY <2>1, <2>4, <2>5, <3>2
      <3> QED BY <3>1, <3>2
    <2>7. From(g, m) /\ m \in 1..n
      BY <2>3, <2>6
    <2> HIDE DEF From
    <2> QED BY <1>1, <2>7
  <1>4. PICK f : From(f, 1)
    <2>1. 1 \in P
      BY <1>2, <1>3, StepsDown
    <2> HIDE DEF From
    <2> QED BY <1>1, <2>1
  <1>5. From(proof, 1)
    BY <1>4 DEF Proofs
  <1>6. n \in 1..n /\ \A x \in 1..n - 1 : x \in 1..n /\ x # n
    OBVIOUS
  <1> QED BY <1>5, <1>6 DEF Gathered, Joined

\* What validate_merkle_proof has after each part of the proof.
LEMMA HashDefined ==
  ASSUME NEW proof, NEW n \in Nat, n = Len(proof), NEW target,
         NEW hash, hash = ProofHash(proof, target)
  PROVE  hash[0] = target /\ \A k \in 1..n : hash[k] = Combine(hash[k - 1], proof[k])
  <1> DEFINE Upto(f, m) == f = [k \in 0..m |->
                             IF k = 0 THEN target ELSE Combine(f[k - 1], proof[k])]
  <1>1. PICK P : P = {m \in 0..n : \E f : Upto(f, m)}
    OBVIOUS
  <1>2. 0 \in P
    <2>1. PICK f : f = [k \in 0..0 |-> target]
      OBVIOUS
    <2>2. Upto(f, 0) /\ 0 \in 0..n
      BY <2>1
    <2> HIDE DEF Upto
    <2> QED BY <1>1, <2>2
  <1>3. ASSUME NEW m \in 0..n - 1, m \in P PROVE m + 1 \in P
    <2>1. PICK f : Upto(f, m)
      BY <1>1, <1>3
    <2>2. PICK h : h = Combine(f[m], proof[m + 1])
      OBVIOUS
    <2>3. PICK g : g = [k \in 0..m + 1 |-> IF k = m + 1 THEN h ELSE f[k]]
      OBVIOUS
    <2>4. \A k \in 0..m : g[k] = f[k]
      BY <2>3
    <2>5. ASSUME NEW k \in 0..m + 1
          PROVE  g[k] = IF k = 0 THEN target ELSE Combine(g[k - 1], proof[k])
      <3>1. CASE k = m + 1
        <4>1. m \in 0..m /\ m + 1 - 1 = m /\ m + 1 # 0 /\ m + 1 \in 0..m + 1
          OBVIOUS
        <4>2. g[m + 1] = h /\ g[m] = f[m]
          BY <2>3, <2>4, <4>1
        <4> QED BY <2>2, <3>1, <4>1, <4>2
      <3>2. CASE k \in 0..m
        <4>1. k = 0 \/ k - 1 \in 0..m
          BY <3>2
        <4> QED BY <2>1, <2>4, <3>2, <4>1
      <3> QED BY <3>1, <3>2
    <2>6. Upto(g, m + 1) /\ m + 1 \in 0..n
      BY <2>3, <2>5
    <2> HIDE DEF Upto
    <2> QED BY <1>1, <2>6
  <1>4. PICK f : Upto(f, n)
    <2>1. n \in P
      BY <1>2, <1>3, Steps
    <2> HIDE DEF Upto
    <2> QED BY <1>1, <2>1
  <1>5. Upto(hash, n)
    BY <1>4 DEF ProofHash
  <1>6. 0 \in 0..n /\ \A k \in 1..n : k \in 0..n /\ k # 0
    OBVIOUS
  <1> QED BY <1>5, <1>6

-----------------------------------------------------------------------------
(* Proofs lead to the root                                                 *)

LEMMA HashInjective ==
  ASSUME NEW a, NEW b, NEW c, NEW d
  PROVE  Hash(<<a, b>>) = Hash(<<c, d>>) <=> a = c /\ b = d
  BY DEF Hash

\* What a proof makes of a value.
HashOf(proof, target) == ProofHash(proof, target)[Len(proof)]

LEMMA HashOfNone == ASSUME NEW t PROVE HashOf(<<>>, t) = t
  <1>1. Len(<<>>) = 0
    OBVIOUS
  <1> QED BY <1>1, HashDefined DEF HashOf

\* Another part hashes what the parts before it made.
LEMMA HashOfAppend ==
  ASSUME NEW p, IsList(p), NEW e, NEW q, Joined(q, p, <<e>>), NEW t
  PROVE  HashOf(q, t) = Combine(HashOf(p, t), e)
  <1>1. PICK n \in Nat : n = Len(p)
    BY ListFacts
  <1>2. n + 1 \in Nat /\ Len(q) = n + 1 /\ q[n + 1] = e /\ \A k \in 1..n : q[k] = p[k]
    BY <1>1, AppendList
  <1>3. PICK f : f = ProofHash(p, t)
    OBVIOUS
  <1>4. PICK g : g = ProofHash(q, t)
    OBVIOUS
  <1>5. f[0] = t /\ \A k \in 1..n : f[k] = Combine(f[k - 1], p[k])
    BY <1>1, <1>3, HashDefined
  <1>6. g[0] = t /\ \A k \in 1..n + 1 : g[k] = Combine(g[k - 1], q[k])
    <2>1. PICK m \in Nat : m = n + 1
      BY <1>2
    <2>2. m = Len(q)
      BY <1>2, <2>1
    <2>3. g[0] = t /\ \A k \in 1..m : g[k] = Combine(g[k - 1], q[k])
      BY <1>4, <2>2, HashDefined
    <2> QED BY <2>1, <2>3
  <1>7. PICK P : P = {k \in 0..n : g[k] = f[k]}
    OBVIOUS
  <1>8. 0 \in P
    BY <1>5, <1>6, <1>7
  <1>9. ASSUME NEW k \in 0..n - 1, k \in P PROVE k + 1 \in P
    <2>1. k + 1 \in 1..n /\ k + 1 \in 1..n + 1 /\ k + 1 - 1 = k /\ k + 1 \in 0..n
      OBVIOUS
    <2> QED BY <1>2, <1>5, <1>6, <1>7, <1>9, <2>1
  <1>10. n \in P
    <2>1. \A k \in 0..n : k \in P
      BY <1>8, <1>9, Steps
    <2> QED BY <2>1
  <1>11. n + 1 \in 1..n + 1 /\ n + 1 - 1 = n
    OBVIOUS
  <1>12. g[n + 1] = Combine(f[n], e)
    BY <1>2, <1>6, <1>7, <1>10, <1>11
  <1> QED BY <1>1, <1>2, <1>3, <1>4, <1>12 DEF HashOf

LeftPart(v) == [side |-> "left", value |-> v]
RightPart(v) == [side |-> "right", value |-> v]

LEMMA HashOfLeft ==
  ASSUME NEW p, IsList(p), NEW v, NEW q, Joined(q, p, <<LeftPart(v)>>), NEW t
  PROVE  HashOf(q, t) = Hash(<<v, HashOf(p, t)>>)
  <1>1. PICK x : x = HashOf(p, t)
    OBVIOUS
  <1>2. PICK e : e = LeftPart(v)
    OBVIOUS
  <1>3. Combine(x, e) = Hash(<<v, x>>)
    BY <1>2 DEF Combine, LeftPart
  <1>4. HashOf(q, t) = Combine(x, e)
    BY <1>1, <1>2, HashOfAppend
  <1> QED BY <1>1, <1>3, <1>4

LEMMA HashOfRight ==
  ASSUME NEW p, IsList(p), NEW v, NEW q, Joined(q, p, <<RightPart(v)>>), NEW t
  PROVE  HashOf(q, t) = Hash(<<HashOf(p, t), v>>)
  <1>1. PICK x : x = HashOf(p, t)
    OBVIOUS
  <1>2. PICK e : e = RightPart(v)
    OBVIOUS
  <1>3. Combine(x, e) = Hash(<<x, v>>)
    BY <1>2 DEF Combine, RightPart
  <1>4. HashOf(q, t) = Combine(x, e)
    BY <1>1, <1>2, HashOfAppend
  <1> QED BY <1>1, <1>3, <1>4

\* With the sibling of a node, the hash of the node gives that of the parent, and nothing
\* else does.
SameAim(q, w, p, v, t) == IsList(q) /\ ((HashOf(q, t) = w) <=> (HashOf(p, t) = v))

LEMMA Climb ==
  ASSUME NEW level, IsList(level), NEW n \in Nat, n = Len(level), NEW k \in 1..n,
         NEW above, above = NextLevel(level), NEW j, j = (k + 1) \div 2,
         NEW p, IsList(p), NEW q, Joined(q, p, Sibling(level, k)), NEW t
  PROVE  SameAim(q, above[j], p, level[k], t)
  <1>1. PICK m \in Nat : /\ m = Len(above) /\ m = (n + 1) \div 2
                         /\ \A x \in 1..m : above[x] =
                              IF 2 * x <= n THEN Hash(<<level[2 * x - 1], level[2 * x]>>)
                                            ELSE level[n]
    <2>1. IsList(above) /\ Len(above) \in Nat
      BY NextLevelFacts, ListFacts
    <2> QED BY <2>1, NextLevelFacts
  <1>2. j \in 1..m
    BY <1>1, HalfInside
  <1>3. CASE IsSolo(level, k)
    <2>1. k = n /\ k % 2 = 1 /\ 2 * j = k + 1
      BY <1>3 DEF IsSolo
    <2>2. ~ (2 * j <= n)
      BY <1>2, <2>1
    <2>3. above[j] = level[k]
      BY <1>1, <1>2, <2>1, <2>2
    <2>4. q = p
      BY <1>3, EmptyList DEF Sibling, Joined
    <2> QED BY <2>3, <2>4 DEF SameAim
  <1>4. CASE ~ IsSolo(level, k) /\ k % 2 = 0
    <2>1. 2 * j = k /\ 2 * j <= n /\ 2 * j - 1 = k - 1
      BY <1>4
    <2>2. above[j] = Hash(<<level[k - 1], level[k]>>)
      BY <1>1, <1>2, <2>1
    <2>3. PICK v : v = level[k - 1]
      OBVIOUS
    <2>4. Joined(q, p, <<LeftPart(v)>>)
      BY <1>4, <2>3 DEF Sibling, LeftPart
    <2>5. HashOf(q, t) = Hash(<<v, HashOf(p, t)>>)
      BY <2>4, HashOfLeft
    <2>6. HashOf(q, t) = above[j] <=> HashOf(p, t) = level[k]
      BY <2>2, <2>3, <2>5, HashInjective
    <2> QED BY <2>4, <2>6, AppendList DEF SameAim
  <1>5. CASE ~ IsSolo(level, k) /\ k % 2 # 0
    <2>1. k # n /\ k % 2 = 1
      BY <1>5 DEF IsSolo
    <2>2. 2 * j = k + 1 /\ 2 * j <= n /\ 2 * j - 1 = k
      BY <2>1
    <2>3. above[j] = Hash(<<level[k], level[k + 1]>>)
      BY <1>1, <1>2, <2>2
    <2>4. PICK v : v = level[k + 1]
      OBVIOUS
    <2>5. Joined(q, p, <<RightPart(v)>>)
      BY <1>5, <2>4 DEF Sibling, RightPart
    <2>6. HashOf(q, t) = Hash(<<HashOf(p, t), v>>)
      BY <2>5, HashOfRight
    <2>7. HashOf(q, t) = above[j] <=> HashOf(p, t) = level[k]
      BY <2>3, <2>4, <2>6, HashInjective
    <2> QED BY <2>5, <2>7, AppendList DEF SameAim
  <1> QED BY <1>3, <1>4, <1>5

\* Each node on the path of a leaf is made from its children.
Followed(levels, i) ==
  \A x \in 1..Len(levels) - 1 :
    levels[x][Index(levels, i)[x]] = NextLevel(levels[x + 1])[Index(levels, i)[x]]

LEMMA HashedFollowed ==
  ASSUME NEW levels, Shaped(levels), Hashed(levels), NEW i PROVE Followed(levels, i)
  BY DEF Hashed, Followed

LEMMA PairedFollowed ==
  ASSUME NEW levels, Shaped(levels), Paired(levels), NEW i \in 1..Len(Last(levels)),
         ~ SoloPath(levels, i)
  PROVE  Followed(levels, i)
  <1>1. PICK n \in Nat : n = Len(levels) /\ n > 0
    BY ShapedFacts
  <1>2. PICK at : at = Index(levels, i)
    OBVIOUS
  <1>3. i \in 1..Len(levels[n])
    BY <1>1 DEF Last
  <1>4. at[n] = i /\ \A x \in 1..n - 1 : at[x] = (at[x + 1] + 1) \div 2
    BY <1>1, <1>2, IndexDefined
  <1>5. \A x \in 1..n : at[x] \in 1..Len(levels[x])
    BY <1>1, <1>2, <1>3, IndexInside
  <1>6. ASSUME NEW x \in 1..n - 1
        PROVE  levels[x][at[x]] = NextLevel(levels[x + 1])[at[x]]
    <2>1. x \in 1..n /\ x + 1 \in 1..n /\ x + 1 \in 2..n
      OBVIOUS
    <2>2. PICK m \in Nat : m = Len(levels[x + 1])
      BY <1>1, <2>1, ShapedFacts
    <2>3. PICK k \in 1..m : k = at[x + 1]
      BY <1>5, <2>1, <2>2
    <2>4. ~ IsSolo(levels[x + 1], k)
      BY <1>1, <1>2, <2>1, <2>3 DEF SoloPath
    <2>5. at[x] = (k + 1) \div 2 /\ at[x] \in 1..Len(levels[x])
      BY <1>4, <1>5, <2>1, <2>3
    <2>6. 2 * ((k + 1) \div 2) <= m
      BY <2>2, <2>4, TwoChildren DEF IsSolo
    <2>7. 2 * at[x] <= Len(levels[x + 1])
      BY <2>2, <2>5, <2>6
    <2> QED BY <1>1, <2>5, <2>7 DEF Paired
  <1> QED BY <1>1, <1>2, <1>6 DEF Followed

\* Where the path of a leaf is followed, its proof leads from its value to the root, and
\* from no other value.
LEMMA ProofsLead ==
  ASSUME NEW levels, Shaped(levels), NEW i \in 1..Len(Last(levels)), Followed(levels, i), NEW t
  PROVE  Validates(Proof(levels, i), t, Root(levels)) <=> t = Last(levels)[i]
  <1>1. PICK n \in Nat : n = Len(levels) /\ n > 0
    BY ShapedFacts
  <1>2. PICK at : at = Index(levels, i)
    OBVIOUS
  <1>3. PICK proof : proof = Proofs(levels, i)
    OBVIOUS
  <1>4. /\ at[n] = i /\ \A x \in 1..n - 1 : at[x] = (at[x + 1] + 1) \div 2
        /\ \A x \in 1..n : at[x] \in 1..Len(levels[x])
    <2>1. i \in 1..Len(levels[n])
      BY <1>1 DEF Last
    <2>2. at[n] = i /\ \A x \in 1..n - 1 : at[x] = (at[x + 1] + 1) \div 2
      BY <1>1, <1>2, IndexDefined
    <2>3. \A x \in 1..n : at[x] \in 1..Len(levels[x])
      BY <1>1, <1>2, <2>1, IndexInside
    <2> QED BY <2>2, <2>3
  <1>5. /\ proof[n] = <<>>
        /\ \A x \in 1..n - 1 :
             Joined(proof[x], proof[x + 1], Sibling(levels[x + 1], at[x + 1]))
    <2>1. Gathered(proof, levels, at, n)
      BY <1>1, <1>2, <1>3, ProofsDefined
    <2> QED BY <2>1 DEF Gathered
  <1> DEFINE Leads(x) == /\ IsList(proof[x])
                         /\ (HashOf(proof[x], t) = levels[x][at[x]]) <=> (t = levels[n][i])
  <1>6. PICK P : P = {x \in 1..n : Leads(x)}
    OBVIOUS
  <1>7. n \in P
    <2>1. IsList(<<>>) /\ n \in 1..n
      BY <1>1, EmptyList DEF Shaped
    <2>2. Leads(n)
      BY <1>4, <1>5, <2>1, HashOfNone
    <2> HIDE DEF Leads
    <2> QED BY <1>6, <2>1, <2>2
  <1>8. ASSUME NEW x \in 1..n - 1, x + 1 \in P PROVE x \in P
    <2>1. x \in 1..n /\ x + 1 \in 1..n
      OBVIOUS
    <2>a. PICK level : level = levels[x + 1]
      OBVIOUS
    <2>b. PICK m \in Nat : m = Len(level)
      BY <1>1, <2>1, <2>a, ShapedFacts
    <2>c. PICK k \in 1..m : k = at[x + 1]
      BY <1>4, <2>1, <2>a, <2>b
    <2>2. IsList(level) /\ level = levels[x + 1] /\ m = Len(level) /\ k = at[x + 1]
      BY <1>1, <2>1, <2>a, <2>b, <2>c, ShapedFacts
    <2>3. levels[x][at[x]] = NextLevel(level)[at[x]]
      BY <1>1, <1>2, <2>2 DEF Followed
    <2>4. at[x] = (k + 1) \div 2
      BY <1>4, <2>2
    <2>5. Leads(x + 1)
      BY <1>6, <1>8
    <2>6. Joined(proof[x], proof[x + 1], Sibling(level, k))
      BY <1>5, <2>2
    <2>7. /\ IsList(proof[x])
          /\ (HashOf(proof[x], t) = levels[x][at[x]]) <=> (HashOf(proof[x + 1], t) = level[k])
      <3>1. PICK before : before = proof[x + 1] /\ IsList(before)
        BY <2>5
      <3>2. PICK j : j = at[x] /\ j = (k + 1) \div 2
        BY <2>4
      <3>3. PICK after : after = proof[x] /\ Joined(after, before, Sibling(level, k))
        BY <2>6, <3>1
      <3>4. PICK above : above = NextLevel(level) /\ levels[x][at[x]] = above[j]
        BY <2>3, <3>2
      <3>5. SameAim(after, above[j], before, level[k], t)
        BY <2>2, <3>1, <3>2, <3>3, <3>4, Climb
      <3> QED BY <3>1, <3>2, <3>3, <3>4, <3>5 DEF SameAim
    <2>8. Leads(x)
      BY <2>2, <2>5, <2>7
    <2> HIDE DEF Leads
    <2> QED BY <1>6, <2>1, <2>8
  <1>9. Leads(1)
    <2>1. \A x \in 1..n : x \in P
      BY <1>7, <1>8, StepsDown
    <2>2. 1 \in 1..n
      BY <1>1
    <2> HIDE DEF Leads
    <2> QED BY <1>6, <2>1, <2>2
  <1>10. at[1] = 1
    <2>1. at[1] \in 1..Len(levels[1]) /\ Len(levels[1]) = 1
      <3>1. 1 \in 1..n
        BY <1>1
      <3> QED BY <1>4, <3>1 DEF Shaped
    <2> QED BY <2>1
  <1>11. HashOf(proof[1], t) = levels[1][1] <=> t = levels[n][i]
    BY <1>9, <1>10
  <1> QED BY <1>1, <1>3, <1>11 DEF Validates, Proof, Root, HashOf, Last

-----------------------------------------------------------------------------
(* Updates                                                                 *)

\* What update_leaf puts for each level.
Raised(up, levels, at, n, value) ==
  /\ up[n] = ReplaceAt(levels[n], at[n], value)
  /\ \A x \in 1..n - 1 : up[x] = ReplaceAt(levels[x], at[x], Parent(up[x + 1], at[x]))

LEMMA UpdateDefined ==
  ASSUME NEW levels, NEW n \in Nat, n = Len(levels), n > 0, NEW i, NEW value,
         NEW at, at = Index(levels, i), NEW new, new = UpdatePath(levels, i, value)
  PROVE  IsList(new) /\ Len(new) = n /\ Raised(new, levels, at, n, value)
  <1> DEFINE From(f, m) == f = [x \in m..n |->
                             IF x = n THEN ReplaceAt(levels[x], i, value)
                             ELSE ReplaceAt(levels[x], at[x], Parent(f[x + 1], at[x]))]
  <1>1. PICK P : P = {m \in 1..n : \E f : From(f, m)}
    OBVIOUS
  <1>2. n \in P
    <2>1. PICK t : t = ReplaceAt(levels[n], i, value)
      OBVIOUS
    <2>2. PICK f : f = [x \in n..n |-> t]
      OBVIOUS
    <2>3. f = [x \in n..n |-> IF x = n THEN t
                              ELSE ReplaceAt(levels[x], at[x], Parent(f[x + 1], at[x]))]
      BY <2>2
    <2>4. From(f, n) /\ n \in 1..n
      BY <2>1, <2>3
    <2> HIDE DEF From
    <2> QED BY <1>1, <2>4
  <1>3. ASSUME NEW m \in 1..n - 1, m + 1 \in P PROVE m \in P
    <2>1. PICK f : From(f, m + 1)
      BY <1>1, <1>3
    <2>2. PICK s : s = ReplaceAt(levels[m], at[m], Parent(f[m + 1], at[m]))
      OBVIOUS
    <2>3. PICK g : g = [x \in m..n |-> IF x = m THEN s ELSE f[x]]
      OBVIOUS
    <2>4. \A x \in m + 1..n : x \in m..n /\ x # m /\ (x = n \/ x + 1 \in m + 1..n)
      OBVIOUS
    <2>5. \A x \in m + 1..n : g[x] = f[x]
      BY <2>3, <2>4
    <2>6. ASSUME NEW x \in m..n
          PROVE  g[x] = IF x = n THEN ReplaceAt(levels[x], i, value)
                        ELSE ReplaceAt(levels[x], at[x], Parent(g[x + 1], at[x]))
      <3>1. CASE x = m
        <4>1. m + 1 \in m + 1..n /\ m # n /\ m \in m..n
          OBVIOUS
        <4>2. g[m] = s /\ g[m + 1] = f[m + 1]
          BY <2>3, <2>5, <4>1
        <4> QED BY <2>2, <3>1, <4>1, <4>2
      <3>2. CASE x \in m + 1..n
        BY <2>1, <2>4, <2>5, <3>2
      <3> QED BY <3>1, <3>2
    <2>7. From(g, m) /\ m \in 1..n
      BY <2>3, <2>6
    <2> HIDE DEF From
    <2> QED BY <1>1, <2>7
  <1>4. PICK f : From(f, 1)
    <2>1. 1 \in P
      BY <1>2, <1>3, StepsDown
    <2> HIDE DEF From
    <2> QED BY <1>1, <2>1
  <1>5. PICK up : up = Updates(levels, i, value)
    OBVIOUS
  <1>6. From(up, 1)
    BY <1>4, <1>5 DEF Updates
  <1>7. new = [x \in 1..n |-> up[x]]
    BY <1>5 DEF UpdatePath
  <1>8. n \in 1..n /\ \A x \in 1..n - 1 : x \in 1..n /\ x + 1 \in 1..n /\ x # n
    OBVIOUS
  <1>9. new[n] = ReplaceAt(levels[n], i, value)
    BY <1>6, <1>7, <1>8
  <1>10. ASSUME NEW x \in 1..n - 1
        PROVE  new[x] = ReplaceAt(levels[x], at[x], Parent(new[x + 1], at[x]))
    BY <1>6, <1>7, <1>8
  <1>11. at[n] = i
    BY IndexDefined
  <1>12. new = [x \in 1..n |-> new[x]]
    BY <1>7
  <1> QED BY <1>9, <1>10, <1>11, <1>12, MakeList DEF Raised

\* The levels after an update: in each the node on the path has changed.
Updated(new, levels, at, n, i, value) ==
  /\ IsList(new) /\ Len(new) = n
  /\ \A x \in 1..n : /\ IsList(new[x]) /\ Len(new[x]) = Len(levels[x])
                     /\ \A k \in 1..Len(levels[x]) : k # at[x] => new[x][k] = levels[x][k]
  /\ new[n][i] = value
  /\ \A x \in 1..n - 1 : new[x][at[x]] = Parent(new[x + 1], at[x])

LEMMA UpdatedLevels ==
  ASSUME NEW levels, Shaped(levels), NEW n \in Nat, n = Len(levels), NEW i \in 1..Len(levels[n]),
         NEW value, NEW at, at = Index(levels, i), NEW new, new = UpdatePath(levels, i, value)
  PROVE  Updated(new, levels, at, n, i, value)
  <1>1. n > 0 /\ \A x \in 1..n : IsList(levels[x])
    BY ShapedFacts
  <1>2. at[n] = i /\ \A x \in 1..n : at[x] \in 1..Len(levels[x])
    BY IndexInside
  <1>3. IsList(new) /\ Len(new) = n /\ Raised(new, levels, at, n, value)
    BY <1>1, UpdateDefined
  <1>4. ASSUME NEW x \in 1..n
        PROVE  /\ IsList(new[x]) /\ Len(new[x]) = Len(levels[x])
               /\ \A k \in 1..Len(levels[x]) : k # at[x] => new[x][k] = levels[x][k]
               /\ new[x][at[x]] = IF x = n THEN value ELSE Parent(new[x + 1], at[x])
    <2>1. PICK v : v = IF x = n THEN value ELSE Parent(new[x + 1], at[x])
      OBVIOUS
    <2>2. new[x] = ReplaceAt(levels[x], at[x], v)
      <3>1. CASE x = n
        BY <1>2, <1>3, <2>1, <3>1 DEF Raised
      <3>2. CASE x # n
        <4>1. x \in 1..n - 1
          BY <3>2
        <4> QED BY <1>3, <2>1, <3>2, <4>1 DEF Raised
      <3> QED BY <3>1, <3>2
    <2>3. IsList(levels[x]) /\ at[x] \in 1..Len(levels[x])
      BY <1>1, <1>2
    <2>4. /\ IsList(new[x]) /\ Len(new[x]) = Len(levels[x])
          /\ \A k \in 1..Len(levels[x]) : new[x][k] = IF k = at[x] THEN v ELSE levels[x][k]
      BY <2>2, <2>3, ReplaceFacts
    <2> QED BY <2>1, <2>3, <2>4
  <1>5. n \in 1..n /\ \A x \in 1..n - 1 : x \in 1..n /\ x # n
    BY <1>1
  <1>6. new[n][i] = value
    BY <1>2, <1>4, <1>5
  <1>7. ASSUME NEW x \in 1..n - 1 PROVE new[x][at[x]] = Parent(new[x + 1], at[x])
    BY <1>4, <1>5
  <1> QED BY <1>3, <1>4, <1>6, <1>7 DEF Updated

\* An update changes the value of its leaf and no other, and no length.
LEMMA UpdateShaped ==
  ASSUME NEW levels, Shaped(levels), NEW i \in 1..Len(Last(levels)), NEW value,
         NEW new, new = UpdatePath(levels, i, value)
  PROVE  /\ Shaped(new) /\ IsList(Last(new)) /\ Len(Last(new)) = Len(Last(levels))
         /\ \A k \in 1..Len(Last(levels)) :
              Last(new)[k] = IF k = i THEN value ELSE Last(levels)[k]
  <1>1. PICK n \in Nat : n = Len(levels) /\ n > 0 /\ levels # <<>>
    BY ShapedFacts DEF Shaped
  <1>2. PICK at : at = Index(levels, i)
    OBVIOUS
  <1>3. Last(levels) = levels[n] /\ i \in 1..Len(levels[n])
    BY <1>1 DEF Last
  <1>4. /\ IsList(new) /\ Len(new) = n
        /\ \A x \in 1..n : /\ IsList(new[x]) /\ Len(new[x]) = Len(levels[x])
                           /\ \A k \in 1..Len(levels[x]) : k # at[x] => new[x][k] = levels[x][k]
        /\ new[n][i] = value
    <2>1. Updated(new, levels, at, n, i, value)
      BY <1>1, <1>2, <1>3, UpdatedLevels
    <2> QED BY <2>1 DEF Updated
  <1>5. at[n] = i
    BY <1>1, <1>2, IndexDefined
  <1>6. Last(new) = new[n] /\ 1 \in 1..n /\ n \in 1..n
    BY <1>1, <1>4 DEF Last
  <1>7. new # <<>>
    BY <1>1, <1>4
  <1>8. Len(new[1]) = 1
    <2>1. Len(levels[1]) = 1
      BY DEF Shaped
    <2> QED BY <1>4, <1>6, <2>1
  <1>9. ASSUME NEW x \in 1..n - 1
        PROVE  Len(new[x + 1]) > 1 /\ Len(new[x]) = (Len(new[x + 1]) + 1) \div 2
    <2>1. x \in 1..n /\ x + 1 \in 1..n
      OBVIOUS
    <2> QED BY <1>1, <1>4, <2>1 DEF Shaped
  <1>10. Shaped(new)
    BY <1>4, <1>7, <1>8, <1>9 DEF Shaped
  <1> QED BY <1>3, <1>4, <1>5, <1>6, <1>10

\* Where two nodes are hashed together, update_leaf and make_tree agree.
LEMMA ParentOfTwo ==
  ASSUME NEW level, NEW n \in Nat, n = Len(level), NEW j \in 1..((n + 1) \div 2), 2 * j <= n
  PROVE  NextLevel(level)[j] = Parent(level, j)
  <1>1. PICK m \in Nat : m = (n + 1) \div 2
    OBVIOUS
  <1>2. NextLevel(level)[j] = Hash(<<level[2 * j - 1], level[2 * j]>>)
    BY <1>1 DEF NextLevel
  <1>3. Parent(level, j) = Hash(<<level[2 * j - 1], level[2 * j]>>)
    BY DEF Parent
  <1> QED BY <1>2, <1>3

LEMMA ParentIsNext ==
  ASSUME NEW level, NEW n \in Nat, n = Len(level), NEW k \in 1..n,
         ~ IsSolo(level, k), NEW j, j = (k + 1) \div 2
  PROVE  NextLevel(level)[j] = Parent(level, j)
  <1>1. j \in 1..((n + 1) \div 2)
    BY HalfInside
  <1>2. 2 * j <= n
    BY TwoChildren DEF IsSolo
  <1> QED BY <1>1, <1>2, ParentOfTwo

\* A node off the path keeps its children.
Same(new, level, n, k) == \A j \in 1..n : j # k => new[j] = level[j]

LEMMA OffThePath ==
  ASSUME NEW level, IsList(level), NEW n \in Nat, n = Len(level), NEW k \in 1..n,
         NEW new, IsList(new), Len(new) = n, Same(new, level, n, k),
         NEW j \in 1..((n + 1) \div 2), j # (k + 1) \div 2
  PROVE  NextLevel(new)[j] = NextLevel(level)[j]
  <1>1. PICK m \in Nat : m = (n + 1) \div 2
    OBVIOUS
  <1>2. j \in 1..m /\ 2 * j - 1 \in 1..n /\ 2 * j - 1 # k /\ 2 * j # k
    BY <1>1
  <1>3. 2 * j <= n => new[2 * j] = level[2 * j]
    BY <1>2 DEF Same
  <1>4. ~ (2 * j <= n) => 2 * j - 1 = n
    BY <1>2
  <1>5. new[2 * j - 1] = level[2 * j - 1]
    BY <1>2 DEF Same
  <1> QED BY <1>1, <1>2, <1>3, <1>4, <1>5 DEF NextLevel

\* Whatever the path, a node with two children is made from them after an update.
LEMMA UpdatePaired ==
  ASSUME NEW levels, Shaped(levels), Paired(levels), NEW i \in 1..Len(Last(levels)), NEW value,
         NEW new, new = UpdatePath(levels, i, value)
  PROVE  Paired(new)
  <1>1. PICK n \in Nat : n = Len(levels) /\ n > 0
    BY ShapedFacts
  <1>2. PICK at : at = Index(levels, i)
    OBVIOUS
  <1>3. Last(levels) = levels[n] /\ i \in 1..Len(levels[n])
    BY <1>1 DEF Last
  <1>4. Updated(new, levels, at, n, i, value)
    BY <1>1, <1>2, <1>3, UpdatedLevels
  <1>5. at[n] = i /\ \A x \in 1..n - 1 : at[x] = (at[x + 1] + 1) \div 2
    BY <1>1, <1>2, IndexDefined
  <1>6. \A x \in 1..n : at[x] \in 1..Len(levels[x])
    BY <1>1, <1>2, <1>3, IndexInside
  <1>7. ASSUME NEW x \in 1..n - 1, NEW j \in 1..Len(new[x]), 2 * j <= Len(new[x + 1])
        PROVE  new[x][j] = NextLevel(new[x + 1])[j]
    <2>1. x \in 1..n /\ x + 1 \in 1..n
      OBVIOUS
    <2>2. PICK level : level = levels[x + 1] /\ IsList(level) /\ Len(level) \in Nat
      BY <1>1, <2>1, ShapedFacts
    <2>3. PICK m \in Nat : m = Len(level)
      BY <2>2
    <2>4. PICK k \in 1..m : k = at[x + 1]
      BY <1>6, <2>1, <2>2, <2>3
    <2>5. PICK below : below = new[x + 1]
      OBVIOUS
    <2>6. IsList(below) /\ Len(below) = m /\ Same(below, level, m, k)
      BY <1>4, <2>1, <2>2, <2>3, <2>4, <2>5 DEF Updated, Same
    <2>7. Len(new[x]) = Len(levels[x]) /\ Len(levels[x]) = (m + 1) \div 2
      <3>1. Len(new[x]) = Len(levels[x])
        BY <1>4, <2>1 DEF Updated
      <3>2. Len(levels[x]) = (m + 1) \div 2
        BY <1>1, <2>2, <2>3, ShapedFacts
      <3> QED BY <3>1, <3>2
    <2>8. j \in 1..((m + 1) \div 2) /\ j \in 1..Len(levels[x]) /\ 2 * j <= m
      BY <1>7, <2>5, <2>6, <2>7
    <2>9. CASE j = (k + 1) \div 2
      <3>1. at[x] = j
        BY <1>5, <2>4, <2>9
      <3>2. new[x][j] = Parent(below, j)
        BY <1>4, <2>5, <3>1 DEF Updated
      <3>3. NextLevel(below)[j] = Parent(below, j)
        BY <2>6, <2>8, ParentOfTwo
      <3> QED BY <2>5, <3>2, <3>3
    <2>10. CASE j # (k + 1) \div 2
      <3>1. at[x] # j
        BY <1>5, <2>4, <2>10
      <3>2. new[x][j] = levels[x][j]
        BY <1>4, <2>1, <2>8, <3>1 DEF Updated
      <3>3. levels[x][j] = NextLevel(level)[j]
        BY <1>1, <2>2, <2>3, <2>8 DEF Paired
      <3>4. NextLevel(below)[j] = NextLevel(level)[j]
        BY <2>2, <2>3, <2>6, <2>8, <2>10, OffThePath
      <3> QED BY <2>5, <3>2, <3>3, <3>4
    <2> QED BY <2>9, <2>10
  <1>8. Len(new) = n
    BY <1>4 DEF Updated
  <1> QED BY <1>7, <1>8 DEF Paired

\* An update of a leaf whose path has no node without a sibling leaves a tree whose levels
\* are made from each other.
LEMMA UpdateHashed ==
  ASSUME NEW levels, Shaped(levels), Hashed(levels), NEW i \in 1..Len(Last(levels)), NEW value,
         ~ SoloPath(levels, i), NEW new, new = UpdatePath(levels, i, value)
  PROVE  Hashed(new)
  <1>1. PICK n \in Nat : n = Len(levels) /\ n > 0
    BY ShapedFacts
  <1>2. PICK at : at = Index(levels, i)
    OBVIOUS
  <1>3. Last(levels) = levels[n] /\ i \in 1..Len(levels[n])
    BY <1>1 DEF Last
  <1>4. Updated(new, levels, at, n, i, value)
    BY <1>1, <1>2, <1>3, UpdatedLevels
  <1>5. at[n] = i /\ \A x \in 1..n - 1 : at[x] = (at[x + 1] + 1) \div 2
    BY <1>1, <1>2, IndexDefined
  <1>6. \A x \in 1..n : at[x] \in 1..Len(levels[x])
    BY <1>1, <1>2, <1>3, IndexInside
  <1>7. ASSUME NEW x \in 1..n - 1
        PROVE  new[x] = NextLevel(new[x + 1])
    <2>1. x \in 1..n /\ x + 1 \in 1..n /\ x + 1 \in 2..n
      OBVIOUS
    <2>2. PICK level : level = levels[x + 1] /\ IsList(level) /\ Len(level) \in Nat
      BY <1>1, <2>1, ShapedFacts
    <2>3. PICK m \in Nat : m = Len(level)
      BY <2>2
    <2>4. PICK k \in 1..m : k = at[x + 1]
      BY <1>5, <1>6, <2>1, <2>2, <2>3
    <2>5. PICK below : below = new[x + 1]
      OBVIOUS
    <2>6. IsList(below) /\ Len(below) = m /\ \A j \in 1..m : j # k => below[j] = level[j]
      BY <1>4, <2>1, <2>2, <2>3, <2>4, <2>5 DEF Updated
    <2>7. ~ IsSolo(level, k)
      BY <1>1, <1>2, <2>1, <2>2, <2>4 DEF SoloPath
    <2>8. ~ IsSolo(below, k)
      BY <2>3, <2>6, <2>7 DEF IsSolo
    <2>9. PICK above : above = NextLevel(below)
      OBVIOUS
    <2>10. IsList(above) /\ Len(above) = (m + 1) \div 2
      BY <2>6, <2>9, NextLevelFacts
    <2>11. levels[x] = NextLevel(level)
      BY <1>1, <2>2 DEF Hashed
    <2>12. Len(levels[x]) = (m + 1) \div 2
      BY <2>2, <2>3, <2>11, NextLevelFacts
    <2>13. IsList(new[x]) /\ Len(new[x]) = (m + 1) \div 2
      BY <1>4, <2>1, <2>12 DEF Updated
    <2>14. ASSUME NEW j \in 1..((m + 1) \div 2) PROVE new[x][j] = above[j]
      <3>1. CASE j = (k + 1) \div 2
        <4>1. at[x] = j
          BY <1>5, <1>6, <2>4, <3>1
        <4>2. new[x][j] = Parent(below, j)
          BY <1>4, <2>5, <4>1 DEF Updated
        <4> QED BY <2>6, <2>8, <2>9, <3>1, <4>2, ParentIsNext
      <3>2. CASE j # (k + 1) \div 2
        <4>1. at[x] # j
          BY <1>5, <1>6, <2>4, <3>2
        <4>2. new[x][j] = levels[x][j]
          BY <1>4, <2>1, <2>12, <4>1 DEF Updated
        <4>3. NextLevel(below)[j] = NextLevel(level)[j]
          <5>1. Same(below, level, m, k)
            BY <2>6 DEF Same
          <5>2. IsList(level) /\ IsList(below) /\ Len(below) = m
            BY <2>2, <2>6
          <5>3. j # (k + 1) \div 2
            BY <3>2
          <5> QED BY <2>3, <5>1, <5>2, <5>3, OffThePath
        <4> QED BY <2>9, <2>11, <4>2, <4>3
      <3> QED BY <3>1, <3>2
    <2>15. PICK after : after = new[x]
      OBVIOUS
    <2>16. IsList(after) /\ Len(after) = Len(above) /\ \A j \in 1..Len(after) : after[j] = above[j]
      BY <2>10, <2>13, <2>14, <2>15
    <2>17. after = above
      BY <2>10, <2>16, SameList
    <2> QED BY <2>5, <2>9, <2>15, <2>17
  <1> QED BY <1>4, <1>7 DEF Hashed, Updated

-----------------------------------------------------------------------------
(* The specification                                                       *)

LEMMA InitSound == TreeInit => TreeInv
  <1>1. <<>> = [k \in 1..0 |-> <<>>[k]]
    OBVIOUS
  <1>2. IsList(<<>>)
    BY <1>1, MakeList
  <1>3. Sound(<<>>, <<>>, FALSE, FALSE, FALSE)
    BY <1>2, MerkleTreeAssumption DEF Sound
  <1> SUFFICES ASSUME TreeInit PROVE TreeInv
    OBVIOUS
  <1>4. tree = [leaves |-> <<>>, levels |-> <<>>, ready |-> FALSE, shared |-> FALSE, solo |-> FALSE]
    BY DEF TreeInit, EmptyTree
  <1>5. /\ tree.leaves = <<>> /\ tree.levels = <<>> /\ tree.ready = FALSE /\ tree.shared = FALSE
        /\ tree.solo = FALSE
    BY <1>4
  <1>6. Sound(tree.leaves, tree.levels, tree.ready, tree.shared, tree.solo)
    BY <1>3, <1>5
  <1> QED BY <1>4, <1>5, <1>6 DEF TreeInv

LEMMA ResetSound == ASSUME ResetTree PROVE TreeInv'
  <1>1. TreeInit'
    BY DEF ResetTree, TreeInit
  <1>2. (TreeInit => TreeInv)'
    BY InitSound, PTL
  <1> QED BY <1>1, <1>2

LEMMA ReloadSound == ASSUME TreeInv, Reload PROVE TreeInv'
  <1>1. Sound(tree.leaves, tree.levels, tree.ready, FALSE, tree.solo)
    BY DEF TreeInv, Sound
  <1> QED BY <1>1 DEF TreeInv, Reload

LEMMA MakeSound == ASSUME TreeInv, MakeTree PROVE TreeInv'
  <1>1. PICK leaves : leaves = tree.leaves
    OBVIOUS
  <1>2. PICK levels : levels = Levels(leaves)
    OBVIOUS
  <1>3. /\ leaves \in Seq(Leaf) /\ Len(leaves) <= MaxLeaves
        /\ leaves = <<>> => tree.levels = <<>>
    BY <1>1 DEF TreeInv, Sound
  <1>4. CASE leaves = <<>>
    <2>1. Sound(leaves, tree.levels, TRUE, tree.shared, tree.solo)
      BY <1>1, <1>3, <1>4 DEF TreeInv, Sound
    <2> QED BY <1>1, <1>4, <2>1 DEF TreeInv, MakeTree
  <1>5. CASE leaves # <<>>
    <2>1. IsList(leaves) /\ Len(leaves) \in 1..MaxLeaves
      <3>1. Len(leaves) \in Nat /\ Len(leaves) # 0 /\ leaves = [k \in 1..Len(leaves) |-> leaves[k]]
        BY <1>3, <1>5
      <3>2. IsList(leaves)
        BY <3>1, MakeList
      <3> QED BY <1>3, <3>1, <3>2, MerkleTreeAssumption
    <2>2. Shaped(levels) /\ Hashed(levels) /\ Last(levels) = leaves
      BY <1>2, <2>1, LevelsBuilt
    <2>3. IsList(levels) /\ levels # <<>> /\ Paired(levels)
      BY <2>2 DEF Shaped, Hashed, Paired
    <2>4. Sound(leaves, levels, TRUE, TRUE, FALSE)
      BY <1>3, <1>5, <2>2, <2>3 DEF Sound
    <2> QED BY <1>1, <1>2, <1>5, <2>4 DEF TreeInv, MakeTree
  <1> QED BY <1>4, <1>5

LEMMA AddSound == ASSUME TreeInv, NEW value \in Leaf, AddLeaf(value) PROVE TreeInv'
  <1>1. PICK leaves : leaves = Append(tree.leaves, value)
    OBVIOUS
  <1>2. PICK levels : levels = IF tree.shared
                                 THEN ReplaceAt(tree.levels, Len(tree.levels),
                                                Append(Last(tree.levels), value))
                                 ELSE tree.levels
    OBVIOUS
  <1>3. /\ tree.leaves \in Seq(Leaf) /\ Len(tree.leaves) < MaxLeaves
        /\ IsList(tree.levels)
        /\ {tree.ready, tree.shared, tree.solo} \subseteq BOOLEAN
        /\ tree.shared => tree.levels # <<>> /\ Last(tree.levels) = tree.leaves
    BY DEF TreeInv, Sound, AddLeaf
  <1>4. leaves \in Seq(Leaf) /\ leaves # <<>> /\ Len(leaves) <= MaxLeaves
    BY <1>1, <1>3, MerkleTreeAssumption
  <1>5. IsList(levels) /\ (tree.shared => levels # <<>> /\ Last(levels) = leaves)
    <2>1. CASE tree.shared
      <3>1. PICK n \in Nat : n = Len(tree.levels) /\ n > 0
        BY <1>3, <2>1, ListFacts DEF IsList
      <3>2. levels = ReplaceAt(tree.levels, n, leaves) /\ n \in 1..Len(tree.levels)
        BY <1>1, <1>2, <1>3, <2>1, <3>1
      <3>3. IsList(levels) /\ Len(levels) = n /\ levels[n] = leaves
        BY <1>3, <3>1, <3>2, ReplaceFacts
      <3>4. levels # <<>>
        BY <3>1, <3>3
      <3> QED BY <3>3, <3>4 DEF Last
    <2>2. CASE ~ tree.shared
      BY <1>2, <1>3, <2>2
    <2> QED BY <2>1, <2>2
  <1>6. Sound(leaves, levels, FALSE, tree.shared, tree.solo)
    BY <1>3, <1>4, <1>5 DEF Sound
  <1>7. tree' = [leaves |-> leaves, levels |-> levels, ready |-> FALSE,
                 shared |-> tree.shared, solo |-> tree.solo]
    BY <1>1, <1>2 DEF TreeInv, AddLeaf
  <1> QED BY <1>6, <1>7 DEF TreeInv

LEMMA UpdateSound ==
  ASSUME TreeInv, NEW i \in 1..MaxLeaves, NEW value \in Leaf, UpdateLeaf(i, value)
  PROVE  TreeInv'
  <1>1. PICK levels : levels = UpdatePath(tree.levels, i, value)
    OBVIOUS
  <1>2. PICK leaves : leaves = IF tree.shared THEN Last(levels) ELSE tree.leaves
    OBVIOUS
  <1>3. PICK solo : solo = (tree.solo \/ SoloPath(tree.levels, i))
    OBVIOUS
  <1>4. tree' = [leaves |-> leaves, levels |-> levels, ready |-> tree.ready,
                 shared |-> tree.shared, solo |-> solo]
    BY <1>1, <1>2, <1>3 DEF TreeInv, UpdateLeaf
  <1>5. /\ tree.leaves \in Seq(Leaf) /\ Len(tree.leaves) <= MaxLeaves
        /\ {tree.ready, tree.shared, tree.solo} \subseteq BOOLEAN
        /\ tree.ready /\ tree.levels # <<>> /\ i \in 1..Len(tree.leaves)
        /\ tree.shared => Last(tree.levels) = tree.leaves
        /\ Shaped(tree.levels)
        /\ Last(tree.levels) \in Seq(Leaf) /\ Len(Last(tree.levels)) = Len(tree.leaves)
        /\ Paired(tree.levels)
        /\ ~ tree.solo => Hashed(tree.levels)
    BY DEF TreeInv, Sound, UpdateLeaf
  <1>6. solo \in BOOLEAN
    BY <1>3
  <1>7. /\ Shaped(levels) /\ IsList(Last(levels)) /\ Len(Last(levels)) = Len(Last(tree.levels))
        /\ \A k \in 1..Len(Last(tree.levels)) :
             Last(levels)[k] = IF k = i THEN value ELSE Last(tree.levels)[k]
    BY <1>1, <1>5, UpdateShaped
  <1>8. Last(levels) \in Seq(Leaf)
    <2>1. PICK s : s = Last(levels)
      OBVIOUS
    <2>2. PICK m \in Nat : m = Len(s) /\ s = [k \in 1..m |-> s[k]]
      BY <1>7, <2>1, ListFacts
    <2>3. ASSUME NEW k \in 1..m PROVE s[k] \in Leaf
      <3>1. PICK old \in Seq(Leaf) : old = Last(tree.levels)
        BY <1>5
      <3>2. Len(old) = m /\ s[k] = IF k = i THEN value ELSE old[k]
        BY <1>7, <2>1, <2>2, <3>1
      <3>3. old[k] \in Leaf
        BY <3>2
      <3> QED BY <3>2, <3>3
    <2> QED BY <2>1, <2>2, <2>3
  <1>9. Paired(levels) /\ (~ solo => Hashed(levels))
    BY <1>1, <1>3, <1>5, UpdatePaired, UpdateHashed
  <1>10. IsList(levels) /\ levels # <<>>
    BY <1>7 DEF Shaped
  <1>11. leaves \in Seq(Leaf) /\ Len(leaves) = Len(tree.leaves) /\ leaves # <<>>
    <2>1. leaves \in Seq(Leaf) /\ Len(leaves) = Len(tree.leaves)
      BY <1>2, <1>5, <1>7, <1>8
    <2> QED BY <1>5, <2>1
  <1>12. Len(Last(levels)) = Len(leaves) /\ (tree.shared => Last(levels) = leaves)
    BY <1>2, <1>5, <1>7, <1>11
  <1>13. Sound(leaves, levels, tree.ready, tree.shared, solo)
    BY <1>5, <1>6, <1>7, <1>8, <1>9, <1>10, <1>11, <1>12 DEF Sound
  <1> QED BY <1>4, <1>13 DEF TreeInv

LEMMA TreeInvHolds == TreeSpec => []TreeInv
  <1>1. TreeInv /\ [TreeNext]_tree => TreeInv'
    <2> SUFFICES ASSUME TreeInv, [TreeNext]_tree PROVE TreeInv'
      OBVIOUS
    <2>1. CASE UNCHANGED tree
      BY <2>1 DEF TreeInv
    <2>2. CASE TreeNext
      BY <2>2, ResetSound, MakeSound, ReloadSound, AddSound, UpdateSound DEF TreeNext
    <2> QED BY <2>1, <2>2
  <1> QED BY <1>1, InitSound, PTL DEF TreeSpec

\* The list of leaves and the levels have their types, and the last level of a tree that is
\* ready has as many nodes as there are leaves (MerkleTree, storage/shared/merkle.py).
THEOREM TreeTypes == TreeSpec => []TreeTypeOK
  <1>1. TreeInv => TreeTypeOK
    BY DEF TreeInv, Sound, TreeTypeOK, Built, Shaped
  <1> QED BY <1>1, TreeInvHolds, PTL

\* Whatever was added, made, reloaded and updated before, get_proof of a leaf and
\* validate_merkle_proof accept the value of the leaf and no other; once an update went
\* through a node without a sibling, so they do for the leaves below no such node.
THEOREM ProofsAreRight == TreeSpec => []ProofsHold
  <1>1. ASSUME TreeInv, Built, NEW i \in 1..Len(tree.leaves), NEW value \in Leaf,
               ~ tree.solo \/ ~ SoloPath(tree.levels, i)
        PROVE  Validates(Proof(tree.levels, i), value, Root(tree.levels))
                 <=> (value = Last(tree.levels)[i])
    <2>1. /\ Shaped(tree.levels) /\ Paired(tree.levels)
          /\ ~ tree.solo => Hashed(tree.levels)
          /\ i \in 1..Len(Last(tree.levels))
      BY <1>1 DEF TreeInv, Sound, Built
    <2>2. Followed(tree.levels, i)
      BY <1>1, <2>1, HashedFollowed, PairedFollowed
    <2> QED BY <2>1, <2>2, ProofsLead
  <1>2. TreeInv => ProofsHold
    BY <1>1 DEF ProofsHold
  <1> QED BY <1>2, TreeInvHolds, PTL

\* As long as no update went through such a node, update_leaf leaves the levels, and so the root, that make_tree
\* builds from the new leaves.
THEOREM UpdatesRebuild == TreeSpec => []UpdateRebuilds
  <1>1. ASSUME TreeInv, Built, ~ tree.solo PROVE tree.levels = Levels(Last(tree.levels))
    <2>1. PICK levels : levels = tree.levels
      OBVIOUS
    <2>2. PICK leaves : leaves = Last(levels)
      OBVIOUS
    <2>3. /\ Shaped(levels) /\ Hashed(levels)
          /\ Len(leaves) = Len(tree.leaves) /\ Len(tree.leaves) <= MaxLeaves
      BY <1>1, <2>1, <2>2 DEF TreeInv, Sound, Built
    <2>4. IsList(leaves) /\ Len(leaves) \in 1..MaxLeaves
      <3>1. IsList(leaves) /\ Len(leaves) \in Nat /\ Len(leaves) > 0
        <4>1. PICK n \in Nat : n = Len(levels) /\ n \in 1..Len(levels)
          <5>1. Len(levels) \in Nat /\ Len(levels) > 0
            BY <2>3, ShapedFacts
          <5> QED BY <5>1
        <4>2. leaves = levels[n]
          BY <2>2, <4>1 DEF Last
        <4>3. IsList(levels[n]) /\ Len(levels[n]) \in Nat /\ Len(levels[n]) > 0
          BY <2>3, <4>1, ShapedFacts
        <4> QED BY <4>2, <4>3
      <3> QED BY <2>3, <3>1, MerkleTreeAssumption
    <2>5. PICK rebuilt : rebuilt = Levels(leaves)
      OBVIOUS
    <2>6. Shaped(rebuilt) /\ Hashed(rebuilt) /\ Last(rebuilt) = leaves
      BY <2>4, <2>5, LevelsBuilt
    <2>7. levels = rebuilt
      BY <2>2, <2>3, <2>6, OneTree
    <2> QED BY <2>1, <2>2, <2>5, <2>7
  <1>2. TreeInv => UpdateRebuilds
    BY <1>1 DEF UpdateRebuilds
  <1> QED BY <1>2, TreeInvHolds, PTL
=============================================================================
