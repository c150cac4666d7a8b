---------------------------- MODULE MCBroadband ----------------------------
(***************************************************************************)
(* Small instances of Broadband: two calls that store one file or two.     *)
(***************************************************************************)
EXTENDS Broadband, TLC

CONSTANTS f1, f2, s1, s2, m1, m2

OneFile == [o \in Call |-> f1]
TwoFiles == [o \in Call |-> IF o = s1 THEN f1 ELSE f2]
Roomy   == [hk \in Hotkey |-> Cardinality(Call) * NumChunks + 1]

\* The first miner is full with its first chunk.
Tight   == [hk \in Hotkey |-> IF hk = m1 THEN 1 ELSE Cardinality(Call) + 1]

\* The miners are all alike, and so are calls that send the same file.
Alike   == Permutations(Hotkey) \cup Permutations(Call)
=============================================================================
