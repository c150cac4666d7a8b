-------------------------- MODULE Broadband_proofs --------------------------
(***************************************************************************)
(* Proofs about Broadband, for any calls, files, miners, numbers of chunks *)
(* and of rounds. The second part: Broadband implements FileStore when the *)
(* requests of users do not overlap and the API node is not killed,        *)
(* whatever the miners answer.                                             *)
(***************************************************************************)
EXTENDS Broadband, FiniteSetTheorems, TLAPS

-----------------------------------------------------------------------------
(* Groups of miners                                                        *)

LEMMA MinersCounted == Cardinality(Hotkey) \in Nat
  BY FS_CardinalityType, BroadbandAssumption

\* A group is a sequence of hotkeys, not longer than there are miners.
LEMMA GroupShape ==
  ASSUME NEW s \in Groups
  PROVE  \E m \in 0..Cardinality(Hotkey) :
           DOMAIN s = 1..m /\ s \in [1..m -> Hotkey]
  BY DEF Groups

LEMMA GroupDomain ==
  ASSUME NEW s \in Groups
  PROVE  DOMAIN s \subseteq Place /\ \A j \in DOMAIN s : s[j] \in Hotkey
  BY GroupShape, MinersCounted DEF Place

LEMMA NewDistTyped ==
  ASSUME NEW s \in Groups
  PROVE  NewDist(s) \in Dist
  BY DEF NewDist, Dist

LEMMA NoDistTyped == NoDist \in [Position -> Dist]
  <1>1. <<>> \in [1..0 -> Hotkey] /\ 0 \in 0..Cardinality(Hotkey)
    BY MinersCounted
  <1>2. <<>> \in Groups
    <2>1. <<>> \in UNION {[1..m -> Hotkey] : m \in 0..Cardinality(Hotkey)}
      BY <1>1
    <2> QED BY <2>1 DEF Groups
  <1> QED BY <1>2, NewDistTyped DEF NoDist

\* There are not more answers than miners.
LEMMA AnswersBounded ==
  ASSUME NEW asked \in SUBSET Place
  PROVE  1..Cardinality(asked) \subseteq Place
  <1>1. Cardinality(Hotkey) \in Nat
    BY MinersCounted
  <1>2. IsFiniteSet(Place) /\ Cardinality(Place) = Cardinality(Hotkey)
    BY <1>1, FS_Interval DEF Place
  <1>3. /\ Cardinality(asked) \in Nat
        /\ Cardinality(asked) <= Cardinality(Place)
    BY <1>2, FS_Subset, FS_CardinalityType
  <1> QED BY <1>1, <1>2, <1>3 DEF Place

\* When every miner of the group was asked, the j-th answer is the j-th
\* miner's.
LEMMA AnswererSelf ==
  ASSUME NEW n \in Nat, NEW j \in 1..n
  PROVE  Answerer(1..n, j) = j
  <1>1. ASSUME NEW k \in 1..n
        PROVE  Cardinality({x \in 1..n : x <= k}) = k
    <2>1. {x \in 1..n : x <= k} = 1..k
      OBVIOUS
    <2>2. Cardinality(1..k) = k
      BY FS_Interval
    <2> QED BY <2>1, <2>2
  <1> QED BY <1>1 DEF Answerer

-----------------------------------------------------------------------------
(* Type correctness                                                        *)

LEMMA IdleRetTyped == IdleRet \in Ret
  <1>1. <<>> \in [{} -> SUBSET Hotkey] /\ {} \in SUBSET Chunk
    OBVIOUS
  <1>2. <<>> \in UNION {[S -> SUBSET Hotkey] : S \in SUBSET Chunk}
    BY <1>1
  <1> QED BY <1>2 DEF IdleRet, Ret

LEMMA TypeInit == Init => TypeOK
  <1> SUFFICES ASSUME Init PROVE TypeOK
    OBVIOUS
  <1> USE DEF Init
  <1>1. IndexTypeOK
    BY DEF EmptyIndex, IndexTypeOK
  <1>2. call \in [Call -> CallRec]
    BY IndexAssumption DEF CallRec, CallPc
  <1>3. dist \in [Call -> [Position -> Dist]]
    BY NoDistTyped
  <1>4. del \in Del
    BY DEF IdleDel, Del
  <1>5. ret \in Ret
    BY IdleRetTyped
  <1>6. disk \in [Hotkey -> SUBSET Chunk]
    OBVIOUS
  <1> QED BY <1>1, <1>2, <1>3, <1>4, <1>5, <1>6 DEF TypeOK

\* A new distribution for every chunk of a call.
LEMMA NewRoundTyped ==
  ASSUME TypeOK, NEW o \in Call, NEW n, NEW g \in [Position -> Group(n)],
         dist' = [dist EXCEPT ![o] = [i \in Position |-> NewDist(g[i])]]
  PROVE  dist' \in [Call -> [Position -> Dist]]
  <1>1. ASSUME NEW i \in Position PROVE NewDist(g[i]) \in Dist
    BY NewDistTyped DEF Group
  <1>2. [i \in Position |-> NewDist(g[i])] \in [Position -> Dist]
    BY <1>1
  <1> QED BY <1>2 DEF TypeOK

LEMMA RoundTyped ==
  ASSUME TypeOK, NEW o \in Call, NEW D \in [Position -> Dist],
         dist' = [dist EXCEPT ![o] = D]
  PROVE  dist' \in [Call -> [Position -> Dist]]
  BY DEF TypeOK

LEMMA TodoTyped ==
  ASSUME NEW d \in Dist, NEW T \in SUBSET Place
  PROVE  [d EXCEPT !.todo = T] \in Dist
  BY DEF Dist

LEMMA DistTyped ==
  ASSUME TypeOK, NEW o \in Call, NEW i \in Position, NEW d \in Dist,
         SetDist(o, i, d)
  PROVE  dist' \in [Call -> [Position -> Dist]]
  BY DEF SetDist, TypeOK

LEMMA RerollGroups ==
  ASSUME NEW o,
         NEW g \in [Position -> {s \in Group(Cardinality(Failures(o))) :
                                   \A j \in DOMAIN s : s[j] \notin Blamed(o)}]
  PROVE  g \in [Position -> Group(Cardinality(Failures(o)))]
  OBVIOUS

LEMMA GotoTyped ==
  ASSUME TypeOK, NEW o \in Call, NEW pc \in CallPc, Goto(o, pc),
         call[o].pc \notin {"map", "stored", "killed"}
  PROVE  call' \in [Call -> CallRec]
  <1>1. [call[o] EXCEPT !.pc = pc] \in CallRec
    BY IndexAssumption DEF TypeOK, CallRec
  <1> QED BY <1>1 DEF TypeOK, Goto

LEMMA TypeStep == TypeOK /\ [Next]_vars => TypeOK'
  <1> SUFFICES ASSUME TypeOK, [Next]_vars PROVE TypeOK'
    OBVIOUS
  <1>1. ASSUME NEW o \in Call, Lookup(o) PROVE TypeOK'
    <2>1. call' \in [Call -> CallRec]
      BY <1>1, GotoTyped DEF Lookup, CallPc, At
    <2> QED BY <1>1, <2>1 DEF Lookup, TypeOK, index, IndexTypeOK
  <1>2. ASSUME NEW o \in Call, SetKey(o) PROVE TypeOK'
    <2>1. call' \in [Call -> CallRec]
      BY <1>2, GotoTyped DEF SetKey, CallPc, At
    <2> QED BY <1>2, <2>1 DEF SetKey, TypeOK, IndexTypeOK
  <1>3. ASSUME NEW o \in Call, LookupAgain(o) PROVE TypeOK'
    <2>1. call' \in [Call -> CallRec]
      BY <1>3, GotoTyped DEF LookupAgain, CallPc, At
    <2> QED BY <1>3, <2>1 DEF LookupAgain, TypeOK, index, IndexTypeOK
  <1>4. ASSUME NEW o \in Call, Plan(o) PROVE TypeOK'
    <2>1. call' \in [Call -> CallRec]
      BY <1>4, GotoTyped DEF Plan, CallPc, At
    <2>2. dist' \in [Call -> [Position -> Dist]]
      BY <1>4, NewRoundTyped DEF Plan
    <2> QED BY <1>4, <2>1, <2>2 DEF Plan, TypeOK, index, IndexTypeOK
  <1>5. ASSUME NEW o \in Call, PlanFails(o) PROVE TypeOK'
    <2>1. call' \in [Call -> CallRec]
      BY <1>5, GotoTyped DEF PlanFails, CallPc, At
    <2> QED BY <1>5, <2>1 DEF PlanFails, TypeOK, index, IndexTypeOK
  <1>6. ASSUME NEW o \in Call, CreateTasks(o) PROVE TypeOK'
    <2>1. call' \in [Call -> CallRec]
      BY <1>6, GotoTyped DEF CreateTasks, CallPc, At
    <2> QED BY <1>6, <2>1 DEF CreateTasks, TypeOK, index, IndexTypeOK
  <1>7. ASSUME NEW o \in Call, NEW i \in Position, AskMiners(o, i)
        PROVE TypeOK'
    <2> DEFINE d == dist[o][i]
               free == {j \in DOMAIN d.uids : ~AtCapacity(d.uids[j])}
    <2>1. d \in Dist /\ d.uids \in Groups
      BY DEF TypeOK, Dist
    <2>2. free \in SUBSET Place
      BY <2>1, GroupDomain
    <2>3. [d EXCEPT !.at = "asked", !.asked = free] \in Dist
      <3>1. d.ok = {}
        BY <1>7, <2>1 DEF AskMiners, Dist
      <3> QED BY <2>1, <2>2, <3>1 DEF Dist
    <2>4. dist' \in [Call -> [Position -> Dist]]
      BY <1>7, <2>3, DistTyped DEF AskMiners
    <2> QED BY <1>7, <2>4 DEF AskMiners, TypeOK, index, IndexTypeOK
  <1>8. ASSUME NEW o \in Call, NEW i \in Position, StoreChunk(o, i)
        PROVE TypeOK'
    <2> DEFINE d == dist[o][i]
    <2>1. /\ d \in Dist /\ d.uids \in Groups
          /\ d.asked \in SUBSET Place /\ d.asked \subseteq DOMAIN d.uids
      BY DEF TypeOK, Dist
    <2>2. <<o, i>> \in Chunk
      BY DEF Chunk
    <2>3. PICK kept \in SUBSET d.asked, ok \in SUBSET d.asked :
            /\ MinersKeep(<<o, i>>, Miners(d, kept))
            /\ SetDist(o, i, [d EXCEPT !.at = "rowed", !.ok = ok])
      BY <1>8 DEF StoreChunk
    <2>4. disk' \in [Hotkey -> SUBSET Chunk]
      BY <2>2, <2>3 DEF MinersKeep, TypeOK
    <2>5. [d EXCEPT !.at = "rowed", !.ok = ok] \in Dist
      BY <2>1 DEF Dist
    <2>6. dist' \in [Call -> [Position -> Dist]]
      BY <2>3, <2>5, DistTyped
    <2>7. Miners(d, d.asked) \in SUBSET Hotkey
      BY <2>1, GroupDomain DEF Miners
    <2>8. row' \in [Chunk -> {None} \cup SUBSET Hotkey]
      BY <1>8, <2>7 DEF StoreChunk, StoreChunkMetadata, TypeOK, IndexTypeOK
    <2> QED BY <1>8, <2>4, <2>6, <2>8 DEF StoreChunk, TypeOK, IndexTypeOK
  <1>9. ASSUME NEW o \in Call, Gather(o) PROVE TypeOK'
    <2> DEFINE D == [i \in Position |-> [dist[o][i] EXCEPT
                       !.todo = 1..Cardinality(dist[o][i].asked)]]
    <2>1. ASSUME NEW i \in Position
          PROVE  [dist[o][i] EXCEPT !.todo = 1..Cardinality(dist[o][i].asked)]
                   \in Dist
      <3>1. dist[o][i] \in Dist /\ dist[o][i].asked \in SUBSET Place
        BY DEF TypeOK, Dist
      <3>2. 1..Cardinality(dist[o][i].asked) \in SUBSET Place
        BY <3>1, AnswersBounded
      <3> QED BY <3>1, <3>2, TodoTyped
    <2>2. D \in [Position -> Dist]
      BY <2>1
    <2>3. dist' \in [Call -> [Position -> Dist]]
      <3>1. dist' = [dist EXCEPT ![o] = D]
        BY <1>9 DEF Gather
      <3> HIDE DEF D
      <3> QED BY <2>2, <3>1, RoundTyped
    <2>4. call' \in [Call -> CallRec]
      BY <1>9, GotoTyped DEF Gather, CallPc, At
    <2> QED BY <1>9, <2>3, <2>4 DEF Gather, TypeOK, index, IndexTypeOK
  <1>10. ASSUME NEW o \in Call, NEW i \in Position, NEW j \in Place,
                HandleUid(o, i, j)
         PROVE  TypeOK'
    <2> DEFINE d == dist[o][i]
    <2>1. d \in Dist /\ <<o, i>> \in Chunk
      BY DEF TypeOK, Chunk
    <2>2. [d EXCEPT !.todo = @ \ {j}] \in Dist
      BY <2>1 DEF Dist
    <2>3. SetDist(o, i, [d EXCEPT !.todo = @ \ {j}])
      BY <1>10 DEF HandleUid
    <2>4. dist' \in [Call -> [Position -> Dist]]
      <3> HIDE DEF d
      <3> QED BY <2>2, <2>3, DistTyped
    <2>5. \/ held' = [held EXCEPT ![d.uids[j]] = @ \cup {<<o, i>>}]
          \/ held' = held
      BY <1>10 DEF HandleUid, AddMetadataToHotkey
    <2>6. held' \in [Hotkey -> SUBSET Chunk]
      <3>1. held \in [Hotkey -> SUBSET Chunk]
        BY DEF TypeOK, IndexTypeOK
      <3> HIDE DEF d
      <3> QED BY <2>1, <2>5, <3>1
    <2> QED BY <1>10, <2>4, <2>6 DEF HandleUid, TypeOK, IndexTypeOK
  <1>11. ASSUME NEW o \in Call, Reroll(o) PROVE TypeOK'
    <2>1. call' \in [Call -> CallRec]
      BY <1>11, IndexAssumption
         DEF Reroll, RoundOver, At, TypeOK, CallRec, CallPc
    <2>2. dist' \in [Call -> [Position -> Dist]]
      <3>1. PICK g \in [Position -> {s \in Group(Cardinality(Failures(o))) :
                                       \A j \in DOMAIN s : s[j] \notin Blamed(o)}] :
              dist' = [dist EXCEPT ![o] = [i \in Position |-> NewDist(g[i])]]
        BY <1>11 DEF Reroll
      <3>2. g \in [Position -> Group(Cardinality(Failures(o)))]
        BY RerollGroups
      <3> QED BY <3>1, <3>2, NewRoundTyped
    <2> QED BY <1>11, <2>1, <2>2 DEF Reroll, TypeOK, index, IndexTypeOK
  <1>12. ASSUME NEW o \in Call, EndRounds(o) PROVE TypeOK'
    <2>1. call' \in [Call -> CallRec]
      BY <1>12, GotoTyped DEF EndRounds, RoundOver, CallPc, At
    <2>2. dist' \in [Call -> [Position -> Dist]]
      BY <1>12, NoDistTyped DEF EndRounds, TypeOK
    <2> QED BY <1>12, <2>1, <2>2 DEF EndRounds, TypeOK, index, IndexTypeOK
  <1>13. ASSUME NEW o \in Call, MapChunk(o) PROVE TypeOK'
    <2> DEFINE n == call[o].mapped + 1
    <2>1. n \in Position /\ <<o, n>> \in Chunk
      BY <1>13, IndexAssumption
         DEF MapChunk, At, TypeOK, CallRec, Position, Chunk
    <2>2. call' \in [Call -> CallRec]
      <3>1. [call[o] EXCEPT !.mapped = n,
                            !.pc = IF n = NumChunks THEN "stored" ELSE "map"]
              \in CallRec
        <4>1. n \in 0..NumChunks /\ n \in 1..NumChunks
          BY <2>1, IndexAssumption DEF Position
        <4>2. call[o] \in CallRec
          BY DEF TypeOK
        <4>3. CASE n = NumChunks
          BY <4>1, <4>2, <4>3 DEF CallRec, CallPc
        <4>4. CASE n # NumChunks
          <5>1. n < NumChunks
            BY <4>1, <4>4, IndexAssumption
          <5> HIDE DEF n
          <5> QED BY <4>1, <4>2, <4>4, <5>1 DEF CallRec, CallPc
        <4> QED BY <4>3, <4>4
      <3> QED BY <1>13, <3>1 DEF MapChunk, TypeOK
    <2>3. file' \in [File -> SUBSET Chunk]
      BY <1>13, <2>1 DEF MapChunk, AddToFile, TypeOK, IndexTypeOK
    <2> QED BY <1>13, <2>2, <2>3 DEF MapChunk, TypeOK, IndexTypeOK
  <1>14. ASSUME NEW f \in File, DeleteLookup(f) PROVE TypeOK'
    <2>1. del' \in Del
      BY <1>14 DEF DeleteLookup, TypeOK, Del
    <2> QED BY <1>14, <2>1 DEF DeleteLookup, TypeOK, index, IndexTypeOK
  <1>15. CASE DeleteChunks
    <2>1. del' \in Del
      <3>1. \A S \in ChunksForFile(del.file) : S \in SUBSET Chunk
        BY <1>15 DEF DeleteChunks, TypeOK, IndexTypeOK, Del, ChunksForFile,
                     Rowed
      <3>2. del \in Del /\ del.file \in File
        BY <1>15 DEF DeleteChunks, TypeOK, Del
      <3>3. CASE del' = [del EXCEPT !.pc = "done"]
        BY <3>2, <3>3 DEF Del
      <3>4. ASSUME NEW S \in ChunksForFile(del.file),
                   del' = [del EXCEPT !.pc = "rows", !.left = S]
            PROVE  del' \in Del
        BY <3>1, <3>2, <3>4 DEF Del
      <3> QED BY <1>15, <3>3, <3>4 DEF DeleteChunks, DelGoto
    <2> QED BY <1>15, <2>1 DEF DeleteChunks, TypeOK, index, IndexTypeOK
  <1>16. CASE DeleteRow
    <2>1. del' \in Del
      BY <1>16 DEF DeleteRow, TypeOK, Del
    <2>2. row' \in [Chunk -> {None} \cup SUBSET Hotkey]
      BY <1>16 DEF DeleteRow, TypeOK, IndexTypeOK
    <2> QED BY <1>16, <2>1, <2>2 DEF DeleteRow, TypeOK, IndexTypeOK
  <1>17. CASE DeleteFile
    <2>1. del' \in Del
      BY <1>17 DEF DeleteFile, DelGoto, TypeOK, Del
    <2>2. file' \in [File -> SUBSET Chunk]
      BY <1>17 DEF DeleteFile, TypeOK, IndexTypeOK
    <2> QED BY <1>17, <2>1, <2>2 DEF DeleteFile, TypeOK, IndexTypeOK
  <1>18. ASSUME NEW f \in File, RetrieveLookup(f) PROVE TypeOK'
    <2>1. PICK S \in ChunksForFile(f) :
            ret' = [IdleRet EXCEPT !.pc = "fetch", !.file = f,
                                   !.who = [c \in S |-> row[c]]]
      BY <1>18 DEF RetrieveLookup
    <2>2. S \in SUBSET Chunk /\ \A c \in S : row[c] \in SUBSET Hotkey
      BY <2>1 DEF ChunksForFile, Rowed, TypeOK, IndexTypeOK
    <2>3. [c \in S |-> row[c]] \in [S -> SUBSET Hotkey]
      BY <2>2
    <2>4. [c \in S |-> row[c]]
            \in UNION {[T -> SUBSET Hotkey] : T \in SUBSET Chunk}
      BY <2>2, <2>3
    <2>5. ret' \in Ret
      BY <2>1, <2>4 DEF IdleRet, Ret
    <2> QED BY <1>18, <2>5 DEF RetrieveLookup, TypeOK, index, IndexTypeOK
  <1>19. CASE RetrieveFetch
    <2>1. DOMAIN ret.who \in SUBSET Chunk
      BY DEF TypeOK, Ret
    <2>2. ret' \in Ret
      BY <1>19, <2>1 DEF RetrieveFetch, TypeOK, Ret
    <2> QED BY <1>19, <2>2 DEF RetrieveFetch, TypeOK, index, IndexTypeOK
  <1>20. CASE RetrieveKey
    <2>1. ret' \in Ret
      BY <1>20 DEF RetrieveKey, TypeOK, IndexTypeOK, Ret
    <2> QED BY <1>20, <2>1 DEF RetrieveKey, TypeOK, index, IndexTypeOK
  <1>21. CASE Crash
    <2>1. call' \in [Call -> CallRec]
      <3>1. ASSUME NEW o \in Call
            PROVE  [call[o] EXCEPT !.pc = "killed"] \in CallRec
        BY DEF TypeOK, CallRec, CallPc
      <3> QED BY <1>21, <3>1 DEF Crash, TypeOK
    <2>2. dist' \in [Call -> [Position -> Dist]]
      BY <1>21, NoDistTyped DEF Crash
    <2>3. del' \in Del
      BY <1>21 DEF Crash, TypeOK, Del
    <2>4. ret' \in Ret
      <3>1. IdleRet \in Ret
        BY IdleRetTyped
      <3> QED BY <1>21, <3>1 DEF Crash
    <2> QED BY <1>21, <2>1, <2>2, <2>3, <2>4
            DEF Crash, TypeOK, index, IndexTypeOK
  <1>22. CASE UNCHANGED vars
    BY <1>22 DEF vars, index, TypeOK, IndexTypeOK
  <1> QED
    BY <1>1, <1>2, <1>3, <1>4, <1>5, <1>6, <1>7, <1>8, <1>9, <1>10, <1>11,
       <1>12, <1>13, <1>14, <1>15, <1>16, <1>17, <1>18, <1>19, <1>20, <1>21,
       <1>22
    DEF Next, StoreUserData, Proceed, Task, DeleteUserData, RetrieveUserData

\* Every reachable state is well typed: no index of a distribution leaves the
\* group it is about, a call maps no chunk beyond the last, and the file a
\* deletion or retrieval works on is a file.
THEOREM TypeCorrect == Spec => []TypeOK
  BY TypeInit, TypeStep, PTL DEF Spec

-----------------------------------------------------------------------------
(* What a step can do to each variable                                     *)

\* A distribution is replaced, or moved on by a step of its own chunk.
LEMMA DistSteps ==
  ASSUME TypeOK, [Next]_vars, NEW o \in Call, NEW i \in Position
  PROVE  \/ dist'[o][i] = dist[o][i]
         \/ dist'[o][i].at = "new" /\ call'[o].pc # "verify"
         \/ AskMiners(o, i) \/ StoreChunk(o, i) \/ Gather(o)
         \/ \E j \in Place : HandleUid(o, i, j)
  <1> DEFINE Goal == \/ dist'[o][i] = dist[o][i]
                     \/ dist'[o][i].at = "new" /\ call'[o].pc # "verify"
                     \/ AskMiners(o, i) \/ StoreChunk(o, i) \/ Gather(o)
                     \/ \E j \in Place : HandleUid(o, i, j)
  <1>1. CASE UNCHANGED dist
    BY <1>1
  <1>2. ASSUME NEW p \in Call, Plan(p) PROVE Goal
    <2>1. PICK g \in [Position -> Group(R)] :
            dist' = [dist EXCEPT ![p] = [k \in Position |-> NewDist(g[k])]]
      BY <1>2 DEF Plan
    <2>2. call'[p].pc = "round"
      BY <1>2 DEF Plan, Goto, TypeOK, CallRec
    <2> QED BY <2>1, <2>2 DEF NewDist, TypeOK
  <1>3. ASSUME NEW p \in Call, Reroll(p) PROVE Goal
    <2>1. PICK g : dist' =
            [dist EXCEPT ![p] = [k \in Position |-> NewDist(g[k])]]
      BY <1>3 DEF Reroll
    <2>2. call'[p].pc = "round"
      BY <1>3 DEF Reroll, TypeOK, CallRec
    <2> QED BY <2>1, <2>2 DEF NewDist, TypeOK
  <1>4. ASSUME NEW p \in Call, EndRounds(p) PROVE Goal
    <2>1. call'[p].pc = "map"
      BY <1>4 DEF EndRounds, Goto, TypeOK, CallRec
    <2> QED BY <1>4, <2>1 DEF EndRounds, NoDist, NewDist, TypeOK
  <1>5. CASE Crash
    <2>1. call'[o].pc # "verify"
      BY <1>5 DEF Crash, AtRest, TypeOK, CallRec
    <2> QED BY <1>5, <2>1 DEF Crash, NoDist, NewDist
  <1>6. ASSUME NEW p \in Call, Gather(p) PROVE Goal
    BY <1>6 DEF Gather, TypeOK
  <1>7. ASSUME NEW p \in Call, NEW k \in Position,
               AskMiners(p, k) \/ StoreChunk(p, k)
        PROVE  Goal
    <2>1. PICK d : dist' = [dist EXCEPT ![p][k] = d]
      BY <1>7 DEF AskMiners, StoreChunk, SetDist
    <2> QED BY <1>7, <2>1 DEF TypeOK
  <1>8. ASSUME NEW p \in Call, NEW k \in Position, NEW j \in Place,
               HandleUid(p, k, j)
        PROVE  Goal
    <2>1. PICK d : dist' = [dist EXCEPT ![p][k] = d]
      BY <1>8 DEF HandleUid, SetDist
    <2> QED BY <1>8, <2>1 DEF TypeOK
  <1>9. CASE UNCHANGED vars
    BY <1>9 DEF vars
  <1> QED
    BY <1>1, <1>2, <1>3, <1>4, <1>5, <1>6, <1>7, <1>8, <1>9
    DEF Next, StoreUserData, Lookup, Proceed, SetKey, LookupAgain, PlanFails,
        CreateTasks, Task, MapChunk, DeleteUserData, DeleteLookup,
        DeleteChunks, DeleteRow, DeleteFile, RetrieveUserData,
        RetrieveLookup, RetrieveFetch, RetrieveKey

\* A call verifies after its answers are gathered, and maps after its rounds.
LEMMA CallSteps ==
  ASSUME TypeOK, [Next]_vars, NEW o \in Call
  PROVE  /\ call'[o].pc = "verify" => call[o].pc = "verify" \/ Gather(o)
         /\ call'[o].pc = "map" => call[o].pc = "map" \/ EndRounds(o)
  <1> DEFINE Goal ==
        /\ call'[o].pc = "verify" => call[o].pc = "verify" \/ Gather(o)
        /\ call'[o].pc = "map" => call[o].pc = "map" \/ EndRounds(o)
  <1>1. CASE UNCHANGED call
    BY <1>1
  <1>2. ASSUME NEW p \in Call, NEW pc, pc \notin {"verify", "map"},
               Goto(p, pc)
        PROVE  Goal
    BY <1>2 DEF Goto, TypeOK, CallRec
  <1>3. ASSUME NEW p \in Call, Gather(p) PROVE Goal
    BY <1>3 DEF Gather, Goto, TypeOK, CallRec
  <1>4. ASSUME NEW p \in Call, Reroll(p) PROVE Goal
    BY <1>4 DEF Reroll, TypeOK, CallRec
  <1>5. ASSUME NEW p \in Call, EndRounds(p) PROVE Goal
    BY <1>5 DEF EndRounds, Goto, TypeOK, CallRec
  <1>6. ASSUME NEW p \in Call, MapChunk(p) PROVE Goal
    BY <1>6 DEF MapChunk, At, TypeOK, CallRec
  <1>7. CASE Crash
    BY <1>7 DEF Crash, TypeOK, CallRec
  <1>8. ASSUME NEW p \in Call,
               \/ Lookup(p) \/ SetKey(p) \/ LookupAgain(p) \/ Plan(p)
               \/ PlanFails(p) \/ CreateTasks(p)
        PROVE  Goal
    <2>1. \E pc : pc \notin {"verify", "map"} /\ Goto(p, pc)
      BY <1>8 DEF Lookup, SetKey, LookupAgain, Plan, PlanFails, CreateTasks
    <2> QED BY <1>2, <2>1
  <1>9. CASE UNCHANGED vars
    BY <1>9 DEF vars
  <1> QED
    BY <1>1, <1>3, <1>4, <1>5, <1>6, <1>7, <1>8, <1>9
    DEF Next, StoreUserData, Proceed, Task, AskMiners, StoreChunk, HandleUid,
        DeleteUserData, DeleteLookup, DeleteChunks, DeleteRow, DeleteFile,
        RetrieveUserData, RetrieveLookup, RetrieveFetch, RetrieveKey

\* Without a deletion, what is listed for a chunk stays listed.
LEMMA RowSteps ==
  ASSUME TypeOK, [Next]_vars, del.pc = "idle", NEW c \in Chunk, row[c] # None
  PROVE  row'[c] # None /\ row[c] \subseteq row'[c]
  <1> DEFINE Goal == row'[c] # None /\ row[c] \subseteq row'[c]
  <1>1. CASE UNCHANGED row
    BY <1>1
  <1>2. ASSUME NEW o \in Call, NEW i \in Position, StoreChunk(o, i)
        PROVE  Goal
    <2> DEFINE hks == Miners(dist[o][i], dist[o][i].asked)
    <2>1. hks \in SUBSET Hotkey
      <3>1. /\ dist[o][i].uids \in Groups
            /\ dist[o][i].asked \subseteq DOMAIN dist[o][i].uids
        BY DEF TypeOK, Dist
      <3> QED BY <3>1, GroupDomain DEF Miners
    <2>2. row' = [row EXCEPT ![<<o, i>>] = IF @ = None THEN hks ELSE @ \cup hks]
      BY <1>2 DEF StoreChunk, StoreChunkMetadata
    <2>3. row[c] \in SUBSET Hotkey /\ row[c] \cup hks \in SUBSET Hotkey
      <3> HIDE DEF hks
      <3> QED BY <2>1 DEF TypeOK, IndexTypeOK
    <2>4. row[c] \cup hks # None
      BY <2>3, IndexAssumption
    <2> HIDE DEF hks
    <2> QED BY <2>2, <2>3, <2>4 DEF TypeOK, IndexTypeOK
  <1>3. CASE UNCHANGED vars
    BY <1>3 DEF vars, index
  <1> QED
    BY <1>1, <1>2, <1>3
    DEF Next, StoreUserData, Lookup, Proceed, SetKey, LookupAgain, Plan,
        PlanFails, CreateTasks, Task, AskMiners, HandleUid, Gather, Reroll,
        EndRounds, MapChunk, DeleteUserData, DeleteLookup, DeleteChunks,
        DeleteRow, DeleteFile, RetrieveUserData, RetrieveLookup,
        RetrieveFetch, RetrieveKey, Crash, index

\* Miners keep what they store.
LEMMA DiskSteps ==
  ASSUME TypeOK, [Next]_vars, NEW hk \in Hotkey
  PROVE  disk[hk] \subseteq disk'[hk]
  <1>1. CASE UNCHANGED disk
    BY <1>1
  <1>2. ASSUME NEW o \in Call, NEW i \in Position, StoreChunk(o, i)
        PROVE  disk[hk] \subseteq disk'[hk]
    BY <1>2 DEF StoreChunk, MinersKeep
  <1>3. CASE UNCHANGED vars
    BY <1>3 DEF vars
  <1> QED
    BY <1>1, <1>2, <1>3
    DEF Next, StoreUserData, Lookup, Proceed, SetKey, LookupAgain, Plan,
        PlanFails, CreateTasks, Task, AskMiners, HandleUid, Gather, Reroll,
        EndRounds, MapChunk, DeleteUserData, DeleteLookup, DeleteChunks,
        DeleteRow, DeleteFile, RetrieveUserData, RetrieveLookup,
        RetrieveFetch, RetrieveKey, Crash

\* Only a verified answer is credited.
LEMMA HeldSteps ==
  ASSUME TypeOK, [Next]_vars, NEW hk \in Hotkey, NEW c \in held'[hk],
         c \notin held[hk]
  PROVE  \E o \in Call, i \in Position, j \in Place :
           /\ HandleUid(o, i, j)
           /\ c = <<o, i>>
           /\ hk = dist[o][i].uids[j]
           /\ Answerer(dist[o][i].asked, j) \in dist[o][i].ok
  <1>1. ~ UNCHANGED held
    OBVIOUS
  <1>2. PICK o \in Call, i \in Position, j \in Place : HandleUid(o, i, j)
    BY <1>1
    DEF Next, StoreUserData, Lookup, Proceed, SetKey, LookupAgain, Plan,
        PlanFails, CreateTasks, Task, AskMiners, StoreChunk, Gather, Reroll,
        EndRounds, MapChunk, DeleteUserData, DeleteLookup, DeleteChunks,
        DeleteRow, DeleteFile, RetrieveUserData, RetrieveLookup,
        RetrieveFetch, RetrieveKey, Crash, index, vars
  <1> DEFINE d == dist[o][i]
  <1>3. /\ Answerer(d.asked, j) \in d.ok
        /\ held' = [held EXCEPT ![d.uids[j]] = @ \cup {<<o, i>>}]
    BY <1>1, <1>2 DEF HandleUid, AddMetadataToHotkey
  <1>4. hk = d.uids[j] /\ c = <<o, i>>
    <2> HIDE DEF d
    <2> QED BY <1>3 DEF TypeOK, IndexTypeOK
  <1> QED BY <1>2, <1>3, <1>4

\* A file gets the next chunk of a call that maps, and no other.
LEMMA FileSteps ==
  ASSUME TypeOK, [Next]_vars, NEW f \in File, NEW c \in file'[f],
         c \notin file[f]
  PROVE  \E o \in Call : At(o, "map") /\ \E i \in Position : c = <<o, i>>
  <1>1. CASE UNCHANGED file
    BY <1>1
  <1>2. ASSUME NEW o \in Call, MapChunk(o)
        PROVE  At(o, "map") /\ \E i \in Position : c = <<o, i>>
    <2> DEFINE n == call[o].mapped + 1
    <2>1. At(o, "map") /\ n \in Position
      BY <1>2, IndexAssumption DEF MapChunk, At, TypeOK, CallRec, Position
    <2>2. c = <<o, n>>
      BY <1>2 DEF MapChunk, AddToFile, TypeOK, IndexTypeOK
    <2> QED BY <2>1, <2>2
  <1>3. CASE DeleteFile
    BY <1>3 DEF DeleteFile, TypeOK, IndexTypeOK
  <1>4. CASE UNCHANGED vars
    BY <1>4 DEF vars, index
  <1> QED
    BY <1>1, <1>2, <1>3, <1>4, ZenonT(60)
    DEF Next, StoreUserData, Lookup, Proceed, SetKey, LookupAgain, Plan,
        PlanFails, CreateTasks, Task, AskMiners, StoreChunk, HandleUid,
        Gather, Reroll, EndRounds, DeleteUserData, DeleteLookup,
        DeleteChunks, DeleteRow, RetrieveUserData, RetrieveLookup,
        RetrieveFetch, RetrieveKey, Crash, index

-----------------------------------------------------------------------------
(* Every chunk of a file has its metadata                                  *)

\* Answers are verified when the metadata of every chunk is written.
VerifyRowed ==
  \A o \in Call : At(o, "verify") =>
    \A i \in Position : dist[o][i].at = "rowed"

\* After its answers a chunk lists the miners that were asked.
RowedListed ==
  \A o \in Call, i \in Position : dist[o][i].at = "rowed" =>
    /\ row[<<o, i>>] # None
    /\ Miners(dist[o][i], dist[o][i].asked) \subseteq row[<<o, i>>]

\* A call maps only chunks that have metadata.
MapListed ==
  \A o \in Call : At(o, "map") => \A i \in Position : row[<<o, i>>] # None

ListInv ==
  /\ TypeOK /\ del.pc = "idle" /\ VerifyRowed /\ RowedListed /\ MapListed
  /\ MappedListed

LEMMA VerifyRowedStep == TypeOK /\ VerifyRowed /\ [Next]_vars => VerifyRowed'
  <1> SUFFICES ASSUME TypeOK, VerifyRowed, [Next]_vars, NEW o \in Call,
                      call'[o].pc = "verify", NEW i \in Position
               PROVE  dist'[o][i].at = "rowed"
    BY DEF VerifyRowed, At
  <1>1. CASE Gather(o)
    BY <1>1 DEF Gather, TypeOK, Dist
  <1>2. CASE call[o].pc = "verify"
    <2>1. dist[o][i].at = "rowed"
      BY <1>2 DEF VerifyRowed, At
    <2>2. ASSUME NEW j \in Place, HandleUid(o, i, j)
          PROVE  dist'[o][i].at = "rowed"
      BY <2>1, <2>2 DEF HandleUid, SetDist, TypeOK, Dist
    <2> QED BY <1>1, <1>2, <2>1, <2>2, DistSteps
            DEF AskMiners, StoreChunk, At
  <1> QED BY <1>1, <1>2, CallSteps

\* What StoreChunk writes for its own chunk.
LEMMA StoreChunkLists ==
  ASSUME TypeOK, NEW o \in Call, NEW i \in Position, StoreChunk(o, i)
  PROVE  /\ dist'[o][i].uids = dist[o][i].uids
         /\ dist'[o][i].asked = dist[o][i].asked
         /\ row'[<<o, i>>] # None
         /\ Miners(dist[o][i], dist[o][i].asked) \subseteq row'[<<o, i>>]
  <1> DEFINE d == dist[o][i]
             hks == Miners(d, d.asked)
  <1>1. d \in Dist /\ <<o, i>> \in Chunk
    BY DEF TypeOK, Chunk
  <1>2. PICK ok : dist' = [dist EXCEPT ![o][i] =
                             [d EXCEPT !.at = "rowed", !.ok = ok]]
    BY DEF StoreChunk, SetDist
  <1>3. dist'[o][i].uids = d.uids /\ dist'[o][i].asked = d.asked
    BY <1>1, <1>2 DEF TypeOK, Dist
  <1>4. hks \in SUBSET Hotkey
    <2>1. d.uids \in Groups /\ d.asked \subseteq DOMAIN d.uids
      BY <1>1 DEF Dist
    <2> QED BY <2>1, GroupDomain DEF Miners
  <1>5. row' = [row EXCEPT ![<<o, i>>] = IF @ = None THEN hks ELSE @ \cup hks]
    BY DEF StoreChunk, StoreChunkMetadata
  <1>6. row'[<<o, i>>] # None /\ hks \subseteq row'[<<o, i>>]
    <2> HIDE DEF hks
    <2>1. CASE row[<<o, i>>] = None
      BY <1>1, <1>4, <1>5, <2>1, IndexAssumption DEF TypeOK, IndexTypeOK
    <2>2. CASE row[<<o, i>>] # None
      <3>1. row[<<o, i>>] \in SUBSET Hotkey
        BY <1>1, <2>2 DEF TypeOK, IndexTypeOK
      <3>2. row[<<o, i>>] \cup hks # None
        BY <1>4, <3>1, IndexAssumption
      <3> QED BY <1>1, <1>5, <2>2, <3>2 DEF TypeOK, IndexTypeOK
    <2> QED BY <2>1, <2>2
  <1> QED BY <1>3, <1>6

LEMMA AskMinersAsks ==
  ASSUME TypeOK, NEW o \in Call, NEW i \in Position, AskMiners(o, i)
  PROVE  /\ dist'[o][i].at = "asked"
         /\ dist'[o][i].uids = dist[o][i].uids
         /\ dist'[o][i].asked =
              {j \in DOMAIN dist[o][i].uids : ~AtCapacity(dist[o][i].uids[j])}
  <1> DEFINE S ==
        {j \in DOMAIN dist[o][i].uids : ~AtCapacity(dist[o][i].uids[j])}
  <1>1. dist' = [dist EXCEPT ![o][i] =
                   [dist[o][i] EXCEPT !.at = "asked", !.asked = S]]
    BY DEF AskMiners, SetDist
  <1> HIDE DEF S
  <1>2. /\ dist'[o][i].at = "asked" /\ dist'[o][i].asked = S
        /\ dist'[o][i].uids = dist[o][i].uids
    BY <1>1 DEF TypeOK, Dist
  <1> QED BY <1>2 DEF S

LEMMA RowedListedStep ==
  TypeOK /\ del.pc = "idle" /\ RowedListed /\ [Next]_vars => RowedListed'
  <1> SUFFICES ASSUME TypeOK, del.pc = "idle", RowedListed, [Next]_vars,
                      NEW o \in Call, NEW i \in Position,
                      dist'[o][i].at = "rowed"
               PROVE  /\ row'[<<o, i>>] # None
                      /\ Miners(dist'[o][i], dist'[o][i].asked)
                           \subseteq row'[<<o, i>>]
    BY DEF RowedListed, Miners
  <1>1. CASE StoreChunk(o, i)
    BY <1>1, StoreChunkLists DEF Miners
  <1>2. ASSUME dist[o][i].at = "rowed",
               dist'[o][i].uids = dist[o][i].uids,
               dist'[o][i].asked = dist[o][i].asked
        PROVE  /\ row'[<<o, i>>] # None
               /\ Miners(dist'[o][i], dist'[o][i].asked)
                    \subseteq row'[<<o, i>>]
    <2>1. /\ <<o, i>> \in Chunk
          /\ row[<<o, i>>] # None
          /\ Miners(dist[o][i], dist[o][i].asked) \subseteq row[<<o, i>>]
      BY <1>2 DEF RowedListed, Chunk
    <2>2. Miners(dist'[o][i], dist'[o][i].asked)
            = Miners(dist[o][i], dist[o][i].asked)
      BY <1>2 DEF Miners
    <2> QED BY <2>1, <2>2, RowSteps
  <1>3. ASSUME NEW j \in Place, HandleUid(o, i, j)
        PROVE  /\ dist[o][i].at = "rowed"
               /\ dist'[o][i].uids = dist[o][i].uids
               /\ dist'[o][i].asked = dist[o][i].asked
    BY <1>3 DEF HandleUid, SetDist, TypeOK, Dist
  <1>4. CASE Gather(o)
    <2>1. /\ dist[o][i].at = "rowed"
          /\ dist'[o][i].uids = dist[o][i].uids
          /\ dist'[o][i].asked = dist[o][i].asked
      BY <1>4 DEF Gather, TypeOK, Dist
    <2> QED BY <1>2, <2>1
  <1>5. CASE AskMiners(o, i)
    <2>1. dist'[o][i].at = "asked"
      BY <1>5, AskMinersAsks
    <2> QED BY <2>1
  <1> QED BY <1>1, <1>2, <1>3, <1>4, <1>5, DistSteps

LEMMA MapListedStep ==
  ListInv /\ [Next]_vars => MapListed'
  <1> SUFFICES ASSUME ListInv, [Next]_vars, NEW o \in Call,
                      call'[o].pc = "map", NEW i \in Position
               PROVE  row'[<<o, i>>] # None
    BY DEF MapListed, At
  <1>1. <<o, i>> \in Chunk
    BY DEF Chunk
  <1>2. row[<<o, i>>] # None
    <2>1. CASE call[o].pc = "map"
      BY <2>1 DEF ListInv, MapListed, At
    <2>2. CASE EndRounds(o)
      BY <2>2 DEF EndRounds, RoundOver, ListInv, VerifyRowed, RowedListed
    <2> QED BY <2>1, <2>2, CallSteps DEF ListInv
  <1> QED BY <1>1, <1>2, RowSteps DEF ListInv

LEMMA MappedListedStep ==
  ListInv /\ [Next]_vars => MappedListed'
  <1> SUFFICES ASSUME ListInv, [Next]_vars, NEW f \in File, NEW c \in file'[f]
               PROVE  row'[c] # None
    BY DEF MappedListed
  <1>1. CASE c \in file[f]
    <2>1. c \in Chunk /\ row[c] # None
      BY <1>1 DEF ListInv, MappedListed, TypeOK, IndexTypeOK
    <2> QED BY <2>1, RowSteps DEF ListInv
  <1>2. CASE c \notin file[f]
    <2>1. PICK o \in Call, i \in Position : At(o, "map") /\ c = <<o, i>>
      BY <1>2, FileSteps DEF ListInv
    <2>2. c \in Chunk /\ row[c] # None
      BY <2>1 DEF ListInv, MapListed, Chunk
    <2> QED BY <2>2, RowSteps DEF ListInv
  <1> QED BY <1>1, <1>2

LEMMA UndeletedStep ==
  ASSUME "delete" \notin Requests, del.pc = "idle", [Next]_vars
  PROVE  del'.pc = "idle"
  BY ZenonT(60) DEF Next, StoreUserData, Lookup, Proceed, SetKey, LookupAgain, Plan,
         PlanFails, CreateTasks, Task, AskMiners, StoreChunk, HandleUid,
         Gather, Reroll, EndRounds, MapChunk, DeleteUserData, DeleteLookup,
         DeleteChunks, DeleteRow, DeleteFile, RetrieveUserData,
         RetrieveLookup, RetrieveFetch, RetrieveKey, Crash, vars

LEMMA ListInvCorrect ==
  ASSUME "delete" \notin Requests
  PROVE  Spec => []ListInv
  <1>1. Init => ListInv
    <2> SUFFICES ASSUME Init PROVE ListInv
      OBVIOUS
    <2>1. TypeOK
      BY TypeInit
    <2>2. VerifyRowed /\ MapListed
      BY DEF Init, VerifyRowed, MapListed, At
    <2>3. RowedListed
      BY DEF Init, RowedListed, NoDist, NewDist
    <2>4. MappedListed /\ del.pc = "idle"
      BY DEF Init, EmptyIndex, MappedListed, IdleDel
    <2> QED BY <2>1, <2>2, <2>3, <2>4 DEF ListInv
  <1>2. ListInv /\ [Next]_vars => ListInv'
    <2> SUFFICES ASSUME ListInv, [Next]_vars PROVE ListInv'
      OBVIOUS
    <2>1. TypeOK' /\ VerifyRowed' /\ RowedListed'
      BY TypeStep, VerifyRowedStep, RowedListedStep DEF ListInv
    <2>2. MapListed' /\ MappedListed'
      BY MapListedStep, MappedListedStep
    <2>3. del'.pc = "idle"
      BY UndeletedStep DEF ListInv
    <2> QED BY <2>1, <2>2, <2>3 DEF ListInv
  <1> QED BY <1>1, <1>2, PTL DEF Spec

\* Where nothing is deleted, no file ever lists a chunk without metadata:
\* however calls overlap, whatever miners answer, wherever the API node is
\* killed.
THEOREM MappedListedCorrect ==
  ASSUME "delete" \notin Requests
  PROVE  Spec => []MappedListed
  <1>1. ListInv => MappedListed
    BY DEF ListInv
  <1> QED BY <1>1, ListInvCorrect, PTL

-----------------------------------------------------------------------------
(* While no miner is full, what is credited is held                        *)

\* Every miner of a group is asked, and what verifies is on its disk.  A full miner is
\* left out of the request and not out of the uids, which shifts the answers of the others.
AllAsked ==
  \A o \in Call, i \in Position : dist[o][i].at # "new" =>
    dist[o][i].asked = DOMAIN dist[o][i].uids
Proven ==
  \A o \in Call, i \in Position : dist[o][i].at = "rowed" =>
    \A j \in dist[o][i].ok : <<o, i>> \in disk[dist[o][i].uids[j]]

\* Answers are handled for miners that were asked.
TodoAsked ==
  \A o \in Call : At(o, "verify") => \A i \in Position :
    dist[o][i].todo \subseteq dist[o][i].asked

HeldFinite == \A hk \in Hotkey : IsFiniteSet(held[hk])

CreditInv ==
  /\ TypeOK /\ VerifyRowed /\ Proven /\ HeldFinite
  /\ NoneFull => AllAsked /\ TodoAsked /\ CreditedHolds

\* Credits are added one by one and never taken away.
LEMMA HeldGrows ==
  ASSUME TypeOK, HeldFinite, [Next]_vars, NEW hk \in Hotkey
  PROVE  held[hk] \subseteq held'[hk] /\ IsFiniteSet(held'[hk])
  <1>1. CASE UNCHANGED held
    BY <1>1 DEF HeldFinite
  <1>2. ASSUME NEW o \in Call, NEW i \in Position, NEW j \in Place, HandleUid(o, i, j)
        PROVE  held[hk] \subseteq held'[hk] /\ IsFiniteSet(held'[hk])
    <2>1. CASE UNCHANGED held
      BY <2>1 DEF HeldFinite
    <2>2. ASSUME NEW miner, AddMetadataToHotkey(miner, <<o, i>>)
          PROVE  held[hk] \subseteq held'[hk] /\ IsFiniteSet(held'[hk])
      <3>1. held'[hk] \in {held[hk], held[hk] \cup {<<o, i>>}}
        BY <2>2 DEF AddMetadataToHotkey, TypeOK, IndexTypeOK
      <3>2. IsFiniteSet(held[hk])
        BY DEF HeldFinite
      <3> QED BY <3>1, <3>2, FS_AddElement
    <2> QED BY <1>2, <2>1, <2>2 DEF HandleUid
  <1> QED BY <1>1, <1>2
      DEF Next, StoreUserData, Lookup, Proceed, SetKey, LookupAgain, Plan,
          PlanFails, CreateTasks, Task, AskMiners, StoreChunk, Gather, Reroll,
          EndRounds, MapChunk, DeleteUserData, DeleteLookup, DeleteChunks,
          DeleteRow, DeleteFile, RetrieveUserData, RetrieveLookup,
          RetrieveFetch, RetrieveKey, Crash, index, vars

\* Who is full stays full.
LEMMA FullStays ==
  ASSUME TypeOK, HeldFinite, [Next]_vars, NoneFull'
  PROVE  NoneFull
  <1> SUFFICES ASSUME NEW hk \in Hotkey PROVE ~AtCapacity(hk)
    BY DEF NoneFull
  <1>1. /\ Cardinality(held[hk]) <= Cardinality(held'[hk])
        /\ Cardinality(held[hk]) \in Nat /\ Cardinality(held'[hk]) \in Nat
    <2>1. held[hk] \in SUBSET held'[hk] /\ IsFiniteSet(held'[hk])
      BY HeldGrows
    <2> QED BY <2>1, FS_Subset, FS_CardinalityType
  <1>2. ~(Cardinality(held'[hk]) >= Limit[hk]) /\ Limit[hk] \in Nat
    BY IndexAssumption DEF NoneFull, AtCapacity
  <1> QED BY <1>1, <1>2 DEF AtCapacity

\* The j-th answer of a group that was asked as a whole is the j-th miner's.
LEMMA AnswererOfGroup ==
  ASSUME NEW s \in Groups
  PROVE  /\ 1..Cardinality(DOMAIN s) = DOMAIN s
         /\ \A j \in DOMAIN s : Answerer(DOMAIN s, j) = j
  <1>1. PICK m \in 0..Cardinality(Hotkey) : DOMAIN s = 1..m
    BY GroupShape
  <1>2. m \in Nat /\ Cardinality(1..m) = m
    BY MinersCounted, FS_Interval
  <1>3. \A j \in 1..m : Answerer(1..m, j) = j
    BY <1>2, AnswererSelf
  <1> QED BY <1>1, <1>2, <1>3

LEMMA AllAskedStep ==
  NoneFull /\ TypeOK /\ AllAsked /\ [Next]_vars => AllAsked'
  <1> SUFFICES ASSUME NoneFull, TypeOK, AllAsked, [Next]_vars,
                      NEW o \in Call, NEW i \in Position,
                      dist'[o][i].at # "new"
               PROVE  dist'[o][i].asked = DOMAIN dist'[o][i].uids
    BY DEF AllAsked
  <1>1. CASE dist'[o][i] = dist[o][i]
    BY <1>1 DEF AllAsked
  <1>2. CASE AskMiners(o, i)
    <2>1. \A j \in DOMAIN dist[o][i].uids : ~AtCapacity(dist[o][i].uids[j])
      <3>1. dist[o][i].uids \in Groups
        BY DEF TypeOK, Dist
      <3> QED BY <3>1, GroupDomain DEF NoneFull
    <2> QED BY <1>2, <2>1, AskMinersAsks
  <1>3. CASE StoreChunk(o, i)
    <2>1. dist[o][i].at # "new"
      BY <1>3 DEF StoreChunk
    <2>2. dist[o][i].asked = DOMAIN dist[o][i].uids
      BY <2>1 DEF AllAsked
    <2>3. /\ dist'[o][i].uids = dist[o][i].uids
          /\ dist'[o][i].asked = dist[o][i].asked
      BY <1>3, StoreChunkLists
    <2> QED BY <2>2, <2>3
  <1>4. CASE Gather(o)
    <2>1. /\ dist[o][i].at = "rowed"
          /\ dist'[o][i].uids = dist[o][i].uids
          /\ dist'[o][i].asked = dist[o][i].asked
      BY <1>4 DEF Gather, TypeOK, Dist
    <2> QED BY <2>1 DEF AllAsked
  <1>5. ASSUME NEW j \in Place, HandleUid(o, i, j)
        PROVE  dist'[o][i].asked = DOMAIN dist'[o][i].uids
    <2>1. /\ dist'[o][i].at = dist[o][i].at
          /\ dist'[o][i].uids = dist[o][i].uids
          /\ dist'[o][i].asked = dist[o][i].asked
      BY <1>5 DEF HandleUid, SetDist, TypeOK, Dist
    <2> QED BY <2>1 DEF AllAsked
  <1> QED BY <1>1, <1>2, <1>3, <1>4, <1>5, DistSteps

LEMMA ProvenStep ==
  TypeOK /\ Proven /\ [Next]_vars => Proven'
  <1> SUFFICES ASSUME TypeOK, Proven, [Next]_vars,
                      NEW o \in Call, NEW i \in Position,
                      dist'[o][i].at = "rowed", NEW j \in dist'[o][i].ok
               PROVE  <<o, i>> \in disk'[dist'[o][i].uids[j]]
    BY DEF Proven
  <1>1. ASSUME dist[o][i].at = "rowed",
               dist'[o][i].uids = dist[o][i].uids,
               dist'[o][i].ok = dist[o][i].ok
        PROVE  <<o, i>> \in disk'[dist'[o][i].uids[j]]
    <2>1. <<o, i>> \in disk[dist[o][i].uids[j]]
      BY <1>1 DEF Proven
    <2>2. dist[o][i].uids[j] \in Hotkey
      <3>1. dist[o][i].uids \in Groups /\ j \in DOMAIN dist[o][i].uids
        BY <1>1 DEF TypeOK, Dist
      <3> QED BY <3>1, GroupDomain
    <2> QED BY <1>1, <2>1, <2>2, DiskSteps
  <1>2. CASE AskMiners(o, i)
    BY <1>2, AskMinersAsks
  <1>3. CASE StoreChunk(o, i)
    <2> DEFINE d == dist[o][i]
    <2>1. PICK kept \in SUBSET d.asked, ok \in SUBSET d.asked :
            /\ ok \subseteq kept
            /\ MinersKeep(<<o, i>>, Miners(d, kept))
            /\ SetDist(o, i, [d EXCEPT !.at = "rowed", !.ok = ok])
      BY <1>3 DEF StoreChunk
    <2>2. dist'[o][i].uids = d.uids /\ dist'[o][i].ok = ok
      BY <2>1 DEF SetDist, TypeOK, Dist
    <2>3. d.uids[j] \in Hotkey /\ d.uids[j] \in Miners(d, kept)
      <3>1. d.uids \in Groups /\ d.asked \subseteq DOMAIN d.uids
        BY DEF TypeOK, Dist
      <3>2. j \in kept /\ j \in DOMAIN d.uids
        BY <2>1, <2>2, <3>1
      <3> QED BY <3>1, <3>2, GroupDomain DEF Miners
    <2> QED BY <2>1, <2>2, <2>3 DEF MinersKeep
  <1>4. CASE Gather(o)
    <2>1. /\ dist[o][i].at = "rowed"
          /\ dist'[o][i].uids = dist[o][i].uids
          /\ dist'[o][i].ok = dist[o][i].ok
      BY <1>4 DEF Gather, TypeOK, Dist
    <2> QED BY <1>1, <2>1
  <1>5. ASSUME NEW k \in Place, HandleUid(o, i, k)
        PROVE  /\ dist[o][i].at = "rowed"
               /\ dist'[o][i].uids = dist[o][i].uids
               /\ dist'[o][i].ok = dist[o][i].ok
    BY <1>5 DEF HandleUid, SetDist, TypeOK, Dist
  <1> QED BY <1>1, <1>2, <1>3, <1>4, <1>5, DistSteps

LEMMA TodoAskedStep ==
  TypeOK /\ VerifyRowed /\ AllAsked /\ TodoAsked /\ [Next]_vars => TodoAsked'
  <1> SUFFICES ASSUME TypeOK, VerifyRowed, AllAsked, TodoAsked, [Next]_vars,
                      NEW o \in Call, call'[o].pc = "verify",
                      NEW i \in Position
               PROVE  dist'[o][i].todo \subseteq dist'[o][i].asked
    BY DEF TodoAsked, At
  <1>1. CASE Gather(o)
    <2>1. /\ dist[o][i].asked = DOMAIN dist[o][i].uids
          /\ dist[o][i].uids \in Groups
      BY <1>1 DEF Gather, AllAsked, TypeOK, Dist
    <2>2. /\ dist'[o][i].todo = 1..Cardinality(dist[o][i].asked)
          /\ dist'[o][i].asked = dist[o][i].asked
      BY <1>1 DEF Gather, TypeOK, Dist
    <2> QED BY <2>1, <2>2, AnswererOfGroup
  <1>2. CASE call[o].pc = "verify"
    <2>1. dist[o][i].todo \subseteq dist[o][i].asked
      BY <1>2 DEF TodoAsked, At
    <2>2. ASSUME NEW j \in Place, HandleUid(o, i, j)
          PROVE  dist'[o][i].todo \subseteq dist'[o][i].asked
      BY <2>1, <2>2 DEF HandleUid, SetDist, TypeOK, Dist
    <2>3. dist'[o][i].at = "rowed"
      BY VerifyRowedStep DEF VerifyRowed, At
    <2> QED BY <1>1, <1>2, <2>1, <2>2, <2>3, DistSteps
            DEF AskMiners, StoreChunk, At
  <1> QED BY <1>1, <1>2, CallSteps

\* The pair that is credited: the miner holds the chunk.
LEMMA CreditedPair ==
  ASSUME CreditInv, NoneFull, NEW o \in Call, NEW i \in Position, NEW j \in Place,
         HandleUid(o, i, j), Answerer(dist[o][i].asked, j) \in dist[o][i].ok
  PROVE  <<o, i>> \in disk[dist[o][i].uids[j]]
  <1>1. At(o, "verify") /\ j \in dist[o][i].todo
    BY DEF HandleUid
  <1>2. dist[o][i].at = "rowed" /\ j \in dist[o][i].asked
    BY <1>1 DEF CreditInv, VerifyRowed, TodoAsked
  <1>3. /\ dist[o][i].asked = DOMAIN dist[o][i].uids
        /\ dist[o][i].uids \in Groups
    BY <1>2 DEF CreditInv, AllAsked, TypeOK, Dist
  <1>4. j \in dist[o][i].ok
    BY <1>2, <1>3, AnswererOfGroup
  <1> QED BY <1>2, <1>4 DEF CreditInv, Proven

LEMMA CreditedHoldsStep == CreditInv /\ NoneFull /\ [Next]_vars => CreditedHolds'
  <1> SUFFICES ASSUME CreditInv, NoneFull, [Next]_vars, NEW hk \in Hotkey,
                      NEW c \in held'[hk]
               PROVE  c \in disk'[hk]
    BY DEF CreditedHolds
  <1>1. c \in disk[hk]
    <2>1. CASE c \in held[hk]
      BY <2>1 DEF CreditInv, CreditedHolds
    <2>2. CASE c \notin held[hk]
      BY <2>2, HeldSteps, CreditedPair DEF CreditInv
    <2> QED BY <2>1, <2>2
  <1> QED BY <1>1, DiskSteps DEF CreditInv

LEMMA CreditInvCorrect == Spec => []CreditInv
  <1>1. Init => CreditInv
    <2> SUFFICES ASSUME Init PROVE CreditInv
      OBVIOUS
    <2>1. TypeOK
      BY TypeInit
    <2>2. VerifyRowed /\ TodoAsked
      BY DEF Init, VerifyRowed, TodoAsked, At
    <2>3. AllAsked /\ Proven
      BY DEF Init, AllAsked, Proven, NoDist, NewDist
    <2>4. CreditedHolds /\ HeldFinite
      BY FS_EmptySet DEF Init, EmptyIndex, CreditedHolds, HeldFinite
    <2> QED BY <2>1, <2>2, <2>3, <2>4 DEF CreditInv
  <1>2. CreditInv /\ [Next]_vars => CreditInv'
    <2> SUFFICES ASSUME CreditInv, [Next]_vars PROVE CreditInv'
      OBVIOUS
    <2>1. TypeOK' /\ VerifyRowed' /\ Proven'
      BY TypeStep, VerifyRowedStep, ProvenStep DEF CreditInv
    <2>2. HeldFinite'
      BY HeldGrows DEF CreditInv, HeldFinite
    <2>3. ASSUME NoneFull' PROVE AllAsked' /\ TodoAsked' /\ CreditedHolds'
      <3>1. NoneFull
        BY <2>3, FullStays DEF CreditInv
      <3> QED BY <3>1, AllAskedStep, TodoAskedStep, CreditedHoldsStep DEF CreditInv
    <2> QED BY <2>1, <2>2, <2>3 DEF CreditInv
  <1> QED BY <1>1, <1>2, PTL DEF Spec

\* Only a full miner makes the answers of others count for it: until one is full, a hotkey
\* is credited only with chunks its miner has, for any number of calls, chunks, rounds and
\* miners, killed or not.
LEMMA CreditedUntilFull == Spec => [](NoneFull => CreditedHolds)
  <1>1. CreditInv => (NoneFull => CreditedHolds)
    BY DEF CreditInv
  <1> QED BY <1>1, CreditInvCorrect, PTL

LEMMA CreditedListedStep ==
  CreditInv /\ ListInv /\ CreditedListed /\ [Next]_vars => CreditedListed'
  <1> SUFFICES ASSUME CreditInv, ListInv, CreditedListed, [Next]_vars, NoneFull',
                      NEW hk \in Hotkey, NEW c \in held'[hk]
               PROVE  row'[c] # None /\ hk \in row'[c]
    BY DEF CreditedListed
  <1>f. NoneFull
    BY FullStays DEF CreditInv
  <1>1. c \in Chunk /\ row[c] # None /\ hk \in row[c]
    <2>1. CASE c \in held[hk]
      BY <1>f, <2>1 DEF CreditedListed, ListInv, TypeOK, IndexTypeOK
    <2>2. CASE c \notin held[hk]
      <3>1. PICK o \in Call, i \in Position, j \in Place :
              HandleUid(o, i, j) /\ c = <<o, i>> /\ hk = dist[o][i].uids[j]
        BY <2>2, HeldSteps DEF ListInv
      <3>2. At(o, "verify") /\ j \in dist[o][i].todo
        BY <3>1 DEF HandleUid
      <3>3. dist[o][i].at = "rowed" /\ j \in dist[o][i].asked
        BY <1>f, <3>2 DEF CreditInv, VerifyRowed, TodoAsked
      <3>4. hk \in Miners(dist[o][i], dist[o][i].asked)
        BY <3>1, <3>3 DEF Miners
      <3> QED BY <3>1, <3>3, <3>4 DEF ListInv, RowedListed, Chunk
    <2> QED BY <2>1, <2>2
  <1> QED BY <1>1, RowSteps DEF ListInv

\* Until a miner is full, and where nothing is deleted, a hotkey is listed for each chunk it
\* is credited with, so that a retrieval asks every miner that is paid for a copy.
THEOREM CreditedListedCorrect ==
  ASSUME "delete" \notin Requests
  PROVE  Spec => []CreditedListed
  <1>1. Init => CreditedListed
    BY DEF Init, EmptyIndex, CreditedListed
  <1> QED
    BY <1>1, CreditInvCorrect, ListInvCorrect, CreditedListedStep, PTL DEF Spec

-----------------------------------------------------------------------------
(* Requests that do not overlap                                            *)

Alone == ~ Overlap /\ ~ MayCrash

-----------------------------------------------------------------------------
(* The invariant                                                           *)

Active(o) == call[o].pc \notin AtRest
Deleting == del.pc \in {"chunks", "rows"}
Retrieving == ret.pc \in {"fetch", "key"}

\* One request at a time.
OneAtATime ==
  /\ \A o, p \in Call : Active(o) /\ Active(p) => o = p
  /\ \A o \in Call : Active(o) => ~ Deleting /\ ~ Retrieving
  /\ Deleting => ~ Retrieving

\* A call has found no file and its key is stored; from the gathering of the answers
\* on every chunk has its metadata.
CallOK(o) ==
  /\ call[o].pc \in {"key", "again", "plan", "round", "query", "verify"}
       => file[FileOf[o]] = {}
  /\ call[o].pc \in {"again", "plan", "round", "query", "verify", "map"}
       => key[FileOf[o]] = o
  /\ call[o].pc = "round" => \A i \in Position : dist[o][i].at = "new"
  /\ call[o].pc \in {"query", "verify"} =>
       \A i \in Position : dist[o][i].at = "rowed" => row[<<o, i>>] # None
  /\ call[o].pc = "map" => \A i \in Position : row[<<o, i>>] # None
  /\ call[o].pc = "map" => file[FileOf[o]] = {o} \X (1..call[o].mapped)

\* A file has no chunks, those a call has mapped so far, or those of a call that is
\* over, with its key, and the metadata of each that is not yet deleted.
Belongs(f, o) ==
  /\ At(o, "stored") /\ FileOf[o] = f
  /\ file[f] = {o} \X Position
  /\ key[f] = o
  /\ Rowed(f) = IF del.pc = "rows" /\ del.file = f THEN del.left ELSE file[f]

FileOK(f) ==
  \/ file[f] = {}
  \/ \E o \in Call : At(o, "map") /\ FileOf[o] = f
  \/ \E o \in Call : Belongs(f, o)

DelOK == Deleting => file[del.file] # {}

RetOK ==
  /\ Retrieving => file[ret.file] # {}
  /\ ret.pc = "fetch" => DOMAIN ret.who \subseteq file[ret.file]
  /\ ret.pc = "key" => ret.got \subseteq file[ret.file]
  /\ ret.pc = "done" => ret.key # None

AloneInv ==
  /\ TypeOK /\ VerifyRowed /\ OneAtATime /\ DelOK /\ RetOK
  /\ \A o \in Call : CallOK(o)
  /\ \A f \in File : FileOK(f)

-----------------------------------------------------------------------------
(* What a call leaves alone                                                *)

\* Who may begin finds everything at rest.
LEMMA BeginAlone ==
  ASSUME Alone, TypeOK, MayBegin
  PROVE  (\A o \in Call : ~ Active(o)) /\ ~ Deleting /\ ~ Retrieving
  BY DEF Alone, MayBegin, Active, Deleting, Retrieving

LEMMA GotoMoves ==
  ASSUME TypeOK, NEW o \in Call, NEW pc, Goto(o, pc)
  PROVE  /\ call'[o].pc = pc /\ call'[o].mapped = call[o].mapped
         /\ \A p \in Call \ {o} : call'[p] = call[p]
  BY DEF Goto, TypeOK, CallRec

\* A step of a call moves no other and no deletion or retrieval.
LEMMA CallMoves ==
  ASSUME TypeOK, NEW o \in Call, StoreUserData(o)
  PROVE  /\ UNCHANGED <<del, ret>>
         /\ \A p \in Call \ {o} : call'[p] = call[p]
         /\ Active(o) \/ MayBegin
         /\ call[o].pc # "stored"
  <1> USE DEF Active, At, AtRest
  <1>1. CASE Lookup(o)
    BY <1>1, GotoMoves DEF Lookup
  <1>2. CASE SetKey(o)
    BY <1>2, GotoMoves DEF SetKey
  <1>3. CASE LookupAgain(o)
    BY <1>3, GotoMoves DEF LookupAgain
  <1>4. CASE Plan(o)
    BY <1>4, GotoMoves DEF Plan
  <1>5. CASE PlanFails(o)
    BY <1>5, GotoMoves DEF PlanFails
  <1>6. CASE CreateTasks(o)
    BY <1>6, GotoMoves DEF CreateTasks
  <1>7. CASE Task(o)
    BY <1>7 DEF Task, AskMiners, StoreChunk, HandleUid
  <1>8. CASE Gather(o)
    BY <1>8, GotoMoves DEF Gather
  <1>9. CASE Reroll(o)
    BY <1>9 DEF Reroll, RoundOver, TypeOK, CallRec
  <1>10. CASE EndRounds(o)
    BY <1>10, GotoMoves DEF EndRounds, RoundOver
  <1>11. CASE MapChunk(o)
    BY <1>11 DEF MapChunk, TypeOK, CallRec
  <1> QED
    BY <1>1, <1>2, <1>3, <1>4, <1>5, <1>6, <1>7, <1>8, <1>9, <1>10, <1>11
    DEF StoreUserData, Proceed

LEMMA CallAlone ==
  ASSUME Alone, AloneInv, NEW o \in Call, StoreUserData(o)
  PROVE  /\ \A p \in Call \ {o} : ~ Active(p) /\ ~ Active(p)'
         /\ ~ Deleting /\ ~ Retrieving
         /\ OneAtATime' /\ \A p \in Call \ {o} : CallOK(p)'
  <1>1. /\ UNCHANGED <<del, ret>> /\ \A p \in Call \ {o} : call'[p] = call[p]
        /\ Active(o) \/ MayBegin
    BY CallMoves DEF AloneInv
  <1>2. /\ \A p \in Call \ {o} : ~ Active(p)
        /\ ~ Deleting /\ ~ Retrieving
    BY <1>1, BeginAlone DEF AloneInv, OneAtATime
  <1>3. \A p \in Call \ {o} : ~ Active(p)'
    BY <1>1, <1>2 DEF Active
  <1>4. OneAtATime'
    BY <1>1, <1>2, <1>3 DEF OneAtATime, Deleting, Retrieving
  <1>5. \A p \in Call \ {o} : CallOK(p)'
    BY <1>3 DEF CallOK, Active, AtRest
  <1> QED BY <1>2, <1>3, <1>4, <1>5

-----------------------------------------------------------------------------
(* The steps of a call                                                     *)

\* The owner of the chunks of a file.
LEMMA Owner ==
  ASSUME AloneInv, NEW f \in File, NEW c \in file[f]
  PROVE  \E p \in Call, i \in Position :
           /\ c = <<p, i>> /\ call[p].pc \in {"map", "stored"} /\ FileOf[p] = f
  <1>1. CASE \E p \in Call : At(p, "map") /\ FileOf[p] = f
    <2>1. PICK p \in Call : At(p, "map") /\ FileOf[p] = f
      BY <1>1
    <2>2. file[f] = {p} \X (1..call[p].mapped)
      BY <2>1 DEF AloneInv, CallOK, At
    <2>3. 1..call[p].mapped \subseteq Position
      BY IndexAssumption DEF AloneInv, TypeOK, CallRec, Position
    <2> QED BY <2>1, <2>2, <2>3 DEF At
  <1>2. CASE \E p \in Call : Belongs(f, p)
    BY <1>2 DEF Belongs, At
  <1> QED BY <1>1, <1>2 DEF AloneInv, FileOK

\* A file that a step does not touch.
LEMMA FileKept ==
  ASSUME NEW f \in File, FileOK(f), file'[f] = file[f], key'[f] = key[f], UNCHANGED del,
         \A c \in file[f] : row'[c] = row[c],
         \A o \in Call : At(o, "map") \/ At(o, "stored") => call'[o].pc = call[o].pc
  PROVE  FileOK(f)'
  <1>1. Rowed(f)' = Rowed(f)
    BY DEF Rowed
  <1>2. ASSUME NEW o \in Call, Belongs(f, o) PROVE Belongs(f, o)'
    BY <1>1, <1>2 DEF Belongs, At
  <1> QED BY <1>2 DEF FileOK, At

\* A step of a call that maps nothing.
LEMMA CallKeeps ==
  ASSUME Alone, AloneInv, NEW o \in Call, StoreUserData(o), ~ At(o, "map"), UNCHANGED file,
         \A p \in Call \ {o}, i \in Position : row'[<<p, i>>] = row[<<p, i>>],
         \A f \in File : file[f] # {} => key'[f] = key[f]
  PROVE  DelOK' /\ RetOK' /\ \A f \in File : FileOK(f)'
  <1>1. ~ Deleting /\ ~ Retrieving
    BY CallAlone
  <1>2. /\ UNCHANGED <<del, ret>> /\ \A p \in Call \ {o} : call'[p] = call[p]
        /\ call[o].pc # "stored"
    BY CallMoves DEF AloneInv
  <1>3. DelOK' /\ RetOK'
    BY <1>1, <1>2 DEF AloneInv, DelOK, RetOK, Deleting, Retrieving
  <1>4. ASSUME NEW f \in File PROVE FileOK(f)'
    <2>1. CASE file[f] = {}
      BY <2>1 DEF FileOK
    <2>2. CASE file[f] # {}
      <3>1. \A c \in file[f] : row'[c] = row[c]
        BY <1>2, Owner DEF At
      <3>2. \A p \in Call : At(p, "map") \/ At(p, "stored") => call'[p].pc = call[p].pc
        BY <1>2 DEF At
      <3> QED BY <1>2, <2>2, <3>1, <3>2, FileKept DEF AloneInv
    <2> QED BY <2>1, <2>2
  <1> QED BY <1>3, <1>4

\* The steps of a call up to its plan change where it is, and the key once.
LEMMA BeforePlan ==
  ASSUME Alone, AloneInv, NEW o \in Call,
         Lookup(o) \/ SetKey(o) \/ LookupAgain(o) \/ PlanFails(o)
  PROVE  /\ CallOK(o)' /\ UNCHANGED <<file, row>> /\ ~ At(o, "map")
         /\ \A f \in File : file[f] # {} => key'[f] = key[f]
         /\ StoreUserData(o)
  <1>0. StoreUserData(o)
    BY DEF StoreUserData, Proceed
  <1>1. CASE Lookup(o)
    <2>1. call'[o].pc \in {"exists", "key"} /\ UNCHANGED <<file, row, key>>
      BY <1>1, GotoMoves DEF Lookup, AloneInv, index
    <2>2. call'[o].pc = "key" => file[FileOf[o]] = {}
      <3>1. SUFFICES ASSUME ~ Known(FileOf[o]) PROVE file[FileOf[o]] = {}
        BY <1>1, GotoMoves DEF Lookup, AloneInv
      <3>2. MayBegin /\ FileOf[o] \in File
        BY <1>1, BroadbandAssumption DEF Lookup
      <3>3. (\A p \in Call : ~ At(p, "map")) /\ ~ Deleting
        BY <3>2, BeginAlone DEF AloneInv, Active, At, AtRest
      <3>4. ASSUME NEW p \in Call, Belongs(FileOf[o], p) PROVE FALSE
        <4>1. Rowed(FileOf[o]) = {p} \X Position
          BY <3>3, <3>4 DEF Belongs, Deleting
        <4>2. <<p, 1>> \in {p} \X Position
          BY IndexAssumption DEF Position
        <4> QED BY <3>1, <4>1, <4>2 DEF Known
      <3> QED BY <3>2, <3>3, <3>4 DEF AloneInv, FileOK
    <2> QED BY <1>0, <1>1, <2>1, <2>2 DEF CallOK, Lookup, At
  <1>2. CASE SetKey(o)
    <2>1. /\ call[o].pc = "key" /\ call'[o].pc = "again" /\ UNCHANGED <<file, row>>
          /\ key' = [key EXCEPT ![FileOf[o]] = o]
      BY <1>2, GotoMoves DEF SetKey, AloneInv, At
    <2>2. file[FileOf[o]] = {} /\ FileOf[o] \in File
      BY <2>1, BroadbandAssumption DEF AloneInv, CallOK
    <2>3. key'[FileOf[o]] = o /\ \A f \in File \ {FileOf[o]} : key'[f] = key[f]
      BY <2>1, <2>2 DEF AloneInv, TypeOK, IndexTypeOK
    <2> QED BY <1>0, <2>1, <2>2, <2>3 DEF CallOK, At
  <1>3. CASE LookupAgain(o) \/ PlanFails(o)
    <2>1. /\ call[o].pc \in {"again", "plan"} /\ call'[o].pc \in {"exists", "plan", "failed"}
          /\ UNCHANGED <<file, row, key>>
      BY <1>3, GotoMoves DEF LookupAgain, PlanFails, AloneInv, At, index
    <2> QED BY <1>0, <2>1 DEF AloneInv, CallOK, At
  <1> QED BY <1>1, <1>2, <1>3

\* The rounds change the metadata of the chunks of the call only.
LEMMA InRounds ==
  ASSUME Alone, AloneInv, NEW o \in Call,
         \/ Plan(o) \/ CreateTasks(o) \/ Task(o) \/ Gather(o) \/ Reroll(o) \/ EndRounds(o)
  PROVE  /\ CallOK(o)' /\ UNCHANGED <<file, key>> /\ ~ At(o, "map")
         /\ \A p \in Call \ {o}, i \in Position : row'[<<p, i>>] = row[<<p, i>>]
         /\ StoreUserData(o)
  <1>0. /\ StoreUserData(o) /\ CallOK(o) /\ ~ Deleting /\ TypeOK
        /\ dist \in [Call -> [Position -> Dist]]
    BY CallAlone DEF StoreUserData, Proceed, AloneInv, TypeOK
  <1>1. CASE Plan(o) \/ Reroll(o)
    <2>1. /\ call[o].pc \in {"plan", "verify"} /\ call'[o].pc = "round"
          /\ UNCHANGED <<file, row, key>>
      BY <1>0, <1>1, GotoMoves DEF Plan, Reroll, RoundOver, At, index, TypeOK, CallRec
    <2>2. PICK g : dist' = [dist EXCEPT ![o] = [i \in Position |-> NewDist(g[i])]]
      BY <1>1 DEF Plan, Reroll
    <2>3. \A i \in Position : dist'[o][i].at = "new"
      BY <1>0, <2>2 DEF NewDist
    <2> QED BY <1>0, <2>1, <2>3 DEF CallOK, At
  <1>2. CASE CreateTasks(o)
    <2>1. /\ call[o].pc = "round" /\ call'[o].pc = "query"
          /\ UNCHANGED <<file, row, key, dist>>
      BY <1>0, <1>2, GotoMoves DEF CreateTasks, At, index
    <2> QED BY <1>0, <2>1 DEF CallOK, At
  <1>3. ASSUME NEW i \in Position, AskMiners(o, i) PROVE CallOK(o)' /\ UNCHANGED index /\ ~ At(o, "map")
    <2>1. call[o].pc = "query" /\ UNCHANGED <<file, row, key, call>>
      BY <1>3 DEF AskMiners, At, index
    <2>2. \A k \in Position : dist'[o][k].at = "rowed" => dist[o][k].at = "rowed"
      <3>1. dist'[o][i].at = "asked"
        BY <1>0, <1>3, AskMinersAsks
      <3>2. PICK d : dist' = [dist EXCEPT ![o][i] = d]
        BY <1>3 DEF AskMiners, SetDist
      <3> QED BY <1>0, <3>1, <3>2
    <2> QED BY <1>0, <1>3, <2>1, <2>2 DEF CallOK, At, AskMiners
  <1>4. ASSUME NEW i \in Position, StoreChunk(o, i)
        PROVE  /\ CallOK(o)' /\ UNCHANGED <<file, key>> /\ ~ At(o, "map")
               /\ \A p \in Call \ {o}, k \in Position : row'[<<p, k>>] = row[<<p, k>>]
    <2>1. call[o].pc = "query" /\ UNCHANGED <<file, key, call>>
      BY <1>4 DEF StoreChunk, At
    <2>2. PICK d : dist' = [dist EXCEPT ![o][i] = d]
      BY <1>4 DEF StoreChunk, SetDist
    <2>3. \A c \in Chunk \ {<<o, i>>} : row'[c] = row[c]
      BY <1>0, <1>4 DEF StoreChunk, StoreChunkMetadata, TypeOK, IndexTypeOK
    <2>4. row'[<<o, i>>] # None
      BY <1>0, <1>4, StoreChunkLists
    <2>5. \A k \in Position : dist'[o][k].at = "rowed" => row'[<<o, k>>] # None
      BY <1>0, <2>1, <2>2, <2>3, <2>4 DEF CallOK, Chunk
    <2> QED BY <1>0, <2>1, <2>3, <2>5 DEF CallOK, At, Chunk
  <1>5. ASSUME NEW i \in Position, NEW j \in Place, HandleUid(o, i, j)
        PROVE  CallOK(o)' /\ UNCHANGED <<file, row, key>> /\ ~ At(o, "map")
    <2>1. call[o].pc = "verify" /\ UNCHANGED <<file, row, key, call>>
      BY <1>5 DEF HandleUid, At
    <2>2. \A k \in Position : dist[o][k].at = "rowed"
      BY <2>1 DEF AloneInv, VerifyRowed, At
    <2> QED BY <1>0, <2>1, <2>2 DEF CallOK, At
  <1>6. CASE Gather(o)
    <2>1. /\ call[o].pc = "query" /\ call'[o].pc = "verify"
          /\ UNCHANGED <<file, row, key>>
          /\ \A i \in Position : dist[o][i].at = "rowed"
      BY <1>0, <1>6, GotoMoves DEF Gather, At, index
    <2> QED BY <1>0, <2>1 DEF CallOK, At
  <1>7. CASE EndRounds(o)
    <2>1. /\ call[o].pc = "verify" /\ call'[o].pc = "map" /\ UNCHANGED <<file, row, key>>
          /\ call'[o].mapped = call[o].mapped
      BY <1>0, <1>7, GotoMoves DEF EndRounds, RoundOver, At, index
    <2>2. \A i \in Position : dist[o][i].at = "rowed"
      BY <2>1 DEF AloneInv, VerifyRowed, At
    <2>3. call[o].mapped = 0 /\ {o} \X (1..0) = {}
      BY <1>0, <2>1 DEF TypeOK, CallRec
    <2> QED BY <1>0, <2>1, <2>2, <2>3 DEF CallOK, At
  <1> QED BY <1>0, <1>1, <1>2, <1>3, <1>4, <1>5, <1>6, <1>7
          DEF Task, index, Plan, CreateTasks, Gather, Reroll, EndRounds

\* The other files are as they were, that of the call has one more chunk.
LEMMA MapTypes ==
  ASSUME TypeOK, NEW o \in Call, MapChunk(o)
  PROVE  LET n == call[o].mapped + 1
         IN  /\ n \in Position /\ call'[o].mapped = n
             /\ call'[o].pc = IF n = NumChunks THEN "stored" ELSE "map"
             /\ file'[FileOf[o]] = file[FileOf[o]] \cup {<<o, n>>}
             /\ \A f \in File \ {FileOf[o]} : file'[f] = file[f]
             /\ {o} \X (1..n) = ({o} \X (1..call[o].mapped)) \cup {<<o, n>>}
  <1> DEFINE n == call[o].mapped + 1
  <1>1. call[o] \in CallRec /\ call[o].pc = "map"
    BY DEF MapChunk, At, TypeOK
  <1>2. call[o].mapped \in Nat /\ n \in Position
    BY <1>1, IndexAssumption DEF CallRec, Position
  <1>3. /\ call'[o].mapped = n
        /\ call'[o].pc = IF n = NumChunks THEN "stored" ELSE "map"
    BY <1>1 DEF MapChunk, TypeOK, CallRec
  <1>4. /\ file'[FileOf[o]] = file[FileOf[o]] \cup {<<o, n>>}
        /\ \A f \in File \ {FileOf[o]} : file'[f] = file[f]
    BY BroadbandAssumption DEF MapChunk, AddToFile, TypeOK, IndexTypeOK
  <1>5. 1..n = (1..call[o].mapped) \cup {n}
    BY <1>2
  <1> QED BY <1>2, <1>3, <1>4, <1>5

LEMMA MapKeeps ==
  ASSUME Alone, AloneInv, NEW o \in Call, MapChunk(o)
  PROVE  CallOK(o)' /\ DelOK' /\ RetOK' /\ \A f \in File : FileOK(f)'
  <1> DEFINE n == call[o].mapped + 1
  <1>0. /\ StoreUserData(o) /\ CallOK(o) /\ TypeOK /\ call[o].pc = "map"
        /\ UNCHANGED <<row, key, del, ret>>
    BY DEF MapChunk, StoreUserData, Proceed, AloneInv, At
  <1>1. /\ n \in Position /\ call'[o].mapped = n
        /\ call'[o].pc = IF n = NumChunks THEN "stored" ELSE "map"
        /\ file'[FileOf[o]] = file[FileOf[o]] \cup {<<o, n>>}
        /\ \A f \in File \ {FileOf[o]} : file'[f] = file[f]
        /\ {o} \X (1..n) = ({o} \X (1..call[o].mapped)) \cup {<<o, n>>}
    BY <1>0, MapTypes
  <1>2. file'[FileOf[o]] = {o} \X (1..n)
    BY <1>0, <1>1 DEF CallOK
  <1>3. CallOK(o)'
    BY <1>0, <1>1, <1>2 DEF CallOK
  <1>4. /\ ~ Deleting /\ ~ Retrieving
        /\ \A p \in Call \ {o} : ~ Active(p) /\ call'[p] = call[p]
    BY <1>0, CallAlone, CallMoves
  <1>5. DelOK' /\ RetOK'
    BY <1>0, <1>4 DEF AloneInv, DelOK, RetOK, Deleting, Retrieving
  <1>6. ASSUME NEW f \in File PROVE FileOK(f)'
    <2>1. CASE f # FileOf[o]
      <3>1. file'[f] = file[f] /\ FileOK(f)
        BY <1>1, <2>1 DEF AloneInv
      <3>2. Rowed(f)' = Rowed(f)
        BY <1>0, <3>1 DEF Rowed
      <3>3. ASSUME NEW p \in Call, Belongs(f, p) PROVE Belongs(f, p)'
        <4>1. p # o
          BY <2>1, <3>3 DEF Belongs
        <4> QED BY <1>0, <1>4, <3>1, <3>2, <3>3, <4>1 DEF Belongs, At
      <3>4. ASSUME NEW p \in Call, At(p, "map"), FileOf[p] = f PROVE FALSE
        BY <1>4, <2>1, <3>4 DEF At, Active, AtRest
      <3> QED BY <3>1, <3>3, <3>4 DEF FileOK
    <2>2. CASE f = FileOf[o] /\ n # NumChunks
      BY <1>1, <2>2 DEF FileOK, At
    <2>3. CASE f = FileOf[o] /\ n = NumChunks
      <3>1. file'[f] = {o} \X Position /\ key'[f] = o /\ At(o, "stored")'
        BY <1>0, <1>1, <1>2, <2>3 DEF Position, CallOK, At
      <3>2. Rowed(f)' = file'[f]
        BY <1>0, <3>1 DEF Rowed, CallOK
      <3>3. del'.pc # "rows"
        BY <1>0, <1>4 DEF Deleting
      <3> QED BY <2>3, <3>1, <3>2, <3>3 DEF FileOK, Belongs
    <2> QED BY <2>1, <2>2, <2>3
  <1> QED BY <1>3, <1>5, <1>6

LEMMA CallStep ==
  ASSUME Alone, AloneInv, NEW o \in Call, StoreUserData(o)
  PROVE  OneAtATime' /\ DelOK' /\ RetOK' /\ (\A p \in Call : CallOK(p)')
         /\ \A f \in File : FileOK(f)'
  <1>1. OneAtATime' /\ \A p \in Call \ {o} : CallOK(p)'
    BY CallAlone
  <1>2. CASE MapChunk(o)
    BY <1>1, <1>2, MapKeeps
  <1>3. CASE Lookup(o) \/ SetKey(o) \/ LookupAgain(o) \/ PlanFails(o)
    <2>1. /\ CallOK(o)' /\ UNCHANGED <<file, row>> /\ ~ At(o, "map")
          /\ \A f \in File : file[f] # {} => key'[f] = key[f]
      BY <1>3, BeforePlan
    <2> QED BY <1>1, <2>1, CallKeeps
  <1>4. CASE \/ Plan(o) \/ CreateTasks(o) \/ Task(o) \/ Gather(o) \/ Reroll(o)
             \/ EndRounds(o)
    <2>1. /\ CallOK(o)' /\ UNCHANGED <<file, key>> /\ ~ At(o, "map")
          /\ \A p \in Call \ {o}, i \in Position : row'[<<p, i>>] = row[<<p, i>>]
      BY <1>4, InRounds
    <2> QED BY <1>1, <2>1, CallKeeps
  <1> QED BY <1>2, <1>3, <1>4 DEF StoreUserData, Proceed

-----------------------------------------------------------------------------
(* The steps of a deletion and of a retrieval                              *)

\* A file with chunks that no call is mapping.
LEMMA HasOwner ==
  ASSUME AloneInv, NEW f \in File, file[f] # {}, \A o \in Call : ~ Active(o)
  PROVE  \E o \in Call : Belongs(f, o)
  <1>1. \A o \in Call : ~ At(o, "map")
    BY DEF Active, At, AtRest
  <1> QED BY <1>1 DEF AloneInv, FileOK

LEMMA DeleteAlone ==
  ASSUME Alone, AloneInv, DeleteUserData
  PROVE  /\ (\A o \in Call : ~ Active(o)) /\ ~ Retrieving
         /\ UNCHANGED <<call, ret, key>>
         /\ OneAtATime' /\ RetOK' /\ \A o \in Call : CallOK(o)'
  <1>1. UNCHANGED <<call, ret, key>>
    BY DEF DeleteUserData, DeleteLookup, DeleteChunks, DeleteRow, DeleteFile, index
  <1>2. (\A o \in Call : ~ Active(o)) /\ ~ Retrieving
    <2>1. (\E f \in File : DeleteLookup(f)) \/ Deleting
      BY DEF DeleteUserData, DeleteChunks, DeleteRow, DeleteFile, Deleting
    <2>2. ASSUME NEW f \in File, DeleteLookup(f)
          PROVE  (\A o \in Call : ~ Active(o)) /\ ~ Retrieving
      BY <2>2, BeginAlone DEF DeleteLookup, AloneInv
    <2> QED BY <2>1, <2>2 DEF AloneInv, OneAtATime
  <1>3. OneAtATime'
    BY <1>1, <1>2 DEF OneAtATime, Active, Retrieving
  <1>4. RetOK'
    BY <1>1, <1>2 DEF AloneInv, RetOK, Retrieving
  <1>5. \A o \in Call : CallOK(o)'
    BY <1>1, <1>2 DEF CallOK, Active, AtRest
  <1> QED BY <1>1, <1>2, <1>3, <1>4, <1>5

\* What is left to delete are the chunks that still have metadata.
LEMMA LeftIsRowed ==
  ASSUME AloneInv, del.pc = "rows", \A o \in Call : ~ Active(o)
  PROVE  /\ del.file \in File /\ del.left = Rowed(del.file)
         /\ \E o \in Call : Belongs(del.file, o)
  <1>1. del.file \in File /\ file[del.file] # {}
    BY DEF AloneInv, TypeOK, Del, DelOK, Deleting
  <1> QED BY <1>1, HasOwner DEF Belongs

\* One chunk for each position: with one owner these are all.
LEMMA AllChunks ==
  ASSUME NEW f, NEW o, Rowed(f) \subseteq {o} \X Position, NEW S \in ChunksForFile(f)
  PROVE  S = Rowed(f)
  <1>1. S \subseteq Rowed(f) /\ \A c \in Rowed(f) : \E d \in S : d[2] = c[2]
    BY DEF ChunksForFile
  <1>2. \A c, d \in Rowed(f) : d[2] = c[2] => c = d
    OBVIOUS
  <1> QED BY <1>1, <1>2

LEMMA DeleteStep ==
  ASSUME Alone, AloneInv, DeleteUserData
  PROVE  OneAtATime' /\ DelOK' /\ RetOK' /\ (\A o \in Call : CallOK(o)')
         /\ \A f \in File : FileOK(f)'
  <1>0. /\ (\A o \in Call : ~ Active(o)) /\ UNCHANGED <<call, key>>
        /\ OneAtATime' /\ RetOK' /\ \A o \in Call : CallOK(o)'
    BY DeleteAlone
  <1>1. \A o \in Call : ~ At(o, "map")
    BY <1>0 DEF Active, At, AtRest
  <1>2. del \in Del
    BY DEF AloneInv, TypeOK
  <1>3. ASSUME NEW g \in File, DeleteLookup(g) PROVE DelOK' /\ \A f \in File : FileOK(f)'
    <2>1. /\ UNCHANGED <<file, row>> /\ file[g] # {} /\ del.pc = "idle"
          /\ del'.pc = "chunks" /\ del'.file = g
      BY <1>2, <1>3 DEF DeleteLookup, index, Known, Rowed, Del
    <2>2. \A f \in File : Rowed(f)' = Rowed(f)
      BY <2>1 DEF Rowed
    <2>3. \A f \in File, o \in Call : Belongs(f, o) => Belongs(f, o)'
      BY <1>0, <2>1, <2>2 DEF Belongs, At
    <2> QED BY <1>1, <2>1, <2>3 DEF DelOK, AloneInv, FileOK
  <1>4. ASSUME DeleteChunks PROVE DelOK' /\ \A f \in File : FileOK(f)'
    <2>0. /\ UNCHANGED <<file, row>> /\ del.pc = "chunks" /\ del.file \in File
          /\ file[del.file] # {}
      BY <1>2, <1>4 DEF DeleteChunks, index, AloneInv, DelOK, Deleting, Del
    <2>1. PICK S \in ChunksForFile(del.file) : del' = [del EXCEPT !.pc = "rows", !.left = S]
      BY <1>4, <2>0 DEF DeleteChunks
    <2>2. del'.pc = "rows" /\ del'.left = S /\ del'.file = del.file
      BY <1>2, <2>1 DEF Del
    <2>3. \A f \in File : Rowed(f)' = Rowed(f)
      BY <2>0 DEF Rowed
    <2>4. ASSUME NEW f \in File, NEW o \in Call, Belongs(f, o) PROVE Belongs(f, o)'
      <3>1. Rowed(f) = file[f] /\ Rowed(f) = {o} \X Position
        BY <2>0, <2>4 DEF Belongs
      <3>2. f = del.file => S = Rowed(f)
        BY <3>1, AllChunks
      <3> QED BY <1>0, <2>0, <2>2, <2>3, <2>4, <3>1, <3>2 DEF Belongs, At
    <2> QED BY <1>1, <2>0, <2>2, <2>4 DEF DelOK, Deleting, AloneInv, FileOK
  <1>5. ASSUME DeleteRow PROVE DelOK' /\ \A f \in File : FileOK(f)'
    <2>1. PICK c \in del.left : /\ row' = [row EXCEPT ![c] = None]
                                /\ del' = [del EXCEPT !.left = @ \ {c}]
      BY <1>5 DEF DeleteRow
    <2>2. /\ del.pc = "rows" /\ del'.pc = "rows" /\ del'.file = del.file
          /\ del'.left = del.left \ {c} /\ UNCHANGED file
      BY <1>2, <1>5, <2>1 DEF DeleteRow, Del
    <2>3. /\ del.file \in File /\ del.left = Rowed(del.file)
          /\ \E o \in Call : Belongs(del.file, o)
      BY <1>0, <2>2, LeftIsRowed
    <2>4. PICK p \in Call : Belongs(del.file, p)
      BY <2>3
    <2>5. ASSUME NEW f \in File PROVE Rowed(f)' = Rowed(f) \ {c}
      <3>1. \A d \in Chunk : row'[d] = IF d = c THEN None ELSE row[d]
        BY <2>1 DEF AloneInv, TypeOK, IndexTypeOK
      <3>2. file[f] \subseteq Chunk
        BY DEF AloneInv, TypeOK, IndexTypeOK
      <3> QED BY <2>2, <3>1, <3>2 DEF Rowed
    <2>6. ASSUME NEW f \in File, NEW o \in Call, Belongs(f, o) PROVE Belongs(f, o)'
      <3>1. CASE f = del.file
        BY <1>0, <2>2, <2>3, <2>5, <2>6, <3>1 DEF Belongs, At
      <3>2. CASE f # del.file
        <4>1. c \notin file[f]
          <5>1. c \in {p} \X Position /\ FileOf[p] = del.file
            BY <2>3, <2>4 DEF Belongs, Rowed
          <5> QED BY <2>6, <3>2, <5>1 DEF Belongs
        <4>2. Rowed(f)' = Rowed(f)
          BY <2>5, <4>1 DEF Rowed
        <4> QED BY <1>0, <2>2, <2>6, <3>2, <4>2 DEF Belongs, At
      <3> QED BY <3>1, <3>2
    <2> QED BY <1>1, <2>2, <2>6 DEF DelOK, Deleting, AloneInv, FileOK
  <1>6. ASSUME DeleteFile PROVE DelOK' /\ \A f \in File : FileOK(f)'
    <2>1. /\ del.pc = "rows" /\ del.left = {} /\ UNCHANGED row /\ del'.pc = "done"
      BY <1>2, <1>6 DEF DeleteFile, DelGoto, Del
    <2>2. del.file \in File /\ Rowed(del.file) = {}
      BY <1>0, <2>1, LeftIsRowed
    <2>3. /\ file'[del.file] = {}
          /\ \A f \in File \ {del.file} : file'[f] = file[f]
      BY <1>6, <2>2 DEF DeleteFile, Known, AloneInv, TypeOK, IndexTypeOK
    <2>4. \A f \in File \ {del.file} : Rowed(f)' = Rowed(f)
      BY <2>1, <2>3 DEF Rowed
    <2>5. ASSUME NEW f \in File \ {del.file}, NEW o \in Call, Belongs(f, o)
          PROVE  Belongs(f, o)'
      BY <1>0, <2>1, <2>3, <2>4, <2>5 DEF Belongs, At
    <2> QED BY <1>1, <2>1, <2>3, <2>5 DEF DelOK, Deleting, AloneInv, FileOK
  <1> QED BY <1>0, <1>3, <1>4, <1>5, <1>6 DEF DeleteUserData

LEMMA RetrieveStep ==
  ASSUME Alone, AloneInv, RetrieveUserData
  PROVE  OneAtATime' /\ DelOK' /\ RetOK' /\ (\A o \in Call : CallOK(o)')
         /\ \A f \in File : FileOK(f)'
  <1>1. UNCHANGED <<file, row, key, call, dist, del>>
    BY DEF RetrieveUserData, RetrieveLookup, RetrieveFetch, RetrieveKey, index
  <1>2. (\A o \in Call : ~ Active(o)) /\ ~ Deleting
    <2>1. (\E f \in File : RetrieveLookup(f)) \/ Retrieving
      BY DEF RetrieveUserData, RetrieveFetch, RetrieveKey, Retrieving
    <2>2. ASSUME NEW f \in File, RetrieveLookup(f)
          PROVE  (\A o \in Call : ~ Active(o)) /\ ~ Deleting
      BY <2>2, BeginAlone DEF RetrieveLookup, AloneInv
    <2> QED BY <2>1, <2>2 DEF AloneInv, OneAtATime
  <1>3. OneAtATime' /\ DelOK'
    BY <1>1, <1>2 DEF OneAtATime, DelOK, Active, Deleting
  <1>4. \A f \in File : FileOK(f)'
    <2>1. \A f \in File : Rowed(f)' = Rowed(f)
      BY <1>1 DEF Rowed
    <2>2. \A f \in File, o \in Call : Belongs(f, o) => Belongs(f, o)'
      BY <1>1, <2>1 DEF Belongs, At
    <2> QED BY <1>1, <2>2 DEF AloneInv, FileOK, At
  <1>5. \A o \in Call : CallOK(o)'
    BY <1>1, <1>2 DEF CallOK, Active, AtRest
  <1>6. RetOK'
    <2>0. ret \in Ret
      BY DEF AloneInv, TypeOK
    <2>1. ASSUME NEW f \in File, RetrieveLookup(f) PROVE RetOK'
      <3>1. PICK S \in ChunksForFile(f) :
              ret' = [IdleRet EXCEPT !.pc = "fetch", !.file = f, !.who = [c \in S |-> row[c]]]
        BY <2>1 DEF RetrieveLookup
      <3>2. ret'.pc = "fetch" /\ ret'.file = f /\ DOMAIN ret'.who = S
        BY <3>1 DEF IdleRet
      <3>3. S \subseteq file[f] /\ file[f] # {}
        BY <2>1 DEF RetrieveLookup, ChunksForFile, Known, Rowed
      <3> QED BY <1>1, <3>2, <3>3 DEF RetOK, Retrieving
    <2>2. CASE RetrieveFetch
      <3>1. /\ ret.pc = "fetch" /\ ret'.pc = "key" /\ ret'.file = ret.file
            /\ ret'.got \subseteq DOMAIN ret.who
        BY <2>0, <2>2 DEF RetrieveFetch, Ret
      <3> QED BY <1>1, <3>1 DEF AloneInv, RetOK, Retrieving
    <2>3. CASE RetrieveKey
      <3>1. ret.pc = "key" /\ ret'.pc = "done" /\ ret'.key = key[ret.file] /\ ret.file \in File
        BY <2>0, <2>3 DEF RetrieveKey, Ret
      <3>2. PICK o \in Call : Belongs(ret.file, o)
        BY <1>2, <3>1, HasOwner DEF AloneInv, RetOK, Retrieving
      <3> QED BY <3>1, <3>2, IndexAssumption DEF Belongs, RetOK, Retrieving
    <2> QED BY <2>1, <2>2, <2>3 DEF RetrieveUserData
  <1> QED BY <1>3, <1>4, <1>5, <1>6

-----------------------------------------------------------------------------
(* The invariant holds                                                     *)

LEMMA AloneInit == Init => AloneInv
  <1> SUFFICES ASSUME Init PROVE AloneInv
    OBVIOUS
  <1>1. TypeOK
    BY TypeInit
  <1>2. VerifyRowed /\ (\A o \in Call : ~ Active(o) /\ CallOK(o))
    BY DEF Init, VerifyRowed, At, CallOK, Active, AtRest
  <1>3. OneAtATime /\ DelOK /\ RetOK
    BY <1>2 DEF Init, IdleDel, IdleRet, OneAtATime, DelOK, RetOK, Deleting, Retrieving
  <1>4. \A f \in File : FileOK(f)
    BY DEF Init, EmptyIndex, FileOK
  <1> QED BY <1>1, <1>2, <1>3, <1>4 DEF AloneInv

LEMMA Unchanged ==
  ASSUME AloneInv, UNCHANGED vars
  PROVE  AloneInv'
  <1>1. TypeOK' /\ VerifyRowed'
    BY TypeStep, VerifyRowedStep DEF AloneInv
  <1>2. UNCHANGED <<file, row, key, call, dist, del, ret>>
    BY DEF vars, index
  <1>3. OneAtATime' /\ DelOK' /\ RetOK'
    BY <1>2 DEF AloneInv, OneAtATime, Active, DelOK, RetOK, Deleting, Retrieving
  <1>4. \A o \in Call : CallOK(o)'
    BY <1>2 DEF AloneInv, CallOK
  <1>5. \A f \in File : FileOK(f)'
    BY <1>2, FileKept DEF AloneInv, At
  <1> QED BY <1>1, <1>3, <1>4, <1>5 DEF AloneInv

LEMMA AloneNext == Alone /\ AloneInv /\ [Next]_vars => AloneInv'
  <1> SUFFICES ASSUME Alone, AloneInv, [Next]_vars PROVE AloneInv'
    OBVIOUS
  <1>1. TypeOK' /\ VerifyRowed'
    BY TypeStep, VerifyRowedStep DEF AloneInv
  <1>2. ASSUME NEW o \in Call, StoreUserData(o) PROVE AloneInv'
    BY <1>1, <1>2, CallStep DEF AloneInv
  <1>3. CASE DeleteUserData
    BY <1>1, <1>3, DeleteStep DEF AloneInv
  <1>4. CASE RetrieveUserData
    BY <1>1, <1>4, RetrieveStep DEF AloneInv
  <1>5. ~ Crash
    BY DEF Alone, Crash
  <1> QED BY <1>2, <1>3, <1>4, <1>5, Unchanged DEF Next

LEMMA AloneCorrect ==
  ASSUME Alone
  PROVE  Spec => []AloneInv
  BY AloneInit, AloneNext, PTL DEF Spec

\* Requests that do not overlap leave each file without chunks or with all chunks of
\* one call of store_user_data and the metadata of each.
THEOREM QuietWholeCorrect ==
  ASSUME Alone
  PROVE  Spec => []QuietWhole
  <1>1. AloneInv => QuietWhole
    <2> SUFFICES ASSUME AloneInv, Quiet, NEW f \in File, file[f] # {}
                 PROVE  (\E o \in Call : file[f] = {o} \X Position) /\ Rowed(f) = file[f]
      BY DEF QuietWhole
    <2>1. \A o \in Call : ~ Active(o)
      BY DEF Quiet, Active
    <2>2. PICK o \in Call : Belongs(f, o)
      BY <2>1, HasOwner
    <2> QED BY <2>2 DEF Belongs, Quiet
  <1> QED BY <1>1, AloneCorrect, PTL

-----------------------------------------------------------------------------
(* The refinement                                                          *)

\* A file is whole while its chunks are listed and have their metadata.
LEMMA WholeIs ==
  ASSUME AloneInv, NEW f \in File, NEW o \in Call
  PROVE  Whole(f, o) <=> Belongs(f, o) /\ Rowed(f) = file[f]
  <1>1. <<o, NumChunks>> \in {o} \X Position
    BY IndexAssumption DEF Position
  <1>2. ASSUME Whole(f, o) PROVE Belongs(f, o) /\ Rowed(f) = file[f]
    <2>1. <<o, NumChunks>> \in file[f] /\ {o} \X Position \subseteq file[f]
      BY <1>1, <1>2 DEF Whole, Rowed
    <2>2. ASSUME NEW p \in Call, At(p, "map"), FileOf[p] = f PROVE FALSE
      <3>1. /\ file[f] = {p} \X (1..call[p].mapped)
            /\ call[p].mapped \in Nat /\ call[p].mapped < NumChunks
        BY <2>2 DEF AloneInv, CallOK, At, TypeOK, CallRec
      <3>2. NumChunks \in 1..call[p].mapped
        BY <2>1, <3>1
      <3> QED BY <3>1, <3>2, IndexAssumption
    <2>3. PICK p \in Call : Belongs(f, p)
      BY <2>1, <2>2 DEF AloneInv, FileOK
    <2>4. p = o
      BY <2>1, <2>3 DEF Belongs
    <2>5. Rowed(f) = file[f]
      BY <1>2, <2>3, <2>4 DEF Belongs, Whole, Rowed
    <2> QED BY <2>3, <2>4, <2>5
  <1> QED BY <1>2 DEF Whole, Belongs

VersionsKnown ==
  \A f \in File :
    /\ \A o \in Call : Whole(f, o) => VersionOf(f) = o
    /\ (\A o \in Call : ~ Whole(f, o)) => VersionOf(f) = None

LEMMA VersionIs == AloneInv => VersionsKnown
  <1> SUFFICES ASSUME AloneInv, NEW f \in File
               PROVE  /\ \A o \in Call : Whole(f, o) => VersionOf(f) = o
                      /\ (\A o \in Call : ~ Whole(f, o)) => VersionOf(f) = None
    BY DEF VersionsKnown
  <1>1. ASSUME NEW o \in Call, Whole(f, o) PROVE VersionOf(f) = o
    <2>1. VersionOf(f) \in Call /\ Whole(f, VersionOf(f))
      BY <1>1 DEF VersionOf
    <2>2. file[f] = {o} \X Position /\ file[f] = {VersionOf(f)} \X Position
      BY <1>1, <2>1, WholeIs DEF Belongs
    <2>3. <<o, 1>> \in {o} \X Position
      BY IndexAssumption DEF Position
    <2> QED BY <2>2, <2>3
  <1>2. (\A o \in Call : ~ Whole(f, o)) => VersionOf(f) = None
    BY DEF VersionOf
  <1> QED BY <1>1, <1>2

LEMMA VersionIsNext == AloneInv' => VersionsKnown'
  BY VersionIs, PTL

\* Versions change only when what is whole does.
LEMMA SameVersion ==
  ASSUME AloneInv, AloneInv', NEW f \in File, \A o \in Call : Whole(f, o)' <=> Whole(f, o)
  PROVE  VersionOf(f)' = VersionOf(f)
  <1>1. VersionsKnown /\ VersionsKnown'
    BY VersionIs, VersionIsNext
  <1>2. CASE \E o \in Call : Whole(f, o)
    BY <1>1, <1>2 DEF VersionsKnown
  <1>3. CASE \A o \in Call : ~ Whole(f, o)
    BY <1>1, <1>3 DEF VersionsKnown
  <1> QED BY <1>2, <1>3

LEMMA SameVersions ==
  ASSUME AloneInv, AloneInv', \A f \in File, o \in Call : Whole(f, o)' <=> Whole(f, o)
  PROVE  Versions' = Versions
  <1>1. \A f \in File : VersionOf(f)' = VersionOf(f)
    BY SameVersion
  <1> QED BY <1>1 DEF Versions

LEMMA WholeKept ==
  ASSUME NEW f, NEW o, file'[f] = file[f], \A c \in file[f] : row'[c] = row[c]
  PROVE  Whole(f, o)' <=> Whole(f, o)
  BY DEF Whole, Rowed

\* The last chunk is mapped: the user sees the file stored.  Any other step of a call
\* changes nothing the user sees.
LEMMA MapRefines ==
  ASSUME Alone, AloneInv, AloneInv', NEW o \in Call, MapChunk(o)
  PROVE  \/ \E f \in File : FS!Store(f, o)
         \/ UNCHANGED <<Versions, StoredVersions, Answer>>
  <1> DEFINE n == call[o].mapped + 1
             f == FileOf[o]
  <1>0. /\ TypeOK /\ call[o].pc = "map" /\ UNCHANGED <<row, ret>> /\ f \in File
        /\ \A p \in Call \ {o} : call'[p] = call[p]
    BY CallMoves, BroadbandAssumption DEF AloneInv, MapChunk, At, StoreUserData, Proceed
  <1>1. /\ call'[o].pc = IF n = NumChunks THEN "stored" ELSE "map"
        /\ \A g \in File \ {f} : file'[g] = file[g]
    BY <1>0, MapTypes
  <1>2. UNCHANGED Answer
    BY <1>0 DEF Answer
  <1>3. \A g \in File \ {f}, p \in Call : Whole(g, p)' <=> Whole(g, p)
    BY <1>0, <1>1, WholeKept
  <1>4. \A p \in Call : ~ Belongs(f, p)
    <2> SUFFICES ASSUME NEW p \in Call, Belongs(f, p) PROVE FALSE
      OBVIOUS
    <2>1. file[f] = {o} \X (1..call[o].mapped)
      BY <1>0 DEF AloneInv, CallOK
    <2>2. <<p, NumChunks>> \in file[f]
      BY IndexAssumption DEF Belongs, Position
    <2>3. call[o].mapped \in Nat /\ call[o].mapped < NumChunks
      BY <1>0 DEF TypeOK, CallRec
    <2> QED BY <2>1, <2>2, <2>3, IndexAssumption
  <1>5. \A p \in Call : ~ Whole(f, p)
    BY <1>0, <1>4, WholeIs
  <1>6. CASE n = NumChunks
    <2>1. At(o, "stored")' /\ ~ At(o, "stored")
      BY <1>0, <1>1, <1>6 DEF At
    <2>2. StoredVersions' = StoredVersions \cup {o} /\ o \notin StoredVersions
      BY <1>0, <2>1 DEF StoredVersions, At
    <2>3. Whole(f, o)'
      <3>1. CallOK(o)
        BY DEF AloneInv
      <3>2. /\ file'[f] = file[f] \cup {<<o, n>>}
            /\ {o} \X (1..n) = ({o} \X (1..call[o].mapped)) \cup {<<o, n>>}
        BY <1>0, MapTypes
      <3>3. file'[f] = {o} \X Position
        BY <1>0, <1>6, <3>1, <3>2 DEF CallOK, Position
      <3> QED BY <1>0, <3>1, <3>3 DEF CallOK, Whole, Rowed
    <2>4. VersionOf(f)' = o /\ VersionOf(f) = None
      BY <1>0, <1>5, <2>3, VersionIs, VersionIsNext DEF VersionsKnown
    <2>5. \A g \in File \ {f} : VersionOf(g)' = VersionOf(g)
      BY <1>3, SameVersion
    <2>6. Versions[f] = None /\ Versions' = [Versions EXCEPT ![f] = o]
      BY <1>0, <2>4, <2>5 DEF Versions
    <2> QED BY <1>0, <1>2, <2>2, <2>6 DEF FS!Store
  <1>7. CASE n # NumChunks
    <2>1. call'[o].pc = "map"
      BY <1>1, <1>7
    <2>2. StoredVersions' = StoredVersions
      BY <1>0, <2>1 DEF StoredVersions, At
    <2>3. \A p \in Call : ~ Whole(f, p)'
      <3>1. \A p \in Call : At(p, "map") => ~ At(p, "stored")
        BY DEF At
      <3>2. file'[f] = {o} \X (1..n)
        BY <1>0, <2>1, MapTypes DEF AloneInv, CallOK
      <3>3. n < NumChunks /\ n \in Nat /\ NumChunks \in Position
        BY <1>0, <1>7, IndexAssumption DEF TypeOK, CallRec, Position
      <3>4. ASSUME NEW p \in Call, Whole(f, p)' PROVE FALSE
        <4>1. <<p, NumChunks>> \in file'[f]
          BY <3>3, <3>4 DEF Whole, Rowed
        <4> QED BY <3>2, <3>3, <4>1
      <3> QED BY <3>4
    <2>4. UNCHANGED Versions
      BY <1>3, <1>5, <2>3, SameVersions
    <2> QED BY <1>2, <2>2, <2>4
  <1> QED BY <1>6, <1>7

LEMMA CallRefines ==
  ASSUME Alone, AloneInv, AloneInv', NEW o \in Call, StoreUserData(o), ~ MapChunk(o)
  PROVE  UNCHANGED <<Versions, StoredVersions, Answer>>
  <1>1. /\ UNCHANGED <<del, ret>> /\ \A p \in Call \ {o} : call'[p] = call[p]
        /\ call[o].pc # "stored"
    BY CallMoves DEF AloneInv
  <1>2. /\ UNCHANGED file
        /\ \A p \in Call \ {o}, i \in Position : row'[<<p, i>>] = row[<<p, i>>]
        /\ ~ At(o, "map")
    BY BeforePlan, InRounds DEF StoreUserData, Proceed
  <1>3. call'[o].pc # "stored"
    <2>1. CASE Task(o)
      BY <1>1, <2>1 DEF Task, AskMiners, StoreChunk, HandleUid
    <2>2. CASE Reroll(o)
      BY <2>2 DEF Reroll, AloneInv, TypeOK, CallRec
    <2>3. ASSUME NEW pc, pc # "stored", Goto(o, pc) PROVE call'[o].pc # "stored"
      BY <2>3, GotoMoves DEF AloneInv
    <2> QED BY <2>1, <2>2, <2>3
            DEF StoreUserData, Proceed, Lookup, SetKey, LookupAgain, Plan, PlanFails,
                CreateTasks, Gather, EndRounds
  <1>4. UNCHANGED <<StoredVersions, Answer>>
    BY <1>1, <1>3 DEF StoredVersions, At, Answer
  <1>5. \A f \in File, p \in Call : Whole(f, p)' <=> Whole(f, p)
    <2>1. ASSUME NEW f \in File, NEW c \in file[f] PROVE row'[c] = row[c]
      BY <1>1, <1>2, Owner DEF At
    <2> QED BY <1>2, <2>1, WholeKept
  <1> QED BY <1>4, <1>5, SameVersions

\* The first chunk of a file is deleted: the user sees the file deleted.
LEMMA DeleteRefines ==
  ASSUME Alone, AloneInv, AloneInv', DeleteUserData
  PROVE  \/ \E f \in File : FS!Delete(f)
         \/ UNCHANGED <<Versions, StoredVersions, Answer>>
  <1>0. /\ (\A o \in Call : ~ Active(o)) /\ UNCHANGED <<call, ret>>
        /\ UNCHANGED <<StoredVersions, Answer>>
    BY DeleteAlone DEF StoredVersions, At, Answer
  <1>1. CASE UNCHANGED <<file, row>>
    BY <1>0, <1>1, WholeKept, SameVersions
  <1>2. CASE DeleteRow
    <2>1. PICK c \in del.left : /\ row' = [row EXCEPT ![c] = None]
                                /\ del' = [del EXCEPT !.left = @ \ {c}]
      BY <1>2 DEF DeleteRow
    <2>2. del.pc = "rows" /\ UNCHANGED file
      BY <1>2 DEF DeleteRow
    <2>0. PICK f \in File : f = del.file /\ del.left = Rowed(f) /\ \E o \in Call : Belongs(f, o)
      BY <1>0, <2>2, LeftIsRowed
    <2>3. c \in Rowed(f) /\ c \in file[f]
      BY <2>0 DEF Rowed
    <2>4. PICK p \in Call : Belongs(f, p)
      BY <2>0
    <2>5. c \notin Rowed(f)'
      <3>1. c \in Chunk
        BY <2>3 DEF AloneInv, TypeOK, IndexTypeOK
      <3> QED BY <2>1, <3>1 DEF Rowed, AloneInv, TypeOK, IndexTypeOK
    <2>6. \A o \in Call : ~ Whole(f, o)'
      <3>1. SUFFICES ASSUME NEW o \in Call, Whole(f, o)' PROVE FALSE
        OBVIOUS
      <3>2. file[f] = {p} \X Position /\ {o} \X Position \subseteq file[f]
        BY <2>2, <2>4, <3>1 DEF Belongs, Whole, Rowed
      <3>3. <<o, 1>> \in {o} \X Position
        BY IndexAssumption DEF Position
      <3>4. o = p
        BY <3>2, <3>3
      <3> QED BY <2>3, <2>5, <3>1, <3>2, <3>4 DEF Whole
    <2>7. ASSUME NEW g \in File \ {f} PROVE VersionOf(g)' = VersionOf(g)
      <3>1. ASSUME NEW d \in file[g] PROVE row'[d] = row[d]
        <4>1. d # c
          BY <2>3, <2>4, <2>7, Owner
        <4>2. d \in Chunk
          BY DEF AloneInv, TypeOK, IndexTypeOK
        <4> QED BY <2>1, <4>1, <4>2 DEF AloneInv, TypeOK, IndexTypeOK
      <3>2. \A o \in Call : Whole(g, o)' <=> Whole(g, o)
        BY <2>2, <3>1, WholeKept
      <3> QED BY <3>2, SameVersion
    <2>8. VersionOf(f)' = None
      BY <2>3, <2>6, VersionIsNext DEF VersionsKnown
    <2>9. Versions' = [Versions EXCEPT ![f] = None]
      BY <2>3, <2>7, <2>8 DEF Versions
    <2>10. CASE Versions[f] = None
      <3>1. \A g \in File : VersionOf(g)' = VersionOf(g)
        BY <2>3, <2>7, <2>8, <2>10 DEF Versions
      <3> QED BY <1>0, <3>1 DEF Versions
    <2>11. CASE Versions[f] # None
      BY <1>0, <2>3, <2>9, <2>11 DEF FS!Delete
    <2> QED BY <2>10, <2>11
  <1>3. CASE DeleteFile
    <2>1. /\ del.pc = "rows" /\ del.left = {} /\ UNCHANGED row
      BY <1>3 DEF DeleteFile
    <2>2. PICK g \in File : g = del.file /\ Rowed(g) = {}
      BY <1>0, <2>1, LeftIsRowed
    <2>3. /\ file'[g] = {}
          /\ \A f \in File \ {g} : file'[f] = file[f]
      BY <1>3, <2>2 DEF DeleteFile, Known, AloneInv, TypeOK, IndexTypeOK
    <2>4. ASSUME NEW f \in File, NEW o \in Call PROVE Whole(f, o)' <=> Whole(f, o)
      <3>1. CASE f = g
        <4>1. <<o, 1>> \in {o} \X Position
          BY IndexAssumption DEF Position
        <4> QED BY <2>2, <2>3, <3>1, <4>1 DEF Whole, Rowed
      <3>2. CASE f # g
        BY <2>1, <2>3, <3>2, WholeKept
      <3> QED BY <3>1, <3>2
    <2> QED BY <1>0, <2>4, SameVersions
  <1> QED BY <1>1, <1>2, <1>3 DEF DeleteUserData, DeleteLookup, DeleteChunks, index

\* The user sees the last answer until the next retrieval begins, and the new one when
\* the key is there.
LEMMA RetrieveRefines ==
  ASSUME Alone, AloneInv, AloneInv', RetrieveUserData
  PROVE  \/ FS!Forget
         \/ \E f \in File : FS!Retrieve(f)
         \/ UNCHANGED <<Versions, StoredVersions, Answer>>
  <1>0. ret \in Ret /\ RetOK
    BY DEF AloneInv, TypeOK
  <1>1. UNCHANGED <<file, row, call>>
    BY DEF RetrieveUserData, RetrieveLookup, RetrieveFetch, RetrieveKey, index
  <1>2. UNCHANGED <<Versions, StoredVersions>>
    BY <1>1, WholeKept, SameVersions DEF StoredVersions, At
  <1>3. ASSUME NEW f \in File, RetrieveLookup(f)
        PROVE  FS!Forget \/ UNCHANGED Answer
    <2>1. ret'.pc = "fetch" /\ ret.pc \in {"idle", "done"}
      BY <1>3 DEF RetrieveLookup, IdleRet
    <2>2. Answer' = [key |-> None, data |-> {}]
      BY <2>1 DEF Answer
    <2>3. CASE ret.pc = "idle"
      BY <2>2, <2>3 DEF Answer
    <2>4. CASE ret.pc = "done"
      <3>1. Answer.key # None
        BY <1>0, <2>4 DEF Answer, RetOK
      <3> QED BY <1>2, <2>2, <3>1 DEF FS!Forget, FS!NoAnswer
    <2> QED BY <2>1, <2>3, <2>4
  <1>4. CASE RetrieveFetch
    <2>1. ret.pc = "fetch" /\ ret'.pc = "key"
      BY <1>0, <1>4 DEF RetrieveFetch, Ret
    <2> QED BY <1>2, <2>1 DEF Answer
  <1>5. CASE RetrieveKey
    <2>1. /\ ret.pc = "key" /\ ret'.pc = "done" /\ ret'.key = key[ret.file]
          /\ ret'.got = ret.got /\ UNCHANGED del
      BY <1>0, <1>5 DEF RetrieveKey, Ret
    <2>2. PICK f \in File : f = ret.file /\ file[f] # {} /\ ret.got \subseteq file[f]
      BY <1>0, <2>1 DEF Ret, RetOK, Retrieving
    <2>3. (\A o \in Call : ~ Active(o)) /\ ~ Deleting
      BY <2>1 DEF AloneInv, OneAtATime, Retrieving
    <2>4. PICK o \in Call : Belongs(f, o)
      BY <2>2, <2>3, HasOwner
    <2>5. Whole(f, o)
      BY <2>3, <2>4, WholeIs DEF Belongs, Deleting
    <2>6. Versions[f] = o /\ Versions[f] # None
      BY <2>5, VersionIs, IndexAssumption DEF VersionsKnown, Versions
    <2>7. /\ Answer' = [key |-> Versions[f], data |-> {c[1] : c \in ret.got}]
          /\ {c[1] : c \in ret.got} \in SUBSET {Versions[f]}
      BY <2>1, <2>2, <2>4, <2>6 DEF Answer, Belongs
    <2> QED BY <1>2, <2>6, <2>7 DEF FS!Retrieve
  <1> QED BY <1>2, <1>3, <1>4, <1>5 DEF RetrieveUserData

LEMMA InitRefines == Init => FS!Init
  <1> SUFFICES ASSUME Init PROVE FS!Init
    OBVIOUS
  <1>1. \A f \in File, o \in Call : ~ Whole(f, o)
    <2>1. \A o \in Call : <<o, 1>> \in {o} \X Position
      BY IndexAssumption DEF Position
    <2> QED BY <2>1 DEF Init, EmptyIndex, Whole, Rowed
  <1>2. Versions = [f \in File |-> None]
    BY <1>1 DEF Versions, VersionOf
  <1>3. StoredVersions = {} /\ Answer = FS!NoAnswer
    BY DEF Init, StoredVersions, At, Answer, IdleRet, FS!NoAnswer
  <1> QED BY <1>2, <1>3 DEF FS!Init

LEMMA NextRefines == Alone /\ AloneInv /\ AloneInv' /\ [Next]_vars => [FS!Next]_FS!vars
  <1> SUFFICES ASSUME Alone, AloneInv, AloneInv', [Next]_vars
               PROVE  FS!Next \/ UNCHANGED <<Versions, StoredVersions, Answer>>
    BY DEF FS!vars
  <1>1. ASSUME NEW o \in Call, StoreUserData(o)
        PROVE  FS!Next \/ UNCHANGED <<Versions, StoredVersions, Answer>>
    BY <1>1, MapRefines, CallRefines DEF FS!Next
  <1>2. CASE DeleteUserData
    BY <1>2, DeleteRefines DEF FS!Next
  <1>3. CASE RetrieveUserData
    BY <1>3, RetrieveRefines DEF FS!Next
  <1>4. CASE UNCHANGED vars
    <2>1. UNCHANGED <<file, row, call, ret>>
      BY <1>4 DEF vars, index
    <2> QED BY <2>1, WholeKept, SameVersions DEF StoredVersions, At, Answer
  <1>5. ~ Crash
    BY DEF Alone, Crash
  <1> QED BY <1>1, <1>2, <1>3, <1>4, <1>5 DEF Next

\* For a user whose requests do not overlap, and an API node that is not killed, storing,
\* deleting and retrieving command by command is the same as one step each on a store of
\* whole files, whatever the miners answer.
THEOREM BroadbandRefines ==
  ASSUME Alone
  PROVE  Spec => ImplementsFileStore
  <1>1. Spec => []AloneInv
    BY AloneCorrect
  <1>2. Alone /\ AloneInv /\ AloneInv' /\ [Next]_vars => [FS!Next]_FS!vars
    BY NextRefines
  <1> QED BY <1>1, <1>2, InitRefines, PTL DEF Spec, ImplementsFileStore, FS!Spec
=============================================================================
