--------------------------- MODULE EpochLoop_proofs ---------------------------
(***************************************************************************)
(* Proofs about EpochLoop: types, reports of miners that are down, purges  *)
(* and settings of weights.                                                *)
(***************************************************************************)
EXTENDS EpochLoop, TLAPS

-----------------------------------------------------------------------------
(* Constants and operators                                                 *)

LEMMA Numbers ==
  /\ WaitBlocks \in Nat /\ CheckpointBlocks \in Nat /\ HalfTempo \in Nat
  /\ QuietBlocks \in Nat /\ MaxFailures \in Nat /\ MaxLag \in Nat
  BY EpochLoopAssumption DEF EpochLoopAssumption

LEMMA Environment ==
  ASSUME env \in Envs
  PROVE  env.hotkeys \in [Uid -> Nat] /\ env.epochs \in Nat /\ env.pool \in Nat
  BY EpochLoopAssumption DEF EpochLoopAssumption

\* Cap never exceeds its bound, and otherwise keeps the number.
LEMMA CapBound ==
  ASSUME NEW n \in Nat, NEW max \in Nat
  PROVE  /\ Cap(n, max) \in 0..max
         /\ n <= max => Cap(n, max) = n
         /\ n > max => Cap(n, max) = max
  BY DEF Cap

\* The hotkeys of a uid are hotkeys, and all of them are numbers.
LEMMA HotkeysOfUids ==
  ASSUME env \in Envs
  PROVE  /\ Hotkeys \subseteq Nat
         /\ 0 \in Nat
         /\ \A u \in Uid : \A n \in 0..env.hotkeys[u] : n \in Hotkeys
         /\ \A u \in Uid : 0 \in Hotkeys
  <1>1. \A u \in Uid : env.hotkeys[u] \in Nat
    BY Environment
  <1> QED BY <1>1 DEF Hotkeys

-----------------------------------------------------------------------------
(* Types                                                                   *)

\* The main thread before and after __init__.
LEMMA StartOfMain ==
  ASSUME NEW x, NEW pc \in {"off", "load"}, NEW hotkeys \in [Uid -> Hotkeys],
         NEW scored \in [Uid -> SUBSET Hotkeys], NEW lookup \in [Uid -> 0..MaxFailures],
         NEW size \in SUBSET Uid, NEW zero \in 0..env.epochs, zero \in 0..CheckpointBlocks,
         NEW weights \in 0..HalfTempo + 1,
         x = [pc |-> pc, ret |-> "", hotkeys |-> hotkeys, axons |-> hotkeys,
              scored |-> scored, size |-> size, lookup |-> lookup, down |-> {},
              purged |-> zero, epoch |-> zero, step |-> zero, weights |-> weights]
  PROVE  x \in Main
  BY Zenon DEF Main

LEMMA InitTypes == Init => TypeOK
  <1> SUFFICES ASSUME Init PROVE TypeOK
    OBVIOUS
  <1>1. env \in Envs
    BY DEF Init
  <1>2. env.hotkeys \in [Uid -> Nat] /\ env.epochs \in Nat
    BY <1>1, Environment
  <1>3. owner \in [Uid -> {0, 1}] /\ \A u \in Uid : owner[u] <= env.hotkeys[u]
    BY DEF Init
  <1>4. \A u \in Uid : owner[u] \in 0..env.hotkeys[u]
    BY <1>2, <1>3
  <1>5. owner \in [Uid -> Hotkeys]
    BY <1>1, <1>3, <1>4, HotkeysOfUids
  <1>6. /\ Zero \in [Uid -> Hotkeys] /\ Zero \in [Uid -> 0..MaxFailures]
        /\ Zero \in [Uid -> 0..MaxFailures + 1] /\ NoScore \in [Uid -> SUBSET Hotkeys]
    BY <1>1, HotkeysOfUids, Numbers DEF Zero, NoScore
  <1>7. v \in Main
    <2>1. v = [pc |-> "off", ret |-> "", hotkeys |-> Zero, axons |-> Zero, scored |-> NoScore,
               size |-> {}, lookup |-> Zero, down |-> {}, purged |-> 0, epoch |-> 0,
               step |-> 0, weights |-> 0]
      BY DEF Init
    <2>2. 0 \in 0..env.epochs /\ 0 \in 0..CheckpointBlocks /\ 0 \in 0..HalfTempo + 1
      BY <1>2, Numbers
    <2> QED BY <2>1, <2>2, <1>6, StartOfMain
  <1>8. sub \in Thread
    <2>1. sub = NoThread
      BY DEF Init
    <2> QED BY <2>1, Numbers DEF Thread, NoThread
  <1>9. saved \in File
    <2>1. saved = [readable |-> FALSE, scored |-> NoScore, size |-> {}, lookup |-> Zero,
                   purged |-> 0]
      BY DEF Init
    <2> QED BY <2>1, <1>2, <1>6 DEF File
  <1>10. hist \in History
    <2>1. hist = [fails |-> Zero, unsaved |-> {}, restored |-> {}, purges |-> {},
                  read |-> FALSE, lost |-> FALSE]
      BY DEF Init
    <2> QED BY <2>1, <1>6 DEF History
  <1>11. headers \in Seq({None} \cup Uid \X Hotkeys) /\ Len(headers) <= MaxLag
    <2>1. headers = <<>>
      BY DEF Init
    <2> QED BY <2>1, Numbers
  <1>12. since \in 0..HalfTempo + 1 /\ epoch \in 0..env.epochs
    <2>1. since = HalfTempo + 1 /\ epoch = 0
      BY DEF Init
    <2> QED BY <2>1, <1>2, Numbers
  <1>13. pool \in Seq(BOOLEAN) /\ Len(pool) <= env.pool
    <2>1. pool = <<>>
      BY DEF Init
    <2> QED BY <2>1, <1>1, Environment
  <1> QED BY <1>1, <1>5, <1>7, <1>8, <1>9, <1>10, <1>11, <1>12, <1>13 DEF TypeOK

\* The sets of the types depend on the environment only.
LEMMA SameTypes ==
  ASSUME env' = env
  PROVE  Main' = Main /\ Thread' = Thread /\ File' = File /\ History' = History
         /\ Hotkeys' = Hotkeys
  BY DEF Main, Thread, File, History, Hotkeys

\* Time that passes changes two distances of the main thread.
LEMMA PassedTypes ==
  ASSUME TypeOK, Passed
  PROVE  since' \in 0..HalfTempo + 1 /\ v' \in Main
  <1>1. since \in 0..HalfTempo + 1 /\ v \in Main
    BY DEF TypeOK
  <1>2. since' \in 0..HalfTempo + 1
    <2>1. since + 1 \in Nat /\ HalfTempo + 1 \in Nat
      BY <1>1, Numbers
    <2> QED BY <2>1, CapBound DEF Passed
  <1>3. v.step \in 0..CheckpointBlocks /\ v.weights \in 0..HalfTempo + 1
    BY <1>1 DEF Main
  <1>4. /\ Cap(v.step + 1, CheckpointBlocks) \in 0..CheckpointBlocks
        /\ Cap(v.weights + 1, HalfTempo + 1) \in 0..HalfTempo + 1
    <2>1. v.step + 1 \in Nat /\ v.weights + 1 \in Nat /\ HalfTempo + 1 \in Nat
      BY <1>3, Numbers
    <2> QED BY <2>1, CapBound, Numbers
  <1>5. v' \in Main
    BY <1>1, <1>4 DEF Main, Passed
  <1> QED BY <1>2, <1>5

\* A header is delivered only if there is room.
LEMMA DeliverTypes ==
  ASSUME TypeOK, NEW header \in {None} \cup Uid \X Hotkeys, Deliver(header)
  PROVE  headers' \in Seq({None} \cup Uid \X Hotkeys) /\ Len(headers') <= MaxLag
  <1>1. headers \in Seq({None} \cup Uid \X Hotkeys) /\ Len(headers) <= MaxLag
    BY DEF TypeOK
  <1> QED BY <1>1, Numbers DEF Deliver

\* The process ends, and with it the thread.
LEMMA EndTypes ==
  ASSUME TypeOK, End
  PROVE  /\ v' \in Main /\ sub' \in Thread /\ hist' \in History
         /\ headers' \in Seq({None} \cup Uid \X Hotkeys) /\ Len(headers') <= MaxLag
  <1>1. v' \in Main
    <2>1. v \in Main
      BY DEF TypeOK
    <2> QED BY <2>1 DEF Main, End
  <1>2. sub' \in Thread
    BY Numbers DEF Thread, End, NoThread
  <1>3. hist' \in History
    <2>1. hist \in History
      BY DEF TypeOK
    <2>2. (hist.lost \/ v.pc \in {"mark", "save"}) \in BOOLEAN
      BY <2>1 DEF History
    <2> QED BY <2>1, <2>2 DEF History, End
  <1>4. headers' = <<>>
    BY DEF End
  <1> QED BY <1>1, <1>2, <1>3, <1>4, Numbers

-----------------------------------------------------------------------------
(* Each step keeps the types                                               *)

LEMMA BlockTypes ==
  ASSUME TypeOK, Block
  PROVE  TypeOK'
  <1>1. since' \in 0..HalfTempo + 1 /\ v' \in Main
    BY PassedTypes DEF Block
  <1>2. headers' \in Seq({None} \cup Uid \X Hotkeys) /\ Len(headers') <= MaxLag
    BY DeliverTypes DEF Block
  <1> QED BY <1>1, <1>2, SameTypes DEF TypeOK, Block

LEMMA RegisterTypes ==
  ASSUME TypeOK, NEW u \in Uid, RegisterNeuron(u)
  PROVE  TypeOK'
  <1>1. env \in Envs /\ owner \in [Uid -> Hotkeys]
    BY DEF TypeOK
  <1>2. owner[u] + 1 \in Hotkeys
    <2>1. owner[u] \in Nat /\ env.hotkeys[u] \in Nat /\ owner[u] < env.hotkeys[u]
      BY <1>1, HotkeysOfUids, Environment DEF RegisterNeuron
    <2>2. owner[u] + 1 \in 0..env.hotkeys[u]
      BY <2>1
    <2> QED BY <2>2, <1>1, HotkeysOfUids
  <1>3. since' \in 0..HalfTempo + 1 /\ v' \in Main
    BY PassedTypes DEF RegisterNeuron
  <1>4. headers' \in Seq({None} \cup Uid \X Hotkeys) /\ Len(headers') <= MaxLag
    <2>1. <<u, owner[u] + 1>> \in {None} \cup Uid \X Hotkeys
      BY <1>2
    <2> QED BY <2>1, DeliverTypes DEF RegisterNeuron
  <1>5. owner' \in [Uid -> Hotkeys]
    BY <1>1, <1>2 DEF RegisterNeuron
  <1> QED BY <1>3, <1>4, <1>5, SameTypes DEF TypeOK, RegisterNeuron

LEMMA NextEpochTypes ==
  ASSUME TypeOK, NextEpoch
  PROVE  TypeOK'
  <1>1. env \in Envs /\ epoch \in 0..env.epochs /\ hist \in History
    BY DEF TypeOK
  <1>2. epoch' \in 0..env.epochs
    BY <1>1, Environment DEF NextEpoch
  <1>3. hist' \in History
    BY <1>1 DEF History, NextEpoch
  <1> QED BY <1>2, <1>3, SameTypes DEF TypeOK, NextEpoch

\* The weights that are left when one was taken, or dropped.
LEMMA PoolTypes ==
  ASSUME TypeOK, TakeWeights \/ DropWeights
  PROVE  TypeOK'
  <1>1. /\ pool \in Seq(BOOLEAN) /\ Len(pool) <= env.pool /\ pool # <<>>
        /\ env \in Envs /\ hist \in History
    BY DEF TypeOK, TakeWeights, DropWeights
  <1>2. Len(pool) \in Nat \ {0} /\ env.pool \in Nat
    BY <1>1, Environment
  <1>3. CASE TakeWeights
    <2>1. pool' = [i \in 1..Len(pool) - 1 |-> FALSE] /\ Len(pool) - 1 \in Nat
      BY <1>2, <1>3 DEF TakeWeights
    <2>2. pool' \in Seq(BOOLEAN) /\ Len(pool') = Len(pool) - 1
      BY <2>1
    <2>3. Len(pool') <= env.pool
      BY <1>1, <1>2, <2>2
    <2>4. since' \in 0..HalfTempo + 1
      BY <1>3, Numbers DEF TakeWeights
    <2>5. hist' \in History
      BY <1>1, <1>3 DEF TakeWeights, History
    <2> QED BY <1>3, <2>2, <2>3, <2>4, <2>5, SameTypes DEF TypeOK, TakeWeights
  <1>4. CASE DropWeights
    <2>1. pool' = Tail(pool)
      BY <1>4 DEF DropWeights
    <2>2. Tail(pool) \in Seq(BOOLEAN) /\ Len(Tail(pool)) = Len(pool) - 1
      BY <1>1
    <2>3. Len(pool') <= env.pool
      BY <1>1, <1>2, <2>1, <2>2
    <2> QED BY <1>4, <2>1, <2>2, <2>3, SameTypes DEF TypeOK, DropWeights
  <1> QED BY <1>3, <1>4

LEMMA BootTypes ==
  ASSUME TypeOK, Boot
  PROVE  TypeOK'
  <1>1. env \in Envs /\ owner \in [Uid -> Hotkeys]
    BY DEF TypeOK
  <1>2. v' \in Main
    <2>1. Registered(owner) \in SUBSET Uid /\ HalfTempo + 1 \in 0..HalfTempo + 1
      BY Numbers DEF Registered
    <2>2. v' = [pc |-> "load", ret |-> "", hotkeys |-> owner, axons |-> owner,
                scored |-> NoScore, size |-> Registered(owner), lookup |-> Zero,
                down |-> {}, purged |-> 0, epoch |-> 0, step |-> 0,
                weights |-> HalfTempo + 1]
      BY DEF Boot
    <2>3. /\ Zero \in [Uid -> 0..MaxFailures] /\ NoScore \in [Uid -> SUBSET Hotkeys]
      BY Numbers DEF Zero, NoScore
    <2>4. 0 \in 0..env.epochs /\ 0 \in 0..CheckpointBlocks
      BY <1>1, Environment, Numbers
    <2> QED BY <1>1, <2>1, <2>2, <2>3, <2>4, StartOfMain
  <1>3. sub' \in Thread
    <2>1. sub' = NoThread
      BY DEF Boot
    <2> QED BY <2>1, Numbers DEF Thread, NoThread
  <1>4. headers' \in Seq({None} \cup Uid \X Hotkeys) /\ Len(headers') <= MaxLag
    <2>1. headers' = <<>>
      BY DEF Boot
    <2> QED BY <2>1, Numbers
  <1> QED BY <1>2, <1>3, <1>4, SameTypes DEF TypeOK, Boot

LEMMA LoadTypes ==
  ASSUME TypeOK, LoadState
  PROVE  TypeOK'
  <1>1. env \in Envs /\ v \in Main /\ saved \in File /\ hist \in History
    BY DEF TypeOK
  <1>2. CASE ~ saved.readable
    <2>1. v' = [v EXCEPT !.pc = "resync", !.ret = "thread"] /\ hist' = hist
      BY <1>2 DEF LoadState, Checkpoint
    <2>2. v' \in Main
      BY <1>1, <2>1 DEF Main
    <2> QED BY <2>1, <2>2, <1>1, SameTypes DEF TypeOK, LoadState
  <1>3. CASE saved.readable
    <2> DEFINE lookup == [u \in Uid |->
                 IF u \in Registered(v.hotkeys) THEN saved.lookup[u] ELSE 0]
               scored == [u \in Uid |-> IF u \in saved.size THEN saved.scored[u] ELSE {}]
    <2>1. lookup \in [Uid -> 0..MaxFailures]
      BY <1>1, Numbers DEF File
    <2>2. scored \in [Uid -> SUBSET Hotkeys]
      BY <1>1 DEF File
    <2>3. saved.purged \in 0..env.epochs
      BY <1>1 DEF File
    <2>4. v' = [v EXCEPT !.pc = "resync", !.ret = "thread", !.purged = saved.purged,
                         !.lookup = lookup, !.scored = scored]
      BY <1>3 DEF LoadState
    <2>5. v' \in Main
      <3> HIDE DEF lookup, scored
      <3> QED BY <1>1, <2>1, <2>2, <2>3, <2>4 DEF Main
    <2>6. hist' \in History
      <3>1. hist' = [hist EXCEPT !.restored = @ \cup hist.unsaved, !.unsaved = {}]
        BY <1>3 DEF LoadState
      <3> QED BY <1>1, <3>1 DEF History
    <2> QED BY <2>5, <2>6, SameTypes DEF TypeOK, LoadState
  <1> QED BY <1>2, <1>3

LEMMA KillTypes ==
  ASSUME TypeOK, Kill
  PROVE  TypeOK'
  <1>1. /\ v' \in Main /\ sub' \in Thread /\ hist' \in History
        /\ headers' \in Seq({None} \cup Uid \X Hotkeys) /\ Len(headers') <= MaxLag
    BY EndTypes DEF Kill
  <1>2. saved' \in File
    <2>1. saved \in File
      BY DEF TypeOK
    <2>2. saved' \in {saved, [saved EXCEPT !.readable = FALSE]}
      BY DEF Kill
    <2> QED BY <2>1, <2>2 DEF File
  <1> QED BY <1>1, <1>2, SameTypes DEF TypeOK, Kill

LEMMA ResyncTypes ==
  ASSUME TypeOK, ResyncMetagraph
  PROVE  TypeOK'
  <1>1. v \in Main /\ owner \in [Uid -> Hotkeys]
    BY DEF TypeOK
  <1>2. PICK size \in SUBSET Uid, scored \in [Uid -> SUBSET Hotkeys] :
          v' = [SaveThen(v.ret) EXCEPT !.hotkeys = owner, !.axons = owner,
                                       !.size = size, !.scored = scored]
    <2> DEFINE changed == v.axons # owner
               replaced == {u \in Registered(v.hotkeys) : v.hotkeys[u] # owner[u]}
               big == IF changed THEN v.size \cup Registered(owner) ELSE v.size
               clean == [u \in Uid |-> IF changed /\ u \in replaced THEN {} ELSE v.scored[u]]
    <2>1. v' = [SaveThen(v.ret) EXCEPT !.hotkeys = owner, !.axons = owner,
                                       !.size = big, !.scored = clean]
      BY <1>1 DEF ResyncMetagraph, SaveThen, Main
    <2>2. big \in SUBSET Uid
      BY <1>1 DEF Main, Registered
    <2>3. clean \in [Uid -> SUBSET Hotkeys]
      BY <1>1 DEF Main
    <2> HIDE DEF big, clean
    <2> QED BY <2>1, <2>2, <2>3
  <1>3. v' \in Main
    BY <1>1, <1>2 DEF Main, SaveThen
  <1> QED BY <1>3, SameTypes DEF TypeOK, ResyncMetagraph

\* checkpoint and save_state know where to return to.
ReturnsOK == v.pc \in {"resync", "save"} => v.ret # ""

LEMMA SaveTypes ==
  ASSUME TypeOK, ReturnsOK, SaveState \/ SaveFails
  PROVE  TypeOK'
  <1>1. v \in Main /\ saved \in File /\ hist \in History
    BY DEF TypeOK
  <1>2. v' \in Main
    <2>1. v' = [v EXCEPT !.pc = v.ret] /\ At("save")
      BY DEF SaveState, SaveFails, Goto
    <2>2. v.ret \in {"thread", "check", "weights", "end"}
      BY <1>1, <2>1 DEF ReturnsOK, At, Main
    <2> QED BY <1>1, <2>1, <2>2 DEF Main
  <1>3. saved' \in File
    <2>1. CASE SaveState
      <3>1. saved' = [readable |-> TRUE, scored |-> v.scored, size |-> v.size,
                      lookup |-> v.lookup, purged |-> v.purged]
        BY <2>1 DEF SaveState
      <3> QED BY <3>1, <1>1 DEF File, Main
    <2>2. CASE SaveFails
      BY <1>1, <2>2 DEF SaveFails
    <2> QED BY <2>1, <2>2
  <1>4. hist' \in History
    <2>1. hist' = [hist EXCEPT !.unsaved = {}] \/ hist' = [hist EXCEPT !.lost = TRUE]
      BY DEF SaveState, SaveFails
    <2> QED BY <1>1, <2>1 DEF History
  <1> QED BY <1>2, <1>3, <1>4, SameTypes DEF TypeOK, SaveState, SaveFails
\* Steps of the main thread that change nothing else.
LEMMA ControlTypes ==
  ASSUME TypeOK, StartThread \/ Sync \/ Wait \/ Mark \/ Check \/ EndStep
  PROVE  TypeOK'
  <1>1. v \in Main /\ owner \in [Uid -> Hotkeys] /\ since \in 0..HalfTempo + 1 /\ sub \in Thread
    BY DEF TypeOK
  <1>2. v' \in Main
    <2>1. CASE StartThread \/ Wait
      <3>1. v' = [v EXCEPT !.pc = "sync"] \/ v' = [v EXCEPT !.pc = "forward"]
        BY <2>1 DEF StartThread, Wait, Goto
      <3>2. CASE v' = [v EXCEPT !.pc = "sync"]
        BY <1>1, <3>2, ZenonT(60) DEF Main
      <3>3. CASE v' = [v EXCEPT !.pc = "forward"]
        BY <1>1, <3>3, ZenonT(60) DEF Main
      <3> QED BY <3>1, <3>2, <3>3
    <2>2. CASE Sync
      <3>1. v' = [v EXCEPT !.pc = "wait", !.hotkeys = owner, !.axons = owner,
                           !.weights = since]
        BY <2>2 DEF Sync
      <3> QED BY <1>1, <3>1 DEF Main
    <2>3. CASE Mark
      <3>1. v' = [[v EXCEPT !.pc = "save", !.ret = "check"] EXCEPT !.purged = v.epoch]
        BY <2>3 DEF Mark, SaveThen
      <3> QED BY <1>1, <3>1 DEF Main
    <2>4. CASE Check
      <3>1. \/ v' = [v EXCEPT !.pc = "resync", !.ret = "weights"]
            \/ v' = [v EXCEPT !.pc = "weights"]
        BY <2>4 DEF Check, Checkpoint, Goto
      <3>2. CASE v' = [v EXCEPT !.pc = "resync", !.ret = "weights"]
        BY <1>1, <3>2, ZenonT(60) DEF Main
      <3>3. CASE v' = [v EXCEPT !.pc = "weights"]
        BY <1>1, <3>3, ZenonT(60) DEF Main
      <3> QED BY <3>1, <3>2, <3>3
    <2>5. CASE EndStep
      <3>1. v' = [v EXCEPT !.pc = "sync", !.step = 0] /\ 0 \in 0..CheckpointBlocks
        BY <2>5, Numbers DEF EndStep
      <3> QED BY <1>1, <3>1 DEF Main
    <2> QED BY <2>1, <2>2, <2>3, <2>4, <2>5
  <1>3. sub' \in Thread
    <2>1. sub' = sub \/ sub' = [sub EXCEPT !.alive = TRUE]
      BY DEF StartThread, Sync, Wait, Mark, Check, EndStep
    <2> QED BY <1>1, <2>1 DEF Thread
  <1>4. UNCHANGED <<env, owner, since, pool, epoch, headers, saved>>
    BY DEF StartThread, Sync, Wait, Mark, Check, EndStep
  <1>5. hist' \in History
    <2>1. hist \in History /\ (hist' = hist \/ hist' = [hist EXCEPT !.read = TRUE])
      BY DEF TypeOK, StartThread, Sync, Wait, Mark, Check, EndStep
    <2> QED BY <2>1 DEF History
  <1> QED BY <1>2, <1>3, <1>4, <1>5, SameTypes DEF TypeOK

LEMMA ScoredTypes ==
  ASSUME v \in Main, NEW uids \in SUBSET Uid
  PROVE  Scored(uids) \in [Uid -> SUBSET Hotkeys]
  BY DEF Main, Scored

LEMMA ForwardTypes ==
  ASSUME TypeOK, NEW uids \in SUBSET Uid, Forward(uids)
  PROVE  TypeOK'
  <1>1. v \in Main
    BY DEF TypeOK
  <1>2. CASE uids \subseteq v.size
    <2>1. v' = [v EXCEPT !.pc = "monitor", !.scored = Scored(uids)]
      BY <1>2 DEF Forward
    <2>2. v' \in Main
      BY <1>1, <2>1, ScoredTypes DEF Main
    <2> QED BY <1>2, <2>2, SameTypes DEF TypeOK, Forward
  <1>3. CASE End
    BY <1>3, EndTypes, SameTypes DEF TypeOK, Forward
  <1> QED BY <1>2, <1>3 DEF Forward

\* What a round of pings does when it does not raise.
LEMMA MonitorEffect ==
  ASSUME TypeOK, NEW failed \in SUBSET Uid, Monitor(failed), ~ End
  PROVE  /\ failed \subseteq Uid
         /\ v' = [v EXCEPT !.pc = "purge", !.down = Reported(failed),
                   !.scored = Scored(Reported(failed)),
                   !.lookup = [u \in Uid |-> IF u \in Reported(failed) THEN 0
                                ELSE IF u \in failed THEN v.lookup[u] + 1 ELSE v.lookup[u]]]
         /\ hist' = [hist EXCEPT !.fails =
              [u \in Uid |-> IF u \in failed THEN Cap(hist.fails[u] + 1, MaxFailures + 1)
                                             ELSE hist.fails[u]]]
         /\ UNCHANGED <<headers, sub>>
  <1>1. v.lookup \in [Uid -> 0..MaxFailures]
    BY DEF TypeOK, Main
  <1> QED BY <1>1 DEF Monitor

LEMMA MonitorTypes ==
  ASSUME TypeOK, NEW failed \in SUBSET Uid, Monitor(failed)
  PROVE  TypeOK'
  <1>1. v \in Main /\ hist \in History
    BY DEF TypeOK
  <1>2. CASE End
    BY <1>2, EndTypes, SameTypes DEF TypeOK, Monitor
  <1>3. CASE ~ End
    <2> DEFINE down == Reported(failed)
               lookup == [u \in Uid |-> IF u \in down THEN 0
                            ELSE IF u \in failed THEN v.lookup[u] + 1 ELSE v.lookup[u]]
               fails == [u \in Uid |-> IF u \in failed
                                         THEN Cap(hist.fails[u] + 1, MaxFailures + 1)
                                         ELSE hist.fails[u]]
    <2>1. v.lookup \in [Uid -> 0..MaxFailures] /\ hist.fails \in [Uid -> 0..MaxFailures + 1]
      BY <1>1 DEF Main, History
    <2>2. down \in SUBSET Uid
      BY DEF Reported
    <2>3. lookup \in [Uid -> 0..MaxFailures]
      BY <2>1, Numbers DEF Reported
    <2>4. fails \in [Uid -> 0..MaxFailures + 1]
      <3>1. \A u \in Uid : hist.fails[u] + 1 \in Nat /\ MaxFailures + 1 \in Nat
        BY <2>1, Numbers
      <3>2. \A u \in Uid : Cap(hist.fails[u] + 1, MaxFailures + 1) \in 0..MaxFailures + 1
        BY <3>1, CapBound
      <3> QED BY <2>1, <3>2
    <2>5. Scored(down) \in [Uid -> SUBSET Hotkeys]
      BY <1>1, <2>2, ScoredTypes
    <2>6. /\ v' = [v EXCEPT !.pc = "purge", !.down = down, !.scored = Scored(down),
                            !.lookup = lookup]
          /\ hist' = [hist EXCEPT !.fails = fails]
          /\ UNCHANGED <<headers, sub>>
      BY <1>3, MonitorEffect
    <2> HIDE DEF down, lookup, fails
    <2>7. v' \in Main
      BY <1>1, <2>2, <2>3, <2>5, <2>6 DEF Main
    <2>8. hist' \in History
      BY <1>1, <2>4, <2>6 DEF History
    <2> QED BY <2>6, <2>7, <2>8, SameTypes DEF TypeOK, Monitor
  <1> QED BY <1>2, <1>3

LEMMA PurgeTypes ==
  ASSUME TypeOK, Purge
  PROVE  TypeOK'
  <1>1. v \in Main /\ hist \in History /\ epoch \in 0..env.epochs
    BY DEF TypeOK
  <1>2. v' \in Main
    <2>1. PICK pc \in {"mark", "check"} :
            v' = [v EXCEPT !.pc = pc, !.epoch = epoch, !.down = {}]
      BY DEF Purge
    <2> QED BY <1>1, <2>1 DEF Main
  <1>3. hist' \in History
    <2>1. PICK purges \in {hist.purges, hist.purges \cup {epoch}} :
            hist' = [hist EXCEPT !.purges = purges,
                       !.fails = [u \in Uid |-> IF u \in v.down THEN 0 ELSE hist.fails[u]],
                       !.unsaved = hist.unsaved \cup v.down,
                       !.restored = hist.restored \ v.down]
      BY <1>1 DEF Purge, History
    <2>2. [u \in Uid |-> IF u \in v.down THEN 0 ELSE hist.fails[u]]
            \in [Uid -> 0..MaxFailures + 1]
      BY <1>1, Numbers DEF History
    <2>3. purges \in SUBSET (0..env.epochs) /\ v.down \in SUBSET Uid
      BY <1>1 DEF History, Main
    <2> QED BY <1>1, <2>1, <2>2, <2>3 DEF History
  <1> QED BY <1>2, <1>3, SameTypes DEF TypeOK, Purge

LEMMA WeightsTypes ==
  ASSUME TypeOK, NEW outcome, Weights(outcome)
  PROVE  TypeOK'
  <1>1. v \in Main /\ since \in 0..HalfTempo + 1
    BY DEF TypeOK
  <1>2. CASE End
    <2>1. v.pc = "weights" /\ v'.pc = "off"
      BY <1>1, <1>2 DEF Weights, End, At, Main
    <2>2. pool' = pool
      BY <1>1, <2>1 DEF Weights, Goto, SaveThen, Main
    <2> QED BY <1>2, <2>2, EndTypes, SameTypes DEF TypeOK, Weights
  <1>3. CASE ~ End
    <2>1. \/ v' = [v EXCEPT !.pc = "end"]
          \/ v' = [[v EXCEPT !.pc = "save", !.ret = "end"] EXCEPT !.weights = 0]
      BY <1>3 DEF Weights, Goto, SaveThen
    <2>2. v' \in Main
      <3>1. 0 \in 0..HalfTempo + 1
        BY Numbers
      <3>2. CASE v' = [v EXCEPT !.pc = "end"]
        BY <1>1, <3>2, ZenonT(60) DEF Main
      <3>3. CASE v' = [[v EXCEPT !.pc = "save", !.ret = "end"] EXCEPT !.weights = 0]
        BY <1>1, <3>1, <3>3, ZenonT(60) DEF Main
      <3> QED BY <2>1, <3>2, <3>3
    <2>3. pool' \in Seq(BOOLEAN) /\ Len(pool') <= env.pool
      <3>1. /\ pool \in Seq(BOOLEAN) /\ Len(pool) <= env.pool /\ env.pool \in Nat
            /\ hist.read \in BOOLEAN
        BY Environment DEF TypeOK, History
      <3>2. pool' = pool \/ (Len(pool) < env.pool /\ pool' = Append(pool, hist.read))
        BY <1>3 DEF Weights
      <3> QED BY <3>1, <3>2
    <2>4. UNCHANGED <<headers, sub, hist>>
      BY <1>3 DEF Weights
    <2> QED BY <2>2, <2>3, <2>4, SameTypes DEF TypeOK, Weights
  <1> QED BY <1>2, <1>3

LEMMA HeaderTypes ==
  ASSUME TypeOK, HandleHeader \/ HandlerDies
  PROVE  TypeOK'
  <1>1. /\ v \in Main /\ sub \in Thread
        /\ headers \in Seq({None} \cup Uid \X Hotkeys) /\ Len(headers) <= MaxLag
        /\ headers # <<>>
    BY DEF TypeOK, HandleHeader, HandlerDies
  <1>2. CASE HandlerDies
    <2>1. sub' = NoThread /\ headers' = <<>>
      BY <1>2 DEF HandlerDies
    <2>2. sub' \in Thread
      BY <2>1, Numbers DEF Thread, NoThread
    <2>3. headers' \in Seq({None} \cup Uid \X Hotkeys) /\ Len(headers') <= MaxLag
      BY <2>1, Numbers
    <2> QED BY <1>2, <2>2, <2>3, SameTypes DEF TypeOK, HandlerDies
  <1>3. CASE HandleHeader
    <2> DEFINE header == Head(headers)
    <2>1. header \in {None} \cup Uid \X Hotkeys /\ Len(headers) \in Nat \ {0}
      BY <1>1
    <2>2. headers' \in Seq({None} \cup Uid \X Hotkeys) /\ Len(headers') <= MaxLag
      <3>1. headers' = Tail(headers)
        BY <1>3 DEF HandleHeader
      <3>2. Len(Tail(headers)) = Len(headers) - 1 /\ Tail(headers) \in Seq({None} \cup Uid \X Hotkeys)
        BY <1>1
      <3> QED BY <1>1, <2>1, <3>1, <3>2, Numbers
    <2>3. header # None => header[1] \in Uid /\ header[2] \in Hotkeys
      BY <2>1
    <2>4. v' \in Main
      <3>1. v' = IF header # None THEN [v EXCEPT !.hotkeys[header[1]] = header[2]] ELSE v
        BY <1>3 DEF HandleHeader
      <3> HIDE DEF header
      <3> QED BY <1>1, <2>3, <3>1 DEF Main
    <2>5. sub' \in Thread
      <3>1. PICK quiet, queue :
              /\ quiet = IF header # None THEN 0 ELSE Cap(sub.quiet + 1, QuietBlocks)
              /\ queue \in {<<>>, sub.queue, Append(sub.queue, <<header[1], v.hotkeys[header[1]]>>)}
              /\ queue = <<>> \/ queue = sub.queue \/ header # None
              /\ sub' = [sub EXCEPT !.quiet = quiet, !.queue = queue]
        BY <1>3 DEF HandleHeader
      <3>2. quiet \in 0..QuietBlocks
        <4>1. sub.quiet + 1 \in Nat
          BY <1>1, Numbers DEF Thread
        <4> QED BY <3>1, <4>1, CapBound, Numbers
      <3>3. queue \in Seq(Uid \X Hotkeys)
        <4>1. sub.queue \in Seq(Uid \X Hotkeys)
          BY <1>1 DEF Thread
        <4>2. header # None => v.hotkeys[header[1]] \in Hotkeys
          BY <1>1, <2>3 DEF Main
        <4>3. header # None => <<header[1], v.hotkeys[header[1]]>> \in Uid \X Hotkeys
          BY <2>3, <4>2
        <4> HIDE DEF header
        <4>4. header # None => Append(sub.queue, <<header[1], v.hotkeys[header[1]]>>) \in Seq(Uid \X Hotkeys)
          BY <4>1, <4>3
        <4>5. << >> \in Seq(Uid \X Hotkeys)
          OBVIOUS
        <4>6. CASE header # None
          <5> DEFINE longer == Append(sub.queue, <<header[1], v.hotkeys[header[1]]>>)
          <5>1. longer \in Seq(Uid \X Hotkeys) /\ queue \in {<<>>, sub.queue, longer}
            BY <3>1, <4>4, <4>6
          <5> HIDE DEF longer
          <5> QED BY <5>1, <4>1, <4>5
        <4>7. CASE header = None
          BY <3>1, <4>1, <4>5, <4>7
        <4> QED BY <4>6, <4>7
      <3> QED BY <1>1, <3>1, <3>2, <3>3 DEF Thread
    <2> QED BY <1>3, <2>2, <2>4, <2>5, SameTypes DEF TypeOK, HandleHeader
  <1> QED BY <1>2, <1>3
LEMMA StepTypes ==
  ASSUME TypeOK, ReturnsOK, [Next]_vars
  PROVE  TypeOK'
  <1>1. CASE Chain
    BY <1>1, BlockTypes, NextEpochTypes, PoolTypes, RegisterTypes DEF Chain
  <1>2. CASE Loop
    <2>1. ASSUME NEW uids \in SUBSET Uid, Forward(uids) \/ Monitor(uids)
          PROVE  TypeOK'
      BY <2>1, ForwardTypes, MonitorTypes
    <2>2. ASSUME NEW outcome \in {"sent", "refused", "raised"}, Weights(outcome)
          PROVE  TypeOK'
      BY <2>2, WeightsTypes
    <2> QED BY <1>2, <2>1, <2>2, BootTypes, LoadTypes, ResyncTypes, SaveTypes, ControlTypes,
               PurgeTypes DEF Loop
  <1>3. CASE Subscription
    BY <1>3, HeaderTypes DEF Subscription
  <1>4. CASE Kill
    BY <1>4, KillTypes
  <1>5. CASE UNCHANGED vars
    BY <1>5, SameTypes DEF vars, TypeOK
  <1> QED BY <1>1, <1>2, <1>3, <1>4, <1>5 DEF Next

-----------------------------------------------------------------------------
(* What steps do to the main thread                                        *)

\* Nobody else touches the control of the main thread, and what it knows; the blocks
\* that pass, and the thread, change distances and hotkeys.
Untouched ==
  /\ v'.pc = v.pc /\ v'.ret = v.ret /\ v'.lookup = v.lookup /\ v'.down = v.down
  /\ v'.purged = v.purged /\ v'.epoch = v.epoch

LEMMA OthersTouchNothing ==
  ASSUME TypeOK, Chain \/ Subscription
  PROVE  Untouched
  <1>1. v \in Main
    BY DEF TypeOK
  <1>2. CASE Passed
    BY <1>1, <1>2 DEF Passed, Main, Untouched
  <1>3. CASE v' = v
    BY <1>3 DEF Untouched
  <1>4. CASE HandleHeader
    <2>1. PICK u, n : v' = v \/ v' = [v EXCEPT !.hotkeys[u] = n]
      BY <1>4 DEF HandleHeader
    <2> QED BY <1>1, <2>1 DEF Main, Untouched
  <1> QED BY <1>2, <1>3, <1>4
        DEF Chain, Subscription, Block, RegisterNeuron, NextEpoch, TakeWeights, DropWeights,
            HandlerDies

\* A step that ends the process leaves the counters as they are.
LEMMA EndKeeps ==
  ASSUME TypeOK, End
  PROVE  /\ v'.pc = "off" /\ v'.ret = v.ret /\ v'.lookup = v.lookup /\ v'.down = v.down
         /\ v'.purged = v.purged /\ v'.epoch = v.epoch
         /\ hist' = [hist EXCEPT !.lost = hist.lost \/ v.pc \in {"mark", "save"}]
  BY DEF TypeOK, Main, End

\* What load_state does to the counters.
LEMMA LoadEffect ==
  ASSUME TypeOK, LoadState
  PROVE  /\ v.pc = "load" /\ v'.pc = "resync" /\ v'.ret = "thread" /\ v'.down = v.down
         /\ saved' = saved
         /\ ~ saved.readable => /\ v'.lookup = v.lookup /\ v'.purged = v.purged
                                /\ hist' = hist
         /\ saved.readable =>
              /\ v'.purged = saved.purged
              /\ \A u \in Uid : v'.lookup[u] \in {0, saved.lookup[u]}
              /\ hist' = [hist EXCEPT !.restored = hist.restored \cup hist.unsaved,
                                      !.unsaved = {}]
  <1>1. v \in Main
    BY DEF TypeOK
  <1>2. v.pc = "load" /\ saved' = saved
    BY DEF LoadState, At
  <1>3. CASE ~ saved.readable
    <2>1. v' = [v EXCEPT !.pc = "resync", !.ret = "thread"] /\ hist' = hist
      BY <1>3 DEF LoadState, Checkpoint
    <2> QED BY <1>1, <1>2, <1>3, <2>1 DEF Main
  <1>4. CASE saved.readable
    <2> DEFINE lookup == [u \in Uid |->
                 IF u \in Registered(v.hotkeys) THEN saved.lookup[u] ELSE 0]
               scored == [u \in Uid |-> IF u \in saved.size THEN saved.scored[u] ELSE {}]
    <2>1. /\ v' = [v EXCEPT !.pc = "resync", !.ret = "thread", !.purged = saved.purged,
                            !.lookup = lookup, !.scored = scored]
          /\ hist' = [hist EXCEPT !.restored = hist.restored \cup hist.unsaved,
                                  !.unsaved = {}]
      BY <1>4 DEF LoadState
    <2>2. \A u \in Uid : lookup[u] \in {0, saved.lookup[u]}
      OBVIOUS
    <2> HIDE DEF lookup, scored
    <2>3. /\ v'.pc = "resync" /\ v'.ret = "thread" /\ v'.down = v.down
          /\ v'.purged = saved.purged /\ v'.lookup = lookup
      BY <1>1, <2>1 DEF Main
    <2> QED BY <1>2, <1>4, <2>1, <2>2, <2>3
  <1> QED BY <1>3, <1>4

LEMMA StepReturns ==
  ASSUME TypeOK, ReturnsOK, [Next]_vars
  PROVE  ReturnsOK'
  <1>1. v \in Main
    BY DEF TypeOK
  <1>2. CASE Chain \/ Subscription
    BY <1>2, OthersTouchNothing DEF Untouched, ReturnsOK
  <1>3. CASE End
    BY <1>3, EndKeeps DEF ReturnsOK
  <1>4. CASE Boot
    BY <1>4 DEF Boot, ReturnsOK
  <1>5. CASE LoadState
    BY <1>5, LoadEffect DEF ReturnsOK
  <1>6. CASE ResyncMetagraph
    BY <1>1, <1>6 DEF ResyncMetagraph, SaveThen, ReturnsOK, Main, At
  <1>7. CASE SaveState \/ SaveFails
    <2>1. v' = [v EXCEPT !.pc = v.ret]
      BY <1>7 DEF SaveState, SaveFails, Goto
    <2>2. v.ret \in {"", "thread", "check", "weights", "end"}
      BY <1>1 DEF Main
    <2> QED BY <1>1, <2>1, <2>2 DEF Main, ReturnsOK
  <1>8. CASE StartThread \/ Sync \/ Wait \/ Mark \/ Check \/ EndStep
    BY <1>1, <1>8 DEF StartThread, Sync, Wait, Mark, Check, EndStep, Goto, SaveThen, Checkpoint,
                      Main, ReturnsOK
  <1>9. ASSUME NEW uids \in SUBSET Uid, Forward(uids)
        PROVE  ReturnsOK'
    <2>1. End \/ v' = [v EXCEPT !.pc = "monitor", !.scored = Scored(uids)]
      BY <1>9 DEF Forward
    <2> QED BY <1>1, <1>3, <2>1 DEF Main, ReturnsOK
  <1>10. ASSUME NEW uids \in SUBSET Uid, Monitor(uids)
         PROVE  ReturnsOK'
    <2>1. ~ End => v'.pc = "purge"
      BY <1>1, <1>10, MonitorEffect DEF Main
    <2> QED BY <1>3, <2>1 DEF ReturnsOK
  <1>11. CASE Purge
    BY <1>1, <1>11 DEF Purge, Main, ReturnsOK
  <1>12. ASSUME NEW outcome, Weights(outcome)
         PROVE  ReturnsOK'
    <2>1. ~ End => \/ v' = [v EXCEPT !.pc = "end"]
                   \/ v' = [[v EXCEPT !.pc = "save", !.ret = "end"] EXCEPT !.weights = 0]
      BY <1>12 DEF Weights, Goto, SaveThen
    <2> QED BY <1>1, <1>3, <2>1 DEF Main, ReturnsOK
  <1>13. CASE UNCHANGED vars
    BY <1>13 DEF vars, ReturnsOK
  <1> QED BY <1>2, <1>3, <1>4, <1>5, <1>6, <1>7, <1>8, <1>9, <1>10, <1>11, <1>12, <1>13
        DEF Next, Loop, Kill
-----------------------------------------------------------------------------
(* Weights                                                                 *)

\* Between the sync of a loop and the setting of weights, also in the checkpoint on
\* the way.
InLoop ==
  \/ v.pc \in {"wait", "forward", "monitor", "purge", "mark", "check", "weights"}
  \/ v.pc \in {"resync", "save"} /\ v.ret \in {"check", "weights"}

SinceHeld == InLoop => v.weights = since

\* There, the main thread knows how long ago the chain took weights, unless it has
\* taken some since the sync.
SinceKnown == hist.read => SinceHeld

LEMMA StepHeld ==
  ASSUME TypeOK, SinceHeld, [Next]_vars, ~ TakeWeights
  PROVE  SinceHeld'
  <1>1. v \in Main
    BY DEF TypeOK
  <1>2. CASE Passed /\ Untouched
    BY <1>1, <1>2 DEF Passed, Untouched, SinceHeld, InLoop, Main
  <1>3. CASE v' = v /\ since' = since
    BY <1>3 DEF SinceHeld, InLoop
  <1>4. CASE HandleHeader
    <2>1. PICK u, n : v' = v \/ v' = [v EXCEPT !.hotkeys[u] = n]
      BY <1>4 DEF HandleHeader
    <2>2. since' = since
      BY <1>4 DEF HandleHeader
    <2> QED BY <1>1, <2>1, <2>2 DEF Main, SinceHeld, InLoop
  <1>5. CASE Chain \/ Subscription
    <2>1. Untouched
      BY <1>5, OthersTouchNothing
    <2> QED BY <1>2, <1>3, <1>4, <1>5, <2>1
          DEF Chain, Subscription, Block, RegisterNeuron, NextEpoch, DropWeights,
              HandlerDies
  <1>6. CASE End
    BY <1>6, EndKeeps DEF SinceHeld, InLoop
  <1>7. CASE Boot
    BY <1>7 DEF Boot, SinceHeld, InLoop
  <1>8. CASE LoadState
    BY <1>8, LoadEffect DEF SinceHeld, InLoop
  <1>9. CASE ResyncMetagraph
    <2>1. v'.pc = "save" /\ v'.ret = v.ret /\ v'.weights = v.weights /\ v.pc = "resync"
          /\ since' = since
      BY <1>1, <1>9 DEF ResyncMetagraph, SaveThen, Main, At
    <2> QED BY <2>1 DEF SinceHeld, InLoop
  <1>10. CASE SaveState \/ SaveFails
    <2>1. v' = [v EXCEPT !.pc = v.ret] /\ v.pc = "save" /\ since' = since
      BY <1>10 DEF SaveState, SaveFails, Goto, At
    <2>2. v.ret \in {"", "thread", "check", "weights", "end"}
      BY <1>1 DEF Main
    <2> QED BY <1>1, <2>1, <2>2 DEF Main, SinceHeld, InLoop
  <1>11. CASE StartThread \/ Sync \/ Wait \/ EndStep
    BY <1>1, <1>11 DEF StartThread, Sync, Wait, EndStep, Goto, Main, SinceHeld, InLoop, At
  <1>12. CASE Mark
    <2>1. v'.pc = "save" /\ v'.weights = v.weights /\ v.pc = "mark" /\ since' = since
      BY <1>1, <1>12 DEF Mark, SaveThen, Main, At
    <2> QED BY <2>1 DEF SinceHeld, InLoop
  <1>13. CASE Check
    <2>1. v'.weights = v.weights /\ v.pc = "check" /\ since' = since
      BY <1>1, <1>13 DEF Check, Checkpoint, Goto, Main, At
    <2> QED BY <2>1 DEF SinceHeld, InLoop
  <1>14. ASSUME NEW uids \in SUBSET Uid, Forward(uids)
         PROVE  SinceHeld'
    <2>1. End \/ v' = [v EXCEPT !.pc = "monitor", !.scored = Scored(uids)]
      BY <1>14 DEF Forward
    <2>2. since' = since /\ v.pc = "forward"
      BY <1>14 DEF Forward, At
    <2> QED BY <1>1, <1>6, <2>1, <2>2 DEF Main, SinceHeld, InLoop
  <1>15. ASSUME NEW uids \in SUBSET Uid, Monitor(uids)
         PROVE  SinceHeld'
    <2>1. ~ End => v'.pc = "purge" /\ v'.weights = v.weights
      BY <1>1, <1>15, MonitorEffect DEF Main
    <2>2. since' = since /\ v.pc = "monitor"
      BY <1>15 DEF Monitor, At
    <2> QED BY <1>6, <2>1, <2>2 DEF SinceHeld, InLoop
  <1>16. CASE Purge
    <2>1. v'.weights = v.weights /\ v.pc = "purge" /\ since' = since
      BY <1>1, <1>16 DEF Purge, Main, At
    <2> QED BY <2>1 DEF SinceHeld, InLoop
  <1>17. ASSUME NEW outcome, Weights(outcome)
         PROVE  SinceHeld'
    <2>1. ~ End => \/ v' = [v EXCEPT !.pc = "end"]
                   \/ v' = [[v EXCEPT !.pc = "save", !.ret = "end"] EXCEPT !.weights = 0]
      BY <1>17 DEF Weights, Goto, SaveThen
    <2>2. ~ End => (v'.pc = "end" \/ (v'.pc = "save" /\ v'.ret = "end"))
      BY <1>1, <2>1 DEF Main
    <2> QED BY <1>6, <2>2 DEF SinceHeld, InLoop
  <1>18. CASE UNCHANGED vars
    BY <1>18 DEF vars, SinceHeld, InLoop
  <1> QED BY <1>5, <1>6, <1>7, <1>8, <1>9, <1>10, <1>11, <1>12, <1>13, <1>14, <1>15, <1>16,
             <1>17, <1>18 DEF Next, Loop, Kill

\* Only a sync makes what the main thread knows current.
LEMMA ReadKept ==
  ASSUME TypeOK, [Next]_vars, hist'.read, ~ Sync
  PROVE  hist.read /\ ~ TakeWeights
  <1>1. hist \in History
    BY DEF TypeOK
  <1>2. ~ TakeWeights
    BY <1>1 DEF TakeWeights, History
  <1>3. CASE hist'.read = hist.read
    BY <1>2, <1>3
  <1>4. CASE NextEpoch \/ SaveState \/ SaveFails
    <2>1. hist'.read = hist.read
      BY <1>1, <1>4 DEF NextEpoch, SaveState, SaveFails, History
    <2> QED BY <1>3, <2>1
  <1>5. CASE End
    <2>1. hist'.read = hist.read
      BY <1>1, <1>5 DEF End, History
    <2> QED BY <1>3, <2>1
  <1>6. CASE LoadState
    <2>1. hist'.read = hist.read
      BY <1>1, <1>6, LoadEffect DEF History
    <2> QED BY <1>3, <2>1
  <1>7. ASSUME NEW failed \in SUBSET Uid, Monitor(failed)
        PROVE  hist.read
    <2>1. CASE ~ End
      <3>1. PICK fails : hist' = [hist EXCEPT !.fails = fails]
        BY <1>7, <2>1, MonitorEffect
      <3>2. hist'.read = hist.read
        BY <1>1, <3>1 DEF History
      <3> QED BY <1>3, <3>2
    <2> QED BY <1>5, <2>1
  <1>8. CASE Purge
    <2>1. hist'.read = hist.read
      BY <1>1, <1>8 DEF Purge, History
    <2> QED BY <1>3, <2>1
  <1>9. ASSUME NEW uids \in SUBSET Uid, Forward(uids)
        PROVE  hist.read
    BY <1>3, <1>5, <1>9 DEF Forward
  <1>10. ASSUME NEW outcome, Weights(outcome)
         PROVE  hist.read
    BY <1>3, <1>5, <1>10 DEF Weights
  <1>11. CASE Kill
    BY <1>5, <1>11 DEF Kill
  <1>12. CASE \/ Block \/ DropWeights \/ Subscription \/ Boot \/ StartThread \/ ResyncMetagraph
              \/ Wait \/ Mark \/ Check \/ EndStep \/ UNCHANGED vars
              \/ \E u \in Uid : RegisterNeuron(u)
    BY <1>3, <1>12 DEF Block, DropWeights, Subscription, HandleHeader, HandlerDies, Boot,
       StartThread, ResyncMetagraph, Wait, Mark, Check, EndStep, vars, RegisterNeuron
  <1> QED BY <1>2, <1>4, <1>6, <1>7, <1>8, <1>9, <1>10, <1>11, <1>12 DEF Next, Chain, Loop

LEMMA StepSince ==
  ASSUME TypeOK, SinceKnown, [Next]_vars
  PROVE  SinceKnown'
  <1>1. CASE Sync
    <2>1. v \in Main
      BY DEF TypeOK
    <2>2. v'.weights = since /\ since' = since
      BY <1>1, <2>1 DEF Sync, Main
    <2> QED BY <2>2 DEF SinceKnown, SinceHeld
  <1>2. CASE ~ Sync /\ hist'.read
    <2>1. hist.read /\ ~ TakeWeights
      BY <1>2, ReadKept
    <2> QED BY <2>1, StepHeld DEF SinceKnown
  <1> QED BY <1>1, <1>2 DEF SinceKnown

\* Weights on their way whose sender's last_update is still that of the chain may be
\* taken: half a tempo has passed.
PoolFresh == \A i \in 1..Len(pool) : pool[i] => since > HalfTempo

LEMMA StepPool ==
  ASSUME TypeOK, SinceKnown, PoolFresh, [Next]_vars
  PROVE  PoolFresh'
  <1>1. /\ pool \in Seq(BOOLEAN) /\ since \in 0..HalfTempo + 1 /\ v \in Main
        /\ hist \in History /\ HalfTempo \in Nat
    BY Numbers DEF TypeOK
  <1>2. CASE TakeWeights
    <2>1. pool' = [i \in 1..Len(pool) - 1 |-> FALSE] /\ Len(pool) - 1 \in Nat
      BY <1>1, <1>2 DEF TakeWeights
    <2>2. Len(pool') = Len(pool) - 1 /\ \A i \in 1..Len(pool) - 1 : ~ pool'[i]
      BY <2>1
    <2> QED BY <2>2 DEF PoolFresh
  <1>3. CASE DropWeights
    <2>1. pool' = Tail(pool) /\ pool # <<>> /\ since' = since
      BY <1>3 DEF DropWeights
    <2>2. /\ Len(pool') = Len(pool) - 1
          /\ \A i \in 1..Len(pool) - 1 : pool'[i] = pool[i + 1]
      BY <1>1, <2>1
    <2> QED BY <1>1, <2>1, <2>2 DEF PoolFresh
  <1>4. CASE since > HalfTempo => since' > HalfTempo
    <2>1. CASE pool' = pool
      BY <1>4, <2>1 DEF PoolFresh
    <2>2. CASE pool' = Append(pool, hist.read) /\ (hist.read => since > HalfTempo)
      <3>1. /\ Len(pool') = Len(pool) + 1 /\ pool'[Len(pool) + 1] = hist.read
            /\ \A i \in 1..Len(pool) : pool'[i] = pool[i]
        BY <1>1, <2>2 DEF History
      <3> QED BY <1>1, <1>4, <2>2, <3>1 DEF PoolFresh
    <2>3. ASSUME NEW outcome, Weights(outcome)
          PROVE  PoolFresh'
      <3>1. \/ pool' = pool
            \/ pool' = Append(pool, hist.read) /\ v.weights > HalfTempo
        <4>1. v.weights \in Nat
          <5>1. v \in Main /\ HalfTempo + 1 \in Nat
            BY <1>1
          <5>2. v.weights \in 0..HalfTempo + 1
            BY <5>1 DEF Main
          <5> QED BY <5>1, <5>2
        <4>2. CASE v.weights <= HalfTempo
          BY <2>3, <4>2 DEF Weights
        <4>3. CASE v.weights > HalfTempo
          <5>1. ~ (v.weights <= HalfTempo)
            BY <1>1, <4>1, <4>3
          <5>2. \/ UNCHANGED pool
                \/ IF outcome = "sent" THEN Len(pool) < env.pool /\ pool' = Append(pool, hist.read)
                                       ELSE UNCHANGED pool
            BY Zenon, <2>3, <5>1 DEF Weights
          <5> QED BY Zenon, <4>3, <5>2
        <4> QED BY <1>1, <4>1, <4>2, <4>3
      <3>2. hist.read => v.weights = since
        BY <2>3 DEF Weights, At, SinceKnown, SinceHeld, InLoop
      <3> QED BY <2>1, <2>2, <3>1, <3>2
    <2> QED BY <1>2, <1>3, <2>1, <2>3
        DEF Next, Chain, Loop, Subscription, Kill, Block, RegisterNeuron, NextEpoch, Boot,
            LoadState, StartThread, ResyncMetagraph, SaveState, SaveFails, Sync, Wait, Purge,
            Mark, Check, EndStep, Forward, Monitor, HandleHeader, HandlerDies, vars
  <1>5. CASE Passed
    <2>1. since > HalfTempo => since' > HalfTempo
      BY <1>1, <1>5 DEF Passed, Cap
    <2> QED BY <1>4, <2>1
  <1>6. CASE since' = since
    BY <1>4, <1>6
  <1> QED BY <1>2, <1>3, <1>5, <1>6
      DEF Next, Chain, Loop, Subscription, Kill, Block, RegisterNeuron, NextEpoch, Boot,
          LoadState, StartThread, ResyncMetagraph, SaveState, SaveFails, Sync, Wait, Purge,
          Mark, Check, EndStep, Forward, Monitor, Weights, HandleHeader, HandlerDies, vars

-----------------------------------------------------------------------------
(* Reports                                                                 *)

\* What a counter says did happen, unless a restart has brought it back: the counters
\* in memory, and on disk those that no report has reset since.
CountersEarned ==
  /\ v.pc # "off" =>
       \A u \in Uid : u \in hist.restored \/ v.lookup[u] <= hist.fails[u]
  /\ v.pc = "purge" => \A u \in v.down : v.lookup[u] = 0
  /\ saved.readable =>
       \A u \in Uid : \/ u \in hist.restored \cup hist.unsaved
                      \/ saved.lookup[u] <= hist.fails[u]

\* Nothing that the invariant is about changes, but for the program counter.
LEMMA CountersKept ==
  ASSUME TypeOK, CountersEarned, DownEarned,
         v'.lookup = v.lookup, v'.down = v.down, saved' = saved,
         hist'.fails = hist.fails, hist'.restored = hist.restored,
         hist'.unsaved = hist.unsaved,
         \/ v'.pc = v.pc
         \/ v'.pc = "off"
         \/ v.pc # "off" /\ v'.pc # "purge"
  PROVE  CountersEarned' /\ DownEarned'
  BY DEF CountersEarned, DownEarned

LEMMA StepCounters ==
  ASSUME TypeOK, CountersEarned, DownEarned, [Next]_vars
  PROVE  CountersEarned' /\ DownEarned'
  <1>1. /\ v \in Main /\ hist \in History /\ saved \in File
        /\ v.lookup \in [Uid -> 0..MaxFailures] /\ hist.fails \in [Uid -> 0..MaxFailures + 1]
        /\ v.down \subseteq Uid
    BY DEF TypeOK, Main, History
  <1>2. CASE Chain \/ Subscription
    <2>1. /\ saved' = saved /\ hist'.fails = hist.fails /\ hist'.restored = hist.restored
          /\ hist'.unsaved = hist.unsaved
      <3>1. /\ saved' = saved
            /\ \/ hist' = hist
               \/ hist' = [hist EXCEPT !.lost = FALSE] \/ hist' = [hist EXCEPT !.read = FALSE]
        BY <1>2 DEF Chain, Subscription, Block, RegisterNeuron, NextEpoch, TakeWeights,
                    DropWeights, HandlerDies, HandleHeader
      <3> QED BY <1>1, <3>1 DEF History
    <2> QED BY <1>2, <2>1, OthersTouchNothing, CountersKept DEF Untouched
  <1>3. CASE End /\ saved' = saved
    <2>1. /\ hist'.fails = hist.fails /\ hist'.restored = hist.restored
          /\ hist'.unsaved = hist.unsaved
      BY <1>1, <1>3, EndKeeps DEF History
    <2> QED BY <1>3, <2>1, EndKeeps, CountersKept
  <1>4. CASE Kill
    <2>1. /\ hist'.fails = hist.fails /\ hist'.restored = hist.restored
          /\ hist'.unsaved = hist.unsaved /\ v'.pc = "off" /\ v'.down = v.down
      BY <1>1, <1>4, EndKeeps DEF History, Kill
    <2>2. saved' = saved \/ ~ saved'.readable
      BY <1>1, <1>4 DEF Kill, File
    <2> QED BY <2>1, <2>2 DEF CountersEarned, DownEarned
  <1>5. CASE Boot
    <2>1. v'.pc = "load" /\ v'.lookup = Zero /\ v'.down = {} /\ UNCHANGED <<saved, hist>>
      BY <1>5 DEF Boot
    <2>2. \A u \in Uid : Zero[u] = 0 /\ 0 <= hist.fails[u]
      BY <1>1 DEF Zero
    <2> QED BY <2>1, <2>2 DEF CountersEarned, DownEarned
  <1>6. CASE LoadState
    <2>1. CASE ~ saved.readable
      BY <1>6, <2>1, LoadEffect, CountersKept
    <2>2. CASE saved.readable
      <3>1. /\ saved' = saved /\ v'.pc = "resync" /\ v'.down = v.down
            /\ \A u \in Uid : v'.lookup[u] \in {0, saved.lookup[u]}
        BY <1>6, <2>2, LoadEffect
      <3>2. /\ hist'.fails = hist.fails /\ hist'.restored = hist.restored \cup hist.unsaved
            /\ hist'.unsaved = {}
        BY <1>1, <1>6, <2>2, LoadEffect DEF History
      <3>3. \A u \in Uid : 0 <= hist.fails[u]
        BY <1>1
      <3>4. CountersEarned'
        BY <2>2, <3>1, <3>2, <3>3 DEF CountersEarned
      <3>5. DownEarned'
        BY <3>1, <3>2 DEF DownEarned
      <3> QED BY <3>4, <3>5
    <2> QED BY <2>1, <2>2
  <1>7. CASE ResyncMetagraph
    <2>1. /\ v'.pc = "save" /\ v.pc = "resync" /\ v'.lookup = v.lookup /\ v'.down = v.down
          /\ UNCHANGED <<saved, hist>>
      BY <1>1, <1>7 DEF ResyncMetagraph, SaveThen, Main, At
    <2> QED BY <2>1, CountersKept
  <1>8. CASE SaveState
    <2>1. /\ v' = [v EXCEPT !.pc = v.ret] /\ v.pc = "save"
          /\ hist' = [hist EXCEPT !.unsaved = {}]
          /\ saved'.lookup = v.lookup
      BY <1>8 DEF SaveState, Goto, At
    <2>2. /\ v'.pc # "purge" /\ v'.lookup = v.lookup /\ v'.down = v.down
          /\ hist'.fails = hist.fails /\ hist'.restored = hist.restored
      BY <1>1, <2>1 DEF Main, History
    <2> QED BY <2>1, <2>2 DEF CountersEarned, DownEarned
  <1>9. CASE SaveFails
    <2>1. /\ v' = [v EXCEPT !.pc = v.ret] /\ v.pc = "save" /\ saved' = saved
          /\ hist' = [hist EXCEPT !.lost = TRUE]
      BY <1>9 DEF SaveFails, Goto, At
    <2>2. /\ v'.pc # "purge" /\ v'.lookup = v.lookup /\ v'.down = v.down
          /\ hist'.fails = hist.fails /\ hist'.restored = hist.restored
          /\ hist'.unsaved = hist.unsaved
      BY <1>1, <2>1 DEF Main, History
    <2> QED BY <2>1, <2>2, CountersKept
  <1>10. CASE StartThread \/ Sync \/ Wait \/ Mark \/ Check \/ EndStep
    <2>1. /\ v.pc \notin {"off", "monitor"} /\ v'.pc # "purge" /\ v'.lookup = v.lookup
          /\ v'.down = v.down
      BY <1>1, <1>10 DEF StartThread, Sync, Wait, Mark, Check, EndStep, Goto, SaveThen,
                         Checkpoint, Main, At
    <2>2. saved' = saved /\ (hist' = hist \/ hist' = [hist EXCEPT !.read = TRUE])
      BY <1>10 DEF StartThread, Sync, Wait, Mark, Check, EndStep
    <2>3. /\ hist'.fails = hist.fails /\ hist'.restored = hist.restored
          /\ hist'.unsaved = hist.unsaved
      BY <1>1, <2>2 DEF History
    <2> QED BY <2>1, <2>2, <2>3, CountersKept
  <1>11. ASSUME NEW uids \in SUBSET Uid, Forward(uids)
         PROVE  CountersEarned' /\ DownEarned'
    <2>1. saved' = saved /\ v.pc = "forward"
      BY <1>11 DEF Forward, At
    <2>2. \/ End
          \/ v' = [v EXCEPT !.pc = "monitor", !.scored = Scored(uids)] /\ hist' = hist
      BY <1>11 DEF Forward
    <2>3. CASE ~ End
      <3>1. v'.pc = "monitor" /\ v'.lookup = v.lookup /\ v'.down = v.down /\ hist' = hist
        BY <1>1, <2>2, <2>3 DEF Main
      <3> QED BY <2>1, <3>1, CountersKept
    <2> QED BY <1>3, <2>1, <2>3
  <1>12. ASSUME NEW failed \in SUBSET Uid, Monitor(failed)
         PROVE  CountersEarned' /\ DownEarned'
    <2>1. saved' = saved /\ v.pc = "monitor"
      BY <1>12 DEF Monitor, At
    <2>2. CASE ~ End
      <3> DEFINE down == Reported(failed)
      <3> DEFINE lookup == [u \in Uid |-> IF u \in down THEN 0
                              ELSE IF u \in failed THEN v.lookup[u] + 1 ELSE v.lookup[u]]
                 fails == [u \in Uid |-> IF u \in failed
                                           THEN Cap(hist.fails[u] + 1, MaxFailures + 1)
                                           ELSE hist.fails[u]]
      <3>a. /\ v' = [v EXCEPT !.pc = "purge", !.down = down, !.scored = Scored(down),
                              !.lookup = lookup]
            /\ hist' = [hist EXCEPT !.fails = fails]
        BY <1>12, <2>2, MonitorEffect
      <3>b. \A u \in Uid : /\ lookup[u] = IF u \in down THEN 0
                              ELSE IF u \in failed THEN v.lookup[u] + 1 ELSE v.lookup[u]
                           /\ fails[u] = IF u \in failed
                                           THEN Cap(hist.fails[u] + 1, MaxFailures + 1)
                                           ELSE hist.fails[u]
        OBVIOUS
      <3> HIDE DEF down, lookup, fails
      <3>1. /\ v'.pc = "purge" /\ v'.down = down
            /\ \A u \in Uid : v'.lookup[u] = IF u \in down THEN 0
                                ELSE IF u \in failed THEN v.lookup[u] + 1 ELSE v.lookup[u]
        BY <1>1, <3>a, <3>b DEF Main
      <3>2. /\ hist'.restored = hist.restored /\ hist'.unsaved = hist.unsaved
            /\ \A u \in Uid : hist'.fails[u] =
                 IF u \in failed THEN Cap(hist.fails[u] + 1, MaxFailures + 1) ELSE hist.fails[u]
        BY <1>1, <3>a, <3>b DEF History
      <3>3. \A u \in Uid : hist.fails[u] <= hist'.fails[u]
        <4> TAKE u \in Uid
        <4>1. hist.fails[u] \in 0..MaxFailures + 1
          BY <1>1
        <4> QED BY <4>1, <3>2, Numbers DEF Cap
      <3>4. \A u \in failed : v.lookup[u] <= hist.fails[u] => v.lookup[u] + 1 <= hist'.fails[u]
        <4> TAKE u \in failed
        <4>1. u \in Uid /\ hist.fails[u] \in 0..MaxFailures + 1 /\ v.lookup[u] \in 0..MaxFailures
          BY <1>1
        <4> QED BY <4>1, <3>2, Numbers DEF Cap
      <3>6. \A u \in down : u \in failed /\ u \in Uid /\ v.lookup[u] = MaxFailures
        BY DEF Reported, down
      <3>7. \A u \in Uid : v.lookup[u] \in Nat /\ hist.fails[u] \in Nat
        BY <1>1, Numbers
      <3>8. \A u \in Uid : hist'.fails[u] \in Nat
        <4> TAKE u \in Uid
        <4>1. hist.fails[u] \in Nat
          BY <3>7
        <4> QED BY <4>1, <3>2, Numbers DEF Cap
      <3>5. \A u \in Uid : 0 <= hist'.fails[u]
        BY <3>8
      <3>9. \A u \in Uid : u \in hist'.restored \/ v'.lookup[u] <= hist'.fails[u]
        <4> TAKE u \in Uid
        <4>1. u \in hist.restored \/ v.lookup[u] <= hist.fails[u]
          BY <2>1 DEF CountersEarned
        <4> QED BY <4>1, <3>1, <3>2, <3>3, <3>4, <3>5, <3>7, <3>8
      <3>10. saved'.readable => \A u \in Uid : \/ u \in hist'.restored \cup hist'.unsaved
                                               \/ saved'.lookup[u] <= hist'.fails[u]
        <4> SUFFICES ASSUME saved.readable, NEW u \in Uid
                     PROVE  u \in hist'.restored \cup hist'.unsaved
                            \/ saved.lookup[u] <= hist'.fails[u]
          BY <2>1
        <4>1. u \in hist.restored \cup hist.unsaved \/ saved.lookup[u] <= hist.fails[u]
          BY DEF CountersEarned
        <4>2. saved.lookup[u] \in 0..MaxFailures
          BY <1>1 DEF File
        <4> QED BY <4>1, <4>2, <3>2, <3>3, <3>7, <3>8
      <3>11. DownEarned'
        <4> SUFFICES ASSUME NEW u \in down
                     PROVE  hist'.fails[u] > MaxFailures \/ u \in hist'.restored
          BY <3>1 DEF DownEarned
        <4>1. u \in hist.restored \/ v.lookup[u] <= hist.fails[u]
          BY <2>1, <3>6 DEF CountersEarned
        <4> QED BY <4>1, <3>2, <3>4, <3>6, <3>8, Numbers
      <3> QED BY <3>1, <3>6, <3>9, <3>10, <3>11 DEF CountersEarned
    <2> QED BY <1>3, <2>1, <2>2
  <1>13. CASE Purge
    <2>1. /\ v'.pc \in {"mark", "check"} /\ v'.lookup = v.lookup /\ v'.down = {}
          /\ v.pc = "purge" /\ saved' = saved
      BY <1>1, <1>13 DEF Purge, Main, At
    <2>2. /\ hist'.unsaved = hist.unsaved \cup v.down
          /\ hist'.restored = hist.restored \ v.down
          /\ \A u \in Uid : hist'.fails[u] = IF u \in v.down THEN 0 ELSE hist.fails[u]
      BY <1>1, <1>13 DEF Purge, History
    <2> QED BY <1>1, <2>1, <2>2 DEF CountersEarned, DownEarned
  <1>14. ASSUME NEW outcome, Weights(outcome)
         PROVE  CountersEarned' /\ DownEarned'
    <2>1. ~ End => /\ hist' = hist
                   /\ \/ v' = [v EXCEPT !.pc = "end"]
                      \/ v' = [[v EXCEPT !.pc = "save", !.ret = "end"] EXCEPT !.weights = 0]
      BY <1>14 DEF Weights, Goto, SaveThen
    <2>2. ~ End => v'.pc \in {"end", "save"} /\ v'.lookup = v.lookup /\ v'.down = v.down
      BY <1>1, <2>1 DEF Main
    <2>3. saved' = saved /\ v.pc = "weights"
      BY <1>14 DEF Weights, At
    <2> QED BY <1>3, <2>1, <2>2, <2>3, CountersKept
  <1>15. CASE UNCHANGED vars
    BY <1>15, CountersKept DEF vars
  <1> QED BY <1>2, <1>4, <1>5, <1>6, <1>7, <1>8, <1>9, <1>10, <1>11, <1>12, <1>13, <1>14, <1>15
        DEF Next, Loop
-----------------------------------------------------------------------------
(* Purges                                                                  *)

\* A purge of this epoch is known: it is about to be marked, the mark is about to be
\* saved, or it is on disk and, once load_state has run, in memory.
PurgeKnown ==
  \/ v.pc = "mark" /\ v.epoch = epoch
  \/ v.pc = "save" /\ v.purged >= epoch
  \/ /\ saved.readable /\ saved.purged >= epoch
     /\ v.pc \in {"off", "load"} \/ v.purged >= epoch

PurgesMarked ==
  /\ \A e \in hist.purges : e <= epoch
  /\ v.pc = "mark" => v.purged < v.epoch /\ v.epoch <= epoch
  /\ epoch \in hist.purges /\ ~ hist.lost => PurgeKnown

\* Nothing that the invariant is about changes, but for the program counter.
LEMMA PurgesKept ==
  ASSUME TypeOK, PurgesMarked,
         v'.purged = v.purged, v'.epoch = v.epoch, saved' = saved, epoch' = epoch,
         hist'.purges = hist.purges, hist'.lost = hist.lost,
         \/ v'.pc = v.pc
         \/ v.pc \notin {"mark", "save"} /\ v'.pc = "off"
         \/ v.pc \notin {"off", "load", "mark", "save"} /\ v'.pc # "mark"
  PROVE  PurgesMarked'
  BY DEF PurgesMarked, PurgeKnown

\* After a step that may lose the mark nothing is left to show.
LEMMA PurgesLost ==
  ASSUME PurgesMarked, hist'.purges = hist.purges, epoch' = epoch, hist'.lost,
         v'.pc # "mark"
  PROVE  PurgesMarked'
  BY DEF PurgesMarked

LEMMA StepPurges ==
  ASSUME TypeOK, PurgesMarked, [Next]_vars
  PROVE  PurgesMarked'
  <1>1. /\ v \in Main /\ hist \in History /\ saved \in File
        /\ env.epochs \in Nat /\ epoch \in 0..env.epochs
        /\ v.purged \in Nat /\ v.epoch \in Nat /\ epoch \in Nat /\ saved.purged \in 0..env.epochs
        /\ hist.purges \subseteq 0..env.epochs /\ hist.lost \in BOOLEAN
    <2>1. /\ v \in Main /\ hist \in History /\ saved \in File /\ env \in Envs
          /\ epoch \in 0..env.epochs
      BY DEF TypeOK
    <2>2. env.epochs \in Nat
      BY <2>1, Environment
    <2>3. v.purged \in 0..env.epochs /\ v.epoch \in 0..env.epochs
      BY <2>1 DEF Main
    <2>4. saved.purged \in 0..env.epochs
      BY <2>1 DEF File
    <2>5. hist.purges \subseteq 0..env.epochs /\ hist.lost \in BOOLEAN
      BY <2>1 DEF History
    <2> QED BY <2>1, <2>2, <2>3, <2>4, <2>5
  <1>2. CASE NextEpoch
    <2>1. /\ epoch' = epoch + 1 /\ hist'.purges = hist.purges
      BY <1>1, <1>2 DEF NextEpoch, History
    <2>2. \A e \in hist.purges : e <= epoch /\ e \in Nat
      BY <1>1 DEF PurgesMarked
    <2>3. v' = v /\ v.epoch \in Nat
      BY <1>1, <1>2 DEF NextEpoch
    <2> QED BY <1>1, <2>1, <2>2, <2>3 DEF PurgesMarked
  <1>3. CASE (Chain /\ ~ NextEpoch) \/ Subscription
    <2>1. /\ saved' = saved /\ epoch' = epoch
          /\ hist'.purges = hist.purges /\ hist'.lost = hist.lost
      BY <1>1, <1>3 DEF Chain, Subscription, Block, RegisterNeuron, TakeWeights, DropWeights,
                       HandlerDies, HandleHeader, History
    <2> QED BY <1>3, <2>1, OthersTouchNothing, PurgesKept DEF Untouched
  <1>4. CASE End /\ saved' = saved /\ epoch' = epoch
    <2>1. /\ hist'.purges = hist.purges
          /\ hist'.lost = (hist.lost \/ v.pc \in {"mark", "save"})
      BY <1>1, <1>4, EndKeeps DEF History
    <2>2. CASE v.pc \in {"mark", "save"}
      BY <1>4, <2>1, <2>2, EndKeeps, PurgesLost
    <2>3. CASE v.pc \notin {"mark", "save"}
      <3>1. hist'.lost = hist.lost
        BY <1>1, <2>1, <2>3
      <3> QED BY <1>4, <2>1, <2>3, <3>1, EndKeeps, PurgesKept
    <2> QED BY <2>2, <2>3
  <1>5. CASE Kill
    <2>1. epoch' = epoch /\ hist'.purges = hist.purges
      BY <1>1, <1>5, EndKeeps DEF Kill, History
    <2>2. CASE v.pc = "save"
      <3>1. hist'.lost
        BY <1>1, <1>5, <2>2, EndKeeps DEF Kill, History
      <3>2. v'.pc = "off"
        BY <1>5, EndKeeps DEF Kill
      <3> QED BY <2>1, <3>1, <3>2, PurgesLost
    <2>3. CASE v.pc # "save"
      BY <1>4, <1>5, <2>1, <2>3 DEF Kill, At
    <2> QED BY <2>2, <2>3
  <1>6. CASE Boot
    <2>1. v'.pc = "load" /\ v.pc = "off" /\ UNCHANGED <<saved, hist, epoch>>
      BY <1>6 DEF Boot, At
    <2> QED BY <2>1 DEF PurgesMarked, PurgeKnown
  <1>7. CASE LoadState
    <2>1. /\ v.pc = "load" /\ v'.pc = "resync" /\ UNCHANGED <<saved, epoch>>
          /\ saved.readable => v'.purged = saved.purged
          /\ hist'.purges = hist.purges /\ hist'.lost = hist.lost
      BY <1>1, <1>7, LoadEffect DEF LoadState, History
    <2> QED BY <2>1 DEF PurgesMarked, PurgeKnown
  <1>8. CASE ResyncMetagraph
    <2>1. /\ v'.pc = "save" /\ v.pc = "resync" /\ v'.purged = v.purged /\ v'.epoch = v.epoch
          /\ UNCHANGED <<saved, hist, epoch>>
      BY <1>1, <1>8 DEF ResyncMetagraph, SaveThen, Main, At
    <2> QED BY <2>1, PurgesKept
  <1>9. CASE SaveState
    <2>1. /\ v' = [v EXCEPT !.pc = v.ret] /\ v.pc = "save" /\ epoch' = epoch
          /\ hist' = [hist EXCEPT !.unsaved = {}]
          /\ saved'.readable /\ saved'.purged = v.purged
      BY <1>9 DEF SaveState, Goto, At
    <2>2. /\ v'.purged = v.purged /\ hist'.purges = hist.purges /\ hist'.lost = hist.lost
          /\ v'.pc # "mark"
      BY <1>1, <2>1 DEF Main, History
    <2> QED BY <2>1, <2>2 DEF PurgesMarked, PurgeKnown
  <1>10. CASE SaveFails
    <2>1. hist'.purges = hist.purges /\ hist'.lost /\ epoch' = epoch
          /\ v' = [v EXCEPT !.pc = v.ret]
      BY <1>1, <1>10 DEF SaveFails, Goto, History
    <2>2. v'.pc # "mark"
      BY <1>1, <2>1 DEF Main
    <2> QED BY <2>1, <2>2, PurgesLost
  <1>11. CASE StartThread \/ Sync \/ Wait \/ Check \/ EndStep
    <2>1. /\ v.pc \notin {"off", "load", "mark", "save"}
          /\ v'.purged = v.purged /\ v'.epoch = v.epoch /\ v'.pc # "mark"
      BY <1>1, <1>11 DEF StartThread, Sync, Wait, Check, EndStep, Goto, SaveThen, Checkpoint,
                         Main, At
    <2>2. /\ saved' = saved /\ epoch' = epoch
          /\ hist'.purges = hist.purges /\ hist'.lost = hist.lost
      BY <1>1, <1>11 DEF StartThread, Sync, Wait, Check, EndStep, History
    <2> QED BY <2>1, <2>2, PurgesKept
  <1>12. CASE Mark
    <2>1. /\ v.pc = "mark" /\ v'.pc = "save" /\ v'.purged = v.epoch
          /\ UNCHANGED <<saved, hist, epoch>>
      BY <1>1, <1>12 DEF Mark, SaveThen, Main, At
    <2>2. v.purged < v.epoch /\ v.epoch <= epoch
      BY <2>1 DEF PurgesMarked
    <2>3. PurgeKnown => PurgeKnown'
      BY <1>1, <2>1, <2>2 DEF PurgeKnown
    <2> QED BY <2>1, <2>3 DEF PurgesMarked
  <1>13. ASSUME NEW uids \in SUBSET Uid, Forward(uids)
         PROVE  PurgesMarked'
    <2>1. saved' = saved /\ epoch' = epoch /\ v.pc = "forward"
      BY <1>13 DEF Forward, At
    <2>2. \/ End
          \/ v' = [v EXCEPT !.pc = "monitor", !.scored = Scored(uids)] /\ hist' = hist
      BY <1>13 DEF Forward
    <2>3. CASE ~ End
      <3>1. v'.purged = v.purged /\ v'.epoch = v.epoch /\ hist' = hist /\ v'.pc = "monitor"
        BY <1>1, <2>2, <2>3 DEF Main
      <3> QED BY <2>1, <3>1, PurgesKept
    <2> QED BY <1>4, <2>1, <2>3
  <1>14. ASSUME NEW failed \in SUBSET Uid, Monitor(failed)
         PROVE  PurgesMarked'
    <2>1. saved' = saved /\ epoch' = epoch /\ v.pc = "monitor"
      BY <1>14 DEF Monitor, At
    <2>2. CASE ~ End
      <3>1. PICK lookup, fails :
              /\ v' = [v EXCEPT !.pc = "purge", !.down = Reported(failed),
                                !.scored = Scored(Reported(failed)), !.lookup = lookup]
              /\ hist' = [hist EXCEPT !.fails = fails]
        BY <1>14, <2>2, MonitorEffect
      <3>2. /\ v'.purged = v.purged /\ v'.epoch = v.epoch
            /\ hist'.purges = hist.purges /\ hist'.lost = hist.lost /\ v'.pc = "purge"
        BY <1>1, <3>1 DEF Main, History
      <3> QED BY <2>1, <3>2, PurgesKept
    <2> QED BY <1>4, <2>1, <2>2
  <1>15. CASE Purge
    <2> DEFINE due == epoch % PurgeEvery = 0 /\ v.purged < epoch
    <2>1. /\ v.pc = "purge" /\ v'.pc = IF due THEN "mark" ELSE "check"
          /\ v'.epoch = epoch /\ v'.purged = v.purged /\ UNCHANGED <<saved, epoch>>
      BY <1>1, <1>15 DEF Purge, Main, At
    <2>2. /\ hist'.purges = IF due THEN hist.purges \cup {epoch} ELSE hist.purges
          /\ hist'.lost = hist.lost
      BY <1>1, <1>15 DEF Purge, History
    <2>a. due => v.purged < epoch
      OBVIOUS
    <2> HIDE DEF due
    <2>3. CASE due
      BY <1>1, <2>1, <2>2, <2>3, <2>a DEF PurgesMarked, PurgeKnown
    <2>4. CASE ~ due
      BY <1>1, <2>1, <2>2, <2>4 DEF PurgesMarked, PurgeKnown
    <2> QED BY <2>3, <2>4
  <1>16. ASSUME NEW outcome, Weights(outcome)
         PROVE  PurgesMarked'
    <2>1. ~ End => /\ hist' = hist
                   /\ \/ v' = [v EXCEPT !.pc = "end"]
                      \/ v' = [[v EXCEPT !.pc = "save", !.ret = "end"] EXCEPT !.weights = 0]
      BY <1>16 DEF Weights, Goto, SaveThen
    <2>2. ~ End => v'.purged = v.purged /\ v'.epoch = v.epoch /\ v'.pc \in {"end", "save"}
      BY <1>1, <2>1 DEF Main
    <2>3. saved' = saved /\ epoch' = epoch /\ v.pc = "weights"
      BY <1>16 DEF Weights, At
    <2> QED BY <1>4, <2>1, <2>2, <2>3, PurgesKept
  <1>17. CASE UNCHANGED vars
    BY <1>17, PurgesKept DEF vars
  <1> QED BY <1>2, <1>3, <1>5, <1>6, <1>7, <1>8, <1>9, <1>10, <1>11, <1>12, <1>13, <1>14, <1>15,
             <1>16, <1>17 DEF Next, Loop

-----------------------------------------------------------------------------
(* Theorems                                                                *)

LoopInv ==
  /\ TypeOK /\ ReturnsOK /\ SinceKnown /\ PoolFresh
  /\ CountersEarned /\ DownEarned /\ PurgesMarked

LEMMA InitInv == Init => LoopInv
  <1> SUFFICES ASSUME Init PROVE LoopInv
    OBVIOUS
  <1>1. TypeOK
    BY InitTypes
  <1>2. v.pc = "off" /\ v.down = {} /\ ~ saved.readable /\ hist.purges = {}
        /\ ~ hist.read
    BY DEF Init
  <1>3. PoolFresh
    <2>1. pool = <<>>
      BY DEF Init
    <2> QED BY <2>1 DEF PoolFresh
  <1> QED BY <1>1, <1>2, <1>3 DEF LoopInv, ReturnsOK, SinceKnown, CountersEarned, DownEarned,
                                 PurgesMarked

LEMMA StepInv == LoopInv /\ [Next]_vars => LoopInv'
  BY StepTypes, StepReturns, StepSince, StepPool, StepCounters, StepPurges DEF LoopInv

\* The loop, the thread and the checkpoint keep their types, whatever is registered,
\* killed or fails.
THEOREM LoopTypes == Spec => []TypeOK
  <1>1. LoopInv => TypeOK
    BY DEF LoopInv
  <1> QED BY InitInv, StepInv, <1>1, PTL DEF Spec

\* A miner is reported down only after more failed pings than are tolerated, unless a
\* restart has brought back counters that were reported before.
THEOREM DownIsEarned == Spec => []DownEarned
  <1>1. LoopInv => DownEarned
    BY DEF LoopInv
  <1> QED BY InitInv, StepInv, <1>1, PTL DEF Spec

\* Challenges are purged once in an epoch, unless the mark was lost on its way to disk.
THEOREM PurgedOnce == Spec => PurgeOnce
  <1>1. ASSUME LoopInv, [Next]_vars
        PROVE  [At("purge") /\ v'.pc = "mark" => epoch \notin hist.purges \/ hist.lost]_vars
    <2> SUFFICES ASSUME Next, At("purge"), v'.pc = "mark", epoch \in hist.purges, ~ hist.lost
                 PROVE  FALSE
      BY <1>1
    <2>1. v \in Main /\ TypeOK /\ v.pc = "purge" /\ epoch \in Nat /\ v.purged \in Nat
      <3>1. TypeOK /\ v \in Main /\ env \in Envs /\ epoch \in 0..env.epochs
        BY <1>1 DEF LoopInv, TypeOK
      <3>2. v.purged \in 0..env.epochs
        BY <3>1 DEF Main
      <3> QED BY <3>1, <3>2, Environment DEF At
    <2>2. v.purged >= epoch
      BY <1>1, <2>1 DEF LoopInv, PurgesMarked, PurgeKnown
    <2>3. CASE Purge
      <3> DEFINE due == epoch % PurgeEvery = 0 /\ v.purged < epoch
      <3>1. v'.pc = IF due THEN "mark" ELSE "check"
        BY <2>1, <2>3 DEF Purge, Main
      <3>2. ~ due
        BY <2>1, <2>2
      <3> QED BY <3>1, <3>2
    <2>4. CASE Kill
      BY <2>1, <2>4, EndKeeps DEF Kill
    <2>5. CASE Chain \/ Subscription
      BY <2>1, <2>5, OthersTouchNothing DEF Untouched
    <2>6. CASE Loop /\ ~ Purge
      BY <2>1, <2>6 DEF Loop, Boot, LoadState, StartThread, ResyncMetagraph, SaveState,
         SaveFails, Sync, Wait, Mark, Check, EndStep, Forward, Monitor, Weights, At
    <2> QED BY <2>3, <2>4, <2>5, <2>6 DEF Next
  <1> QED BY InitInv, StepInv, <1>1, PTL DEF Spec, PurgeOnce

\* The chain takes weights within half a tempo of the last ones only from a loop that
\* read last_update before it took those: restarts, failed saves, lost weights and
\* refused attempts set none early.
THEOREM WeightsAreSpaced == Spec => WeightsSpaced
  <1>1. ASSUME LoopInv, TakeWeights
        PROVE  Head(pool) => since > HalfTempo
    <2>1. pool \in Seq(BOOLEAN) /\ pool # <<>>
      BY <1>1 DEF LoopInv, TypeOK, TakeWeights
    <2>2. Len(pool) \in Nat \ {0} /\ Head(pool) = pool[1]
      BY <2>1
    <2>3. pool[1] => since > HalfTempo
      BY <1>1, <2>2 DEF LoopInv, PoolFresh
    <2> QED BY <2>2, <2>3
  <1>2. ASSUME LoopInv
        PROVE  [TakeWeights /\ Head(pool) => since > HalfTempo]_vars
    BY <1>1, <1>2
  <1> QED BY InitInv, StepInv, <1>2, PTL DEF Spec, WeightsSpaced
=============================================================================
