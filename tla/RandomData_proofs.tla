-------------------------- MODULE RandomData_proofs --------------------------
(***************************************************************************)
(* Proofs about RandomData: types, metadata only for what is stored, the   *)
(* seeds of both ends, and what can make forward raise.                    *)
(***************************************************************************)
EXTENDS RandomData, TLAPS

-----------------------------------------------------------------------------
(* Constants and types                                                     *)

LEMMA Names ==
  /\ Rand \cap Chunk = {} /\ Empty \in Rand /\ None \notin Hash /\ None \notin Hotkey
  /\ None \notin {"same", "other", "fresh", "expired"}
  /\ Envs \subseteq [neurons : SUBSET Hotkey, data : SUBSET Hash,
                     others : SUBSET {"api", "script", "kill"}]
  BY RandomDataAssumption DEF RandomDataAssumption

FieldSet == [Hotkey -> [Hash -> Seed \cup {None}]]
TtlSet == [Hotkey -> [Hash -> {"fresh", "expired", None}]]
FwdSet ==
  [pc : FwdPc, reb : BOOLEAN, who : SUBSET Hotkey, todo : SUBSET Chunk,
   hk : Hotkey \cup {None}, left : SUBSET Cell, hash : Hash \cup {None},
   sent : [Hotkey -> BOOLEAN], got : SUBSET Hash]
TaskRec ==
  [pc   : {"idle", "ck_keys", "ck_data", "ck_wait", "ck_put",
           "rt_keys", "rt_wait", "rt_data", "rt_put"},
   hash : Hash \cup {None},
   seed : Seed \cup {None}]
TaskSet == [Hotkey -> TaskRec]
ScriptSet ==
  [pc : {"idle", "hotkey", "purge", "delete"}, who : SUBSET Hotkey,
   hk : Hotkey \cup {None}, left : SUBSET Cell, chunks : BOOLEAN]
ApiSet == [hk : Hotkey \cup {None}, hash : Hash \cup {None}]

Types ==
  /\ field \in FieldSet /\ ttl \in TtlSet
  /\ fwd \in FwdSet /\ task \in TaskSet /\ script \in ScriptSet /\ api \in ApiSet
  /\ miner \in [Hotkey -> SUBSET Hash] /\ env \in Envs
  /\ open \subseteq Hotkey \X Rand /\ due \subseteq Hotkey \X Hash
  /\ hurt \subseteq Hotkey \cup {None}

LEMMA TypesSuffice == Types /\ None \notin hurt => TypeOK
  BY DEF Types, TypeOK, FieldSet, TtlSet, FwdSet, TaskSet, TaskRec

LEMMA Environment ==
  ASSUME Types
  PROVE  env.neurons \subseteq Hotkey /\ env.data \subseteq Hash
         /\ env.others \subseteq {"api", "script", "kill"}
  BY Names DEF Types

LEMMA BeginTypes == Begin \in FwdSet /\ \A pc \in FwdPc : [Begin EXCEPT !.pc = pc] \in FwdSet
  <1>1. [hk \in Hotkey |-> FALSE] \in [Hotkey -> BOOLEAN]
    OBVIOUS
  <1>2. "store" \in FwdPc
    BY DEF FwdPc
  <1>3. Begin \in FwdSet
    BY <1>1, <1>2, Zenon DEF Begin, FwdSet
  <1> QED BY <1>3 DEF FwdSet

LEMMA IdleTypes == Idle \in TaskRec /\ [hk \in Hotkey |-> Idle] \in TaskSet
  BY DEF Idle, TaskRec, TaskSet

LEMMA InitTypes == Init => Types
  <1> SUFFICES ASSUME Init PROVE Types
    OBVIOUS
  <1>1. field \in FieldSet /\ ttl \in TtlSet
    BY DEF Init, FieldSet, TtlSet
  <1>2. fwd \in FwdSet
    BY BeginTypes DEF Init
  <1>3. task \in TaskSet
    BY IdleTypes DEF Init
  <1>4. script \in ScriptSet
    <2>1. script = NoScript
      BY DEF Init
    <2> QED BY <2>1 DEF NoScript, ScriptSet
  <1>5. api \in ApiSet
    BY DEF Init, ApiSet
  <1>6. miner \in [Hotkey -> SUBSET Hash] /\ env \in Envs /\ open = {} /\ due = {} /\ hurt = {}
    BY DEF Init
  <1> QED BY <1>1, <1>2, <1>3, <1>4, <1>5, <1>6 DEF Types

\* Writes to redis.
LEMMA SetFieldTypes ==
  ASSUME Types, NEW hk, NEW h, NEW s \in Seed \cup {None}, SetField(hk, h, s)
  PROVE  field' \in FieldSet
  BY DEF Types, FieldSet, SetField

LEMMA SetTtlTypes ==
  ASSUME Types, NEW hk, NEW h, NEW t \in {"fresh", "expired", None}, SetTtl(hk, h, t)
  PROVE  ttl' \in TtlSet
  BY DEF Types, TtlSet, SetTtl

LEMMA HdelTypes ==
  ASSUME Types, NEW hk, NEW cell, Hdel(hk, cell)
  PROVE  field' \in FieldSet /\ ttl' \in TtlSet
  <1>1. CASE cell[1] = "data"
    BY <1>1, SetFieldTypes DEF Hdel, Types
  <1>2. CASE cell[1] # "data"
    BY <1>2, SetTtlTypes DEF Hdel, Types
  <1> QED BY <1>1, <1>2

LEMMA AgedTypes ==
  ASSUME Types, NEW hks, NEW hash
  PROVE  Aged(hks, hash) \in FieldSet
  <1>1. ASSUME NEW hk \in Hotkey
        PROVE  /\ field[hk] \in [Hash -> Seed \cup {None}]
               /\ [field[hk] EXCEPT ![hash[hk]] = "other"] \in [Hash -> Seed \cup {None}]
    BY <1>1 DEF Types, FieldSet, Seed
  <1> QED BY <1>1 DEF Aged, FieldSet

LEMMA StopTypes ==
  ASSUME Types, NEW pc \in FwdPc, Stop(pc)
  PROVE  /\ field' \in FieldSet /\ ttl' \in TtlSet /\ fwd' \in FwdSet /\ task' \in TaskSet
         /\ open' \subseteq Hotkey \X Rand /\ due' = {}
  <1>1. field' \in FieldSet
    BY AgedTypes DEF Stop
  <1>2. ttl' \in TtlSet /\ due' = {}
    BY DEF Stop, Types
  <1>3. fwd' \in FwdSet /\ task' \in TaskSet
    BY BeginTypes, IdleTypes DEF Stop
  <1>4. open' \subseteq Hotkey \X Rand
    BY DEF Stop, Types
  <1> QED BY <1>1, <1>2, <1>3, <1>4

-----------------------------------------------------------------------------
(* The steps, by what they change                                          *)

\* Steps of forward that change neither redis nor its tasks.
FwdOnly ==
  \/ StoreNothing \/ StoreEnd \/ ChallengeEnd \/ NoRetrieve \/ RetrieveEnd
  \/ \E down \in SUBSET env.neurons : Monitor(down)
  \/ \E hk \in Hotkey : RebalanceHotkey(hk) \/ PurgeHotkey(hk) \/ ExpireHotkey(hk)
  \/ \E h \in Chunk : RebalanceHash(h)
  \/ RebalanceEnd \/ EpochPurge \/ NoEpochPurge \/ PurgedHotkey \/ PurgeEnd
  \/ TtlPurge \/ NoTtlPurge \/ ExpiredHotkey \/ ExpireEnd \/ Restart

Send ==
  \E h \in Hash, stored \in SUBSET env.neurons : \E ok \in Verified(stored) :
    StoreSend(h, stored, ok)
Start == \E uids \in SUBSET env.neurons : ChallengeData(uids) \/ RetrieveData(uids)

LEMMA Steps ==
  ASSUME Next
  PROVE  \/ FwdOnly \/ Send \/ Start \/ PutTtl \/ DropData \/ DropTtl \/ Kill \/ Script \/ Api
         \/ \E hk \in Hotkey : PutData(hk) \/ HandleTask(hk)
         \/ \E cell \in Cell : PurgeField(cell)
         \/ \E h \in Hash : CheckTtl(h)
         \/ \E hk \in Hotkey, h \in Hash : Expire(hk, h)
  BY DEF Next, Forward, StoreRandomData, Batches, Rebalance, EpochPurgeStep, TtlPurgeStep,
         FwdOnly, Send, Start

LEMMA CellNames == \A hk : Cells(hk) \subseteq Cell /\ Keys(hk) \subseteq Hash
  BY DEF Cells, Keys

LEMMA FwdOnlyTypes ==
  ASSUME Types, FwdOnly
  PROVE  fwd' \in FwdSet
  <1>0. fwd \in FwdSet
    BY DEF Types
  <1>11. CASE NoTtlPurge \/ ExpireEnd \/ Restart
    BY <1>11, BeginTypes DEF NoTtlPurge, ExpireEnd, Restart
  <1> USE DEF FwdSet, FwdPc, At, Goto, AfterStore
  <1>1. CASE StoreNothing
    BY <1>0, <1>1, ZenonT(60) DEF StoreNothing
  <1>13. CASE StoreEnd
    BY <1>0, <1>13, ZenonT(60) DEF StoreEnd
  <1>2. CASE ChallengeEnd \/ NoRetrieve \/ RetrieveEnd
    BY <1>0, <1>2 DEF ChallengeEnd, NoRetrieve, RetrieveEnd, BatchEnd
  <1>3. ASSUME NEW down \in SUBSET env.neurons, Monitor(down) PROVE fwd' \in FwdSet
    BY <1>0, <1>3, Environment DEF Monitor
  <1>4. ASSUME NEW hk \in Hotkey, RebalanceHotkey(hk) PROVE fwd' \in FwdSet
    BY <1>0, <1>4 DEF RebalanceHotkey
  <1>5. ASSUME NEW hk \in Hotkey, PurgeHotkey(hk) PROVE fwd' \in FwdSet
    BY <1>0, <1>5, CellNames DEF PurgeHotkey, ChallengesForHotkey
  <1>6. ASSUME NEW hk \in Hotkey, ExpireHotkey(hk) PROVE fwd' \in FwdSet
    BY <1>0, <1>6, CellNames DEF ExpireHotkey
  <1>7. ASSUME NEW h \in Chunk, RebalanceHash(h) PROVE fwd' \in FwdSet
    BY <1>0, <1>7 DEF RebalanceHash
  <1>8. CASE RebalanceEnd
    BY <1>0, <1>8 DEF RebalanceEnd
  <1>9. CASE EpochPurge \/ TtlPurge
    <2>1. ScanHotkeys \in SUBSET Hotkey
      BY DEF ScanHotkeys
    <2>2. \/ fwd' = [fwd EXCEPT !.pc = "purge", !.who = ScanHotkeys]
          \/ fwd' = [fwd EXCEPT !.pc = "expire", !.who = ScanHotkeys]
      BY <1>9 DEF EpochPurge, TtlPurge
    <2>3. CASE fwd' = [fwd EXCEPT !.pc = "purge", !.who = ScanHotkeys]
      BY <1>0, <2>1, <2>3, ZenonT(60)
    <2>4. CASE fwd' = [fwd EXCEPT !.pc = "expire", !.who = ScanHotkeys]
      BY <1>0, <2>1, <2>4, ZenonT(60)
    <2> QED BY <2>2, <2>3, <2>4
  <1>10. CASE NoEpochPurge \/ PurgeEnd
    BY <1>0, <1>10 DEF NoEpochPurge, PurgeEnd
  <1>12. CASE PurgedHotkey \/ ExpiredHotkey
    <2>1. [fwd EXCEPT !.pc = "purge", !.hk = None] \in FwdSet
      BY <1>0
    <2>2. [fwd EXCEPT !.pc = "expire", !.hk = None] \in FwdSet
      BY <1>0
    <2> QED BY <1>12, <2>1, <2>2 DEF PurgedHotkey, ExpiredHotkey
  <1> QED BY <1>1, <1>2, <1>3, <1>4, <1>5, <1>6, <1>7, <1>8, <1>9, <1>10, <1>11, <1>12, <1>13
         DEF FwdOnly

\* What such a step leaves alone.
LEMMA FwdOnlyFrame ==
  ASSUME FwdOnly
  PROVE  /\ UNCHANGED <<field, ttl, task, script, api, miner, env, open>>
         /\ due' = due \/ due' \subseteq Hotkey \X Hash
         /\ hurt' = hurt \/ \E hk \in Hotkey : hurt' = hurt \cup {hk}
  <1> USE DEF redis, fixed
  <1>1. CASE StoreNothing \/ StoreEnd \/ ChallengeEnd \/ NoRetrieve \/ RetrieveEnd
    BY <1>1 DEF StoreNothing, StoreEnd, ChallengeEnd, NoRetrieve, RetrieveEnd, BatchEnd
  <1>2. ASSUME NEW down, Monitor(down) PROVE UNCHANGED <<redis, task, script, api, miner, fixed, open, hurt>>
    BY <1>2 DEF Monitor
  <1>3. ASSUME NEW hk \in Hotkey, RebalanceHotkey(hk) \/ PurgeHotkey(hk) \/ ExpireHotkey(hk)
        PROVE  /\ UNCHANGED <<redis, task, script, api, miner, fixed, open>>
               /\ hurt' = hurt \/ hurt' = hurt \cup {hk}
    BY <1>3 DEF RebalanceHotkey, PurgeHotkey, ExpireHotkey
  <1>4. ASSUME NEW h, RebalanceHash(h) PROVE UNCHANGED <<redis, task, script, api, miner, fixed, open, hurt>>
    BY <1>4 DEF RebalanceHash
  <1>5. CASE RebalanceEnd \/ EpochPurge \/ NoEpochPurge \/ PurgedHotkey \/ PurgeEnd
    BY <1>5 DEF RebalanceEnd, EpochPurge, NoEpochPurge, PurgedHotkey, PurgeEnd
  <1>6. CASE TtlPurge \/ NoTtlPurge \/ ExpiredHotkey \/ ExpireEnd \/ Restart
    BY <1>6 DEF TtlPurge, NoTtlPurge, ExpiredHotkey, ExpireEnd, Restart
  <1> QED BY <1>1, <1>2, <1>3, <1>4, <1>5, <1>6 DEF FwdOnly

LEMMA TaskUpdates ==
  ASSUME Types, NEW hk \in Hotkey
  PROVE  /\ \A pc \in {"ck_data", "ck_wait", "rt_wait"}, h \in Hash, s \in Seed \cup {None} :
              SetTask(hk, pc, h, s) => task' \in TaskSet
         /\ EndTask(hk) => task' \in TaskSet
         /\ \A pc \in {"ck_put", "rt_data", "rt_put"} :
              task' = [task EXCEPT ![hk].pc = pc] => task' \in TaskSet
         /\ \A pc \in {"ck_put", "rt_data"} :
              Handle(hk, pc) => task' \in TaskSet /\ field' \in FieldSet
  <1>0. task \in [Hotkey -> TaskRec]
    BY DEF Types, TaskSet
  <1>1. ASSUME NEW pc \in {"ck_data", "ck_wait", "rt_wait"}, NEW h \in Hash,
               NEW s \in Seed \cup {None}, SetTask(hk, pc, h, s)
        PROVE  task' \in TaskSet
    <2>1. [pc |-> pc, hash |-> h, seed |-> s] \in TaskRec
      BY DEF TaskRec
    <2> QED BY <1>0, <1>1, <2>1 DEF SetTask, TaskSet
  <1>2. EndTask(hk) => task' \in TaskSet
    BY <1>0, IdleTypes DEF EndTask, TaskSet
  <1>3. ASSUME NEW pc \in {"ck_put", "rt_data", "rt_put"},
               task' = [task EXCEPT ![hk].pc = pc]
        PROVE  task' \in TaskSet
    <2>1. [task[hk] EXCEPT !.pc = pc] \in TaskRec
      BY <1>0, <1>3 DEF TaskRec
    <2> QED BY <1>0, <1>3, <2>1 DEF TaskSet
  <1>4. ASSUME NEW pc \in {"ck_put", "rt_data"}, Handle(hk, pc)
        PROVE  task' \in TaskSet /\ field' \in FieldSet
    <2>1. [[task[hk] EXCEPT !.pc = pc] EXCEPT !.seed = "same"] \in TaskRec
      BY <1>0, <1>4 DEF TaskRec, Seed
    <2>2. task' = [task EXCEPT ![hk] = [[task[hk] EXCEPT !.pc = pc] EXCEPT !.seed = "same"]]
      BY <1>0, <1>4 DEF Handle, TaskRec
    <2> QED BY <1>0, <1>4, <2>1, <2>2, AgedTypes DEF TaskSet, Handle, Used
  <1> QED BY <1>1, <1>2, <1>3, <1>4

LEMMA DoubtTypes ==
  ASSUME Types, NEW hk \in Hotkey
  PROVE  Doubt(Exchange(hk)) \subseteq Hotkey \X Rand
  BY DEF Doubt, Exchange

\* A task: redis and the tasks change, or the process ends.
LEMMA TaskTypes ==
  ASSUME Types, NEW hk \in Hotkey, HandleTask(hk)
  PROVE  Types'
  <1> USE TaskUpdates DEF redis, fixed
  <1>0. task[hk] \in TaskRec
    BY DEF Types, TaskSet
  <1>1. CASE CkKeys(hk)
    BY <1>1, CellNames DEF CkKeys, Types
  <1>2. CASE CkData(hk)
    <2>1. CASE field[hk][task[hk].hash] = None
      BY <1>2, <2>1, StopTypes DEF CkData, Types, FwdPc
    <2>2. CASE field[hk][task[hk].hash] # None
      <3>1. task[hk].hash \in Hash \cup {None}
        BY <1>0 DEF TaskRec
      <3>2. [pc |-> "ck_wait", hash |-> task[hk].hash, seed |-> "other"] \in TaskRec
        BY <3>1 DEF TaskRec, Seed
      <3>3. task' \in TaskSet
        BY <1>2, <2>2, <3>2 DEF CkData, SetTask, Types, TaskSet
      <3> QED BY <1>2, <2>2, <3>3 DEF CkData, Types
    <2> QED BY <2>1, <2>2
  <1>3. CASE CkVerified(hk)
    BY <1>3 DEF CkVerified, Types
  <1>4. CASE CkFailed(hk)
    BY <1>4, AgedTypes, DoubtTypes DEF CkFailed, Used, Types
  <1>5. CASE CkPut(hk)
    <2>1. task[hk].seed \in Seed \cup {None}
      BY <1>0 DEF TaskRec
    <2> QED BY <1>5, <2>1, SetFieldTypes DEF CkPut, Types
  <1>6. CASE RtKeys(hk)
    <2>1. CASE Keys(hk) = {}
      BY <1>6, <2>1, StopTypes DEF RtKeys, Types, FwdPc
    <2>2. CASE Keys(hk) # {}
      BY <1>6, <2>2, CellNames DEF RtKeys, Types, Seed
    <2> QED BY <2>1, <2>2
  <1>7. CASE RtAnswered(hk)
    <2>1. task[hk].hash \in Hash
      BY <1>7 DEF RtAnswered, Handle, Has, Types
    <2>2. fwd' \in FwdSet
      BY <1>7, <2>1 DEF RtAnswered, Types, FwdSet
    <2> QED BY <1>7, <2>2 DEF RtAnswered, Types
  <1>8. CASE RtFailed(hk)
    BY <1>8, DoubtTypes DEF RtFailed, Types
  <1>9. CASE RtData(hk)
    BY <1>9 DEF RtData, Types
  <1>10. CASE RtPut(hk)
    <2>1. task[hk].seed \in Seed \cup {None}
      BY <1>0 DEF TaskRec
    <2> QED BY <1>10, <2>1, SetFieldTypes DEF RtPut, Types
  <1> QED BY <1>1, <1>2, <1>3, <1>4, <1>5, <1>6, <1>7, <1>8, <1>9, <1>10 DEF HandleTask

LEMMA StoreTypes ==
  ASSUME Types, Send \/ PutTtl \/ \E hk \in Hotkey : PutData(hk)
  PROVE  Types'
  <1> USE DEF redis, fixed
  <1>0. fwd \in FwdSet
    BY DEF Types
  <1>1. CASE Send
    <2>0. PICK h \in Hash, stored \in SUBSET env.neurons :
            \E ok \in Verified(stored) : StoreSend(h, stored, ok)
      BY <1>1 DEF Send
    <2>1. PICK ok \in Verified(stored) : StoreSend(h, stored, ok)
      BY <2>0
    <2>2. stored \subseteq Hotkey /\ ok \subseteq Hotkey
      BY Environment DEF Verified
    <2>3. field' \in FieldSet
      BY <2>1, AgedTypes DEF StoreSend
    <2>4. fwd' \in FwdSet
      <3> DEFINE sent == [k \in Hotkey |-> k \in ok]
      <3>1. sent \in [Hotkey -> BOOLEAN]
        OBVIOUS
      <3>2. fwd' = [fwd EXCEPT !.pc = "put_data", !.hash = h, !.got = {}, !.sent = sent]
        BY <2>1 DEF StoreSend
      <3> HIDE DEF sent
      <3> QED BY <1>0, <3>1, <3>2 DEF FwdSet, FwdPc
    <2>5. miner' \in [Hotkey -> SUBSET Hash]
      <3> DEFINE now(k) == IF k \in stored THEN miner[k] \cup {h}
                                          ELSE IF fwd.reb THEN miner[k] ELSE miner[k] \ {h}
      <3>1. \A k \in Hotkey : miner[k] \subseteq Hash
        BY DEF Types
      <3>2. \A k \in Hotkey : now(k) \in SUBSET Hash
        BY <3>1
      <3>3. miner' = [k \in Hotkey |-> now(k)]
        BY <2>1 DEF StoreSend
      <3> HIDE DEF now
      <3> QED BY <3>2, <3>3
    <2>6. open' \subseteq Hotkey \X Rand
      <3>1. Doubt(stored \X {h}) \subseteq Hotkey \X Rand
        BY <2>2 DEF Doubt
      <3> QED BY <2>1, <3>1 DEF StoreSend, Types
    <2> QED BY <2>1, <2>3, <2>4, <2>5, <2>6 DEF StoreSend, Types
  <1>2. CASE PutTtl
    <2>1. ttl' \in TtlSet /\ fwd' \in FwdSet
      BY <1>0, <1>2, SetTtlTypes DEF PutTtl, Goto, FwdSet, FwdPc
    <2> QED BY <1>2, <2>1 DEF PutTtl, Types
  <1>3. ASSUME NEW hk \in Hotkey, PutData(hk) PROVE Types'
    <2>1. field' \in FieldSet
      BY <1>3, SetFieldTypes DEF PutData, Seed
    <2>2. fwd' = [fwd EXCEPT !.pc = "put_ttl", !.hk = hk,
                             !.sent = [fwd.sent EXCEPT ![hk] = FALSE]]
      BY <1>0, <1>3 DEF PutData, FwdSet
    <2>3. fwd' \in FwdSet
      BY <1>0, <2>2 DEF FwdSet, FwdPc
    <2> QED BY <1>3, <2>1, <2>3 DEF PutData, Types
  <1> QED BY <1>1, <1>2, <1>3

LEMMA StartIs ==
  ASSUME Types, Start
  PROVE  \E pc \in {"challenge", "retrieve"}, first \in {"ck_keys", "rt_keys"},
            asked \in SUBSET Hotkey : StartBatch(pc, first, asked)
  <1>1. PICK uids \in SUBSET env.neurons : ChallengeData(uids) \/ RetrieveData(uids)
    BY DEF Start
  <1>2. uids \in SUBSET Hotkey /\ WithMetadata(uids) \in SUBSET Hotkey
    BY Environment DEF WithMetadata
  <1> QED BY <1>1, <1>2 DEF ChallengeData, RetrieveData

LEMMA StartTypes ==
  ASSUME Types, Start
  PROVE  Types'
  <1>2. PICK pc \in {"challenge", "retrieve"}, first \in {"ck_keys", "rt_keys"},
             asked \in SUBSET Hotkey : StartBatch(pc, first, asked)
    BY StartIs
  <1>3. fwd' \in FwdSet
    BY <1>2 DEF StartBatch, Types, FwdSet, FwdPc
  <1>4. [Idle EXCEPT !.pc = first] \in TaskRec /\ Idle \in TaskRec
    BY DEF Idle, TaskRec
  <1>5. task' \in TaskSet
    BY <1>2, <1>4 DEF StartBatch, TaskSet
  <1> QED BY <1>2, <1>3, <1>5 DEF StartBatch, Types, redis, fixed

LEMMA PurgeTypes ==
  ASSUME Types,
         \/ DropData \/ DropTtl \/ Kill
         \/ \E cell \in Cell : PurgeField(cell)
         \/ \E h \in Hash : CheckTtl(h)
  PROVE  Types'
  <1> USE DEF redis, fixed
  <1>0. fwd \in FwdSet /\ fwd.hk \in Hotkey \cup {None}
    BY DEF Types, FwdSet
  <1>1. CASE DropData
    <2>1. fwd' \in FwdSet
      BY <1>0, <1>1 DEF DropData, Goto, FwdSet, FwdPc
    <2>3. hurt' \subseteq Hotkey \cup {None}
      BY <1>0, <1>1 DEF DropData, Types
    <2> QED BY <1>1, <2>1, <2>3, HdelTypes DEF DropData, Types
  <1>2. CASE DropTtl
    <2>1. fwd' \in FwdSet
      BY <1>0, <1>2 DEF DropTtl, FwdSet, FwdPc
    <2> QED BY <1>2, <2>1, HdelTypes DEF DropTtl, Types
  <1>3. CASE Kill
    <2>1. Stop("killed") /\ "killed" \in FwdPc
      BY <1>3 DEF Kill, FwdPc
    <2> QED BY <1>3, <2>1, StopTypes DEF Kill, Types
  <1>4. ASSUME NEW cell \in Cell, PurgeField(cell) PROVE Types'
    <2>1. fwd' \in FwdSet
      BY <1>0, <1>4 DEF PurgeField, FwdSet, FwdPc
    <2> QED BY <1>4, <2>1, HdelTypes DEF PurgeField, Types
  <1>5. ASSUME NEW h \in Hash, CheckTtl(h) PROVE Types'
    <2>1. CASE Stop("dead")
      <3>1. "dead" \in FwdPc
        BY DEF FwdPc
      <3> QED BY <1>5, <2>1, <3>1, StopTypes DEF CheckTtl, Types
    <2> DEFINE rest == fwd.left \ {<<"ttl", h>>}
    <2>2. CASE /\ UNCHANGED <<redis, task, open, due>>
               /\ \/ fwd' = [fwd EXCEPT !.left = rest]
                  \/ fwd' = [fwd EXCEPT !.pc = "drop_data", !.left = rest, !.hash = h]
      <3>1. rest \subseteq Cell
        BY <1>0 DEF FwdSet
      <3>2. [fwd EXCEPT !.left = rest] \in FwdSet
        BY <1>0, <3>1 DEF FwdSet
      <3>3. [fwd EXCEPT !.pc = "drop_data", !.left = rest, !.hash = h] \in FwdSet
        BY <1>0, <3>1 DEF FwdSet, FwdPc
      <3> HIDE DEF rest
      <3> QED BY <1>5, <2>2, <3>2, <3>3 DEF CheckTtl, Types
    <2> QED BY <1>5, <2>1, <2>2 DEF CheckTtl
  <1> QED BY <1>1, <1>2, <1>3, <1>4, <1>5

LEMMA NoScriptTypes == NoScript \in ScriptSet
  BY DEF NoScript, ScriptSet

LEMMA OthersTypes ==
  ASSUME Types, Script \/ Api \/ \E hk \in Hotkey, h \in Hash : Expire(hk, h)
  PROVE  Types'
  <1> USE DEF redis, fixed
  <1>0. script \in ScriptSet /\ script.hk \in Hotkey \cup {None} /\ api \in ApiSet
    BY DEF Types, ScriptSet
  <1>1. ASSUME NEW hotkeys \in SUBSET env.neurons, ScriptStart(hotkeys) PROVE Types'
    <2>1. script' \in ScriptSet
      BY <1>1, NoScriptTypes, Environment DEF ScriptStart, ScriptSet
    <2> QED BY <1>1, <2>1 DEF ScriptStart, Types
  <1>2. ASSUME NEW hk \in Hotkey, ScriptHotkey(hk) PROVE Types'
    <2>1. script' \in ScriptSet
      BY <1>0, <1>2 DEF ScriptHotkey, ScriptSet
    <2> QED BY <1>2, <2>1 DEF ScriptHotkey, Types
  <1>3. CASE ScriptPurge
    <2>1. script' \in ScriptSet
      BY <1>0, <1>3, CellNames DEF ScriptPurge, ScriptSet, ChallengesForHotkey
    <2> QED BY <1>0, <1>3, <2>1 DEF ScriptPurge, Types
  <1>4. ASSUME NEW cell \in Cell, ScriptField(cell) PROVE Types'
    <2>1. script' \in ScriptSet
      BY <1>0, <1>4 DEF ScriptField, ScriptSet
    <2> QED BY <1>4, <2>1, HdelTypes DEF ScriptField, Types
  <1>5. CASE ScriptEnd
    <2>1. script' \in ScriptSet
      BY <1>0, <1>5, NoScriptTypes DEF ScriptEnd, ScriptSet
    <2> QED BY <1>5, <2>1 DEF ScriptEnd, Types
  <1>6. ASSUME NEW hk \in env.neurons, NEW c \in Chunk, ApiData(hk, c) PROVE Types'
    <2>1. hk \in Hotkey /\ c \in Hash
      BY Environment DEF Hash
    <2>2. field' \in FieldSet
      BY <1>6, SetFieldTypes DEF ApiData, Seed
    <2>3. miner' \in [Hotkey -> SUBSET Hash] /\ api' \in ApiSet
      BY <1>6, <2>1 DEF ApiData, Types, ApiSet
    <2> QED BY <1>6, <2>1, <2>2, <2>3 DEF ApiData, Types
  <1>7. CASE ApiTtl
    <2>1. api' \in ApiSet
      BY <1>7 DEF ApiTtl, ApiSet
    <2> QED BY <1>7, <2>1, SetTtlTypes DEF ApiTtl, Types
  <1>8. ASSUME NEW hk \in Hotkey, NEW h \in Hash, Expire(hk, h) PROVE Types'
    BY <1>8, SetTtlTypes DEF Expire, Types
  <1> QED BY <1>1, <1>2, <1>3, <1>4, <1>5, <1>6, <1>7, <1>8 DEF Script, Api

LEMMA NextTypes ==
  ASSUME Types, [Next]_vars
  PROVE  Types'
  <1>1. CASE FwdOnly
    BY <1>1, FwdOnlyTypes, FwdOnlyFrame DEF Types
  <1>2. CASE UNCHANGED vars
    BY <1>2 DEF vars, Types
  <1>3. CASE Next
    BY <1>1, <1>3, Steps, StoreTypes, StartTypes, PurgeTypes, OthersTypes, TaskTypes
  <1> QED BY <1>2, <1>3

-----------------------------------------------------------------------------
(* Where forward is                                                        *)

AtHotkey == {"put_ttl", "delete", "check", "drop_data", "drop_ttl"}
AtHash == {"put_data", "put_ttl", "drop_data", "drop_ttl"}
WithHash == {"ck_data", "ck_wait", "ck_put", "rt_wait", "rt_data", "rt_put"}

FwdOK ==
  /\ fwd.pc \in AtHotkey => fwd.hk \in Hotkey
  /\ fwd.pc \in AtHash => fwd.hash \in Hash
  /\ fwd.pc \notin {"put_data", "put_ttl"} => \A hk \in Hotkey : ~ fwd.sent[hk]

TasksOK ==
  \A hk \in Hotkey :
    /\ Live(hk) => fwd.pc \in {"challenges", "retrieves"}
    /\ task[hk].pc \in WithHash => task[hk].hash \in Hash

OthersOK ==
  /\ script.pc \in {"purge", "delete"} => script.hk \in Hotkey
  /\ script.pc # "idle" => "script" \in env.others
  /\ script.pc = "delete" => script.hk \in hurt
  /\ api.hk # None => api.hash \in Chunk
  /\ None \notin hurt

Ctrl == Types /\ FwdOK /\ TasksOK /\ OthersOK

LEMMA BeginOK ==
  \A f : \A pc \in {"store", "dead", "killed"} :
    f = [Begin EXCEPT !.pc = pc] =>
      f.pc = pc /\ f.pc \notin AtHotkey \cup AtHash /\ \A hk \in Hotkey : ~ f.sent[hk]
  BY DEF Begin, AtHotkey, AtHash

\* The names of the steps inside a batch or a purge have no task and no answer.
LEMMA StopOK ==
  ASSUME Types, Types', NEW pc \in {"dead", "killed"}, Stop(pc)
  PROVE  FwdOK' /\ TasksOK'
  <1>1. fwd' = [Begin EXCEPT !.pc = pc] /\ task' = [hk \in Hotkey |-> Idle]
    BY DEF Stop
  <1>2. FwdOK'
    BY <1>1, BeginOK DEF FwdOK
  <1>3. TasksOK'
    BY <1>1 DEF TasksOK, Live, Idle, WithHash
  <1> QED BY <1>2, <1>3

\* A step of forward alone has no task before it and no answer to record after.
LEMMA FwdOnlyQuiet ==
  ASSUME Ctrl, FwdOnly
  PROVE  /\ \A hk \in Hotkey : ~ Live(hk) /\ ~ fwd.sent[hk] /\ ~ fwd'.sent[hk]
         /\ FwdOK' /\ fwd'.pc \notin AtHash
  <1> USE DEF FwdSet, FwdPc, At, Goto, AfterStore, AtHotkey, AtHash, FwdOK
  <1>0. fwd \in FwdSet
    BY DEF Types, Ctrl
  <1>1. CASE StoreNothing \/ StoreEnd
    <2>1. CASE StoreNothing
      BY <1>0, <2>1 DEF StoreNothing, Ctrl, TasksOK
    <2>2. CASE StoreEnd
      BY <1>0, <2>2 DEF StoreEnd, Ctrl, TasksOK
    <2> QED BY <1>1, <2>1, <2>2
  <1>2. CASE ChallengeEnd \/ RetrieveEnd
    BY <1>0, <1>2 DEF ChallengeEnd, RetrieveEnd, BatchEnd, Ctrl
  <1>3. ASSUME NEW down \in SUBSET env.neurons, NoRetrieve \/ Monitor(down)
        PROVE  /\ FwdOK' /\ fwd'.pc \notin AtHash
               /\ \A hk \in Hotkey : ~ Live(hk) /\ ~ fwd.sent[hk] /\ ~ fwd'.sent[hk]
    BY <1>0, <1>3, Environment DEF NoRetrieve, Monitor, Ctrl, TasksOK
  <1>4. ASSUME NEW hk \in Hotkey, RebalanceHotkey(hk) \/ PurgeHotkey(hk) \/ ExpireHotkey(hk)
        PROVE  /\ FwdOK' /\ fwd'.pc \notin AtHash
               /\ \A k \in Hotkey : ~ Live(k) /\ ~ fwd.sent[k] /\ ~ fwd'.sent[k]
    BY <1>0, <1>4 DEF RebalanceHotkey, PurgeHotkey, ExpireHotkey, Ctrl, TasksOK
  <1>5. ASSUME NEW h \in Chunk, RebalanceHash(h) \/ RebalanceEnd
        PROVE  /\ FwdOK' /\ fwd'.pc \notin AtHash
               /\ \A k \in Hotkey : ~ Live(k) /\ ~ fwd.sent[k] /\ ~ fwd'.sent[k]
    BY <1>0, <1>5 DEF RebalanceHash, RebalanceEnd, Ctrl, TasksOK
  <1>6. CASE RebalanceEnd \/ EpochPurge \/ NoEpochPurge
    BY <1>0, <1>6 DEF RebalanceEnd, EpochPurge, NoEpochPurge, Ctrl, TasksOK
  <1>7. CASE PurgedHotkey \/ ExpiredHotkey
    <2>1. CASE PurgedHotkey
      BY <1>0, <2>1 DEF PurgedHotkey, Ctrl, TasksOK
    <2>2. CASE ExpiredHotkey
      BY <1>0, <2>2 DEF ExpiredHotkey, Ctrl, TasksOK
    <2> QED BY <1>7, <2>1, <2>2
  <1>9. CASE PurgeEnd \/ TtlPurge
    BY <1>0, <1>9 DEF PurgeEnd, TtlPurge, Ctrl, TasksOK
  <1>8. CASE NoTtlPurge \/ ExpireEnd \/ Restart
    <2>1. fwd' = Begin /\ fwd.pc \in {"ttl", "expire", "dead", "killed"}
      BY <1>8 DEF NoTtlPurge, ExpireEnd, Restart
    <2>2. fwd'.pc = "store" /\ \A hk \in Hotkey : ~ fwd'.sent[hk]
      BY <2>1 DEF Begin
    <2> QED BY <2>1, <2>2 DEF Ctrl, TasksOK
  <1> QED BY <1>1, <1>2, <1>3, <1>4, <1>5, <1>6, <1>7, <1>8, <1>9 DEF FwdOnly

\* The step of a task that goes on.
Goes(hk) ==
  \E t \in TaskRec : /\ task' = [task EXCEPT ![hk] = t]
                     /\ t.pc \in WithHash => t.hash \in Hash

LEMMA Going ==
  ASSUME Ctrl, NEW hk \in Hotkey
  PROVE  /\ EndTask(hk) => Goes(hk)
         /\ \A pc \in {"ck_data", "ck_wait", "rt_wait"}, h \in Hash, s \in Seed \cup {None} :
              SetTask(hk, pc, h, s) => Goes(hk)
         /\ \A pc \in {"rt_data", "rt_put"} :
              task[hk].pc \in WithHash /\ task' = [task EXCEPT ![hk].pc = pc] => Goes(hk)
         /\ \A pc \in {"ck_put", "rt_data"} : Handle(hk, pc) => Goes(hk)
  <1>0. /\ task \in [Hotkey -> TaskRec] /\ task[hk] \in TaskRec /\ Idle \in TaskRec
        /\ task[hk].pc \in WithHash => task[hk].hash \in Hash
    BY IdleTypes DEF Ctrl, Types, TaskSet, TasksOK
  <1>1. EndTask(hk) => Goes(hk)
    BY <1>0 DEF EndTask, Idle, WithHash, Goes
  <1>2. ASSUME NEW pc \in {"ck_data", "ck_wait", "rt_wait"}, NEW h \in Hash,
               NEW s \in Seed \cup {None}, SetTask(hk, pc, h, s)
        PROVE  Goes(hk)
    <2>1. [pc |-> pc, hash |-> h, seed |-> s] \in TaskRec
      BY DEF TaskRec
    <2> QED BY <1>2, <2>1 DEF SetTask, Goes
  <1>3. ASSUME NEW pc \in {"rt_data", "rt_put"}, task[hk].pc \in WithHash,
               task' = [task EXCEPT ![hk].pc = pc]
        PROVE  Goes(hk)
    <2> DEFINE t == [task[hk] EXCEPT !.pc = pc]
    <2>1. t \in TaskRec /\ t.hash = task[hk].hash
      BY <1>0 DEF TaskRec
    <2>2. task' = [task EXCEPT ![hk] = t]
      BY <1>0, <1>3
    <2> HIDE DEF t
    <2> QED BY <1>0, <1>3, <2>1, <2>2 DEF Goes
  <1>4. ASSUME NEW pc \in {"ck_put", "rt_data"}, Handle(hk, pc)
        PROVE  Goes(hk)
    <2> DEFINE t == [[task[hk] EXCEPT !.pc = pc] EXCEPT !.seed = "same"]
    <2>1. t \in TaskRec /\ t.hash = task[hk].hash
      BY <1>0 DEF TaskRec, Seed
    <2>2. task' = [task EXCEPT ![hk] = t]
      BY <1>0, <1>4 DEF Handle, TaskRec
    <2>3. task[hk].hash \in Hash
      BY <1>4 DEF Handle, Has, Ctrl, Types
    <2> HIDE DEF t
    <2> QED BY <2>1, <2>2, <2>3 DEF Goes
  <1> QED BY <1>1, <1>2, <1>3, <1>4

LEMMA TaskSteps ==
  ASSUME Ctrl, NEW hk \in Hotkey, HandleTask(hk)
  PROVE  \/ Stop("dead") /\ UNCHANGED <<script, api, miner, env, hurt>>
         \/ /\ UNCHANGED <<ttl, script, api, miner, env, due, hurt>>
            /\ fwd' = fwd \/ fwd' = [fwd EXCEPT !.got = fwd'.got]
            /\ Live(hk) /\ Goes(hk)
  <1> USE Going DEF redis, fixed, Live
  <1>0. task[hk].pc \in WithHash => task[hk].hash \in Hash
    BY DEF Ctrl, TasksOK
  <1>1. CASE CkKeys(hk)
    BY <1>1, CellNames DEF CkKeys
  <1>2. CASE CkData(hk)
    BY <1>0, <1>2 DEF CkData, WithHash, Seed
  <1>3. CASE CkVerified(hk)
    BY <1>3 DEF CkVerified
  <1>4. CASE CkFailed(hk)
    BY <1>4 DEF CkFailed
  <1>5. CASE CkPut(hk)
    BY <1>5 DEF CkPut
  <1>6. CASE RtKeys(hk)
    BY <1>6, CellNames DEF RtKeys, Seed
  <1>7. CASE RtAnswered(hk)
    BY <1>7 DEF RtAnswered, Ctrl, Types, FwdSet
  <1>8. CASE RtFailed(hk)
    BY <1>8 DEF RtFailed, WithHash
  <1>9. CASE RtData(hk)
    BY <1>9 DEF RtData, WithHash
  <1>10. CASE RtPut(hk)
    BY <1>10 DEF RtPut
  <1> QED BY <1>1, <1>2, <1>3, <1>4, <1>5, <1>6, <1>7, <1>8, <1>9, <1>10 DEF HandleTask

LEMMA TaskCtrl ==
  ASSUME Ctrl, Types', NEW hk \in Hotkey, HandleTask(hk)
  PROVE  FwdOK' /\ TasksOK' /\ OthersOK'
  <1>1. CASE Stop("dead") /\ UNCHANGED <<script, api, miner, env, hurt>>
    BY <1>1, StopOK DEF Ctrl, OthersOK
  <1>2. CASE /\ UNCHANGED <<ttl, script, api, miner, env, due, hurt>>
             /\ fwd' = fwd \/ fwd' = [fwd EXCEPT !.got = fwd'.got]
             /\ Live(hk) /\ Goes(hk)
    <2>1. /\ fwd'.pc = fwd.pc /\ fwd'.hk = fwd.hk /\ fwd'.hash = fwd.hash /\ fwd'.sent = fwd.sent
      BY <1>2 DEF Ctrl, Types, FwdSet
    <2>2. FwdOK' /\ OthersOK'
      BY <1>2, <2>1 DEF Ctrl, FwdOK, OthersOK
    <2>3. PICK t \in TaskRec : task' = [task EXCEPT ![hk] = t] /\ (t.pc \in WithHash => t.hash \in Hash)
      BY <1>2 DEF Goes
    <2>4. fwd.pc \in {"challenges", "retrieves"}
      BY <1>2 DEF Ctrl, TasksOK
    <2>5. \A k \in Hotkey : task'[k] = task[k] \/ (k = hk /\ task'[k] = t)
      BY <2>3 DEF Ctrl, Types, TaskSet
    <2>6. TasksOK'
      BY <2>1, <2>3, <2>4, <2>5 DEF Ctrl, TasksOK, Live
    <2> QED BY <2>2, <2>6
  <1> QED BY <1>1, <1>2, TaskSteps

\* What the other steps of forward leave alone, and where they lead.
LEMMA StoreCtrl ==
  ASSUME Ctrl, Types', Send \/ PutTtl \/ \E hk \in Hotkey : PutData(hk)
  PROVE  FwdOK' /\ TasksOK' /\ OthersOK'
  <1> USE DEF redis, fixed, AtHotkey, AtHash, At, Goto
  <1>0. fwd \in FwdSet /\ FwdOK /\ TasksOK /\ OthersOK
    BY DEF Ctrl, Types
  <1>1. CASE Send
    <2>0. PICK h \in Hash, stored \in SUBSET env.neurons :
            \E ok \in Verified(stored) : StoreSend(h, stored, ok)
      BY <1>1 DEF Send
    <2>1. PICK ok \in Verified(stored) : StoreSend(h, stored, ok)
      BY <2>0
    <2>2. fwd.pc = "store" /\ fwd'.pc = "put_data" /\ fwd'.hash = h
      BY <1>0, <2>1 DEF StoreSend, FwdSet
    <2>3. UNCHANGED <<task, script, api, env, hurt>>
      BY <2>1 DEF StoreSend
    <2> QED BY <1>0, <2>2, <2>3 DEF FwdOK, TasksOK, OthersOK, Live
  <1>2. CASE PutTtl
    <2>1. fwd.pc = "put_ttl" /\ fwd'.pc = "put_data" /\ fwd'.hash = fwd.hash
      BY <1>0, <1>2 DEF PutTtl, FwdSet
    <2>2. UNCHANGED <<task, script, api, env, hurt>>
      BY <1>2 DEF PutTtl
    <2> QED BY <1>0, <2>1, <2>2 DEF FwdOK, TasksOK, OthersOK, Live
  <1>3. ASSUME NEW hk \in Hotkey, PutData(hk) PROVE FwdOK' /\ TasksOK' /\ OthersOK'
    <2>1. fwd.pc = "put_data" /\ fwd'.pc = "put_ttl" /\ fwd'.hash = fwd.hash /\ fwd'.hk = hk
      BY <1>0, <1>3 DEF PutData, FwdSet
    <2>2. UNCHANGED <<task, script, api, env, hurt>>
      BY <1>3 DEF PutData
    <2> QED BY <1>0, <2>1, <2>2 DEF FwdOK, TasksOK, OthersOK, Live
  <1> QED BY <1>1, <1>2, <1>3

LEMMA StartCtrl ==
  ASSUME Ctrl, Types', Start
  PROVE  FwdOK' /\ TasksOK' /\ OthersOK'
  <1>0. fwd \in FwdSet /\ FwdOK /\ OthersOK
    BY DEF Ctrl, Types
  <1>2. PICK pc \in {"challenge", "retrieve"}, first \in {"ck_keys", "rt_keys"},
             asked \in SUBSET Hotkey : StartBatch(pc, first, asked)
    BY StartIs DEF Ctrl
  <1>3. /\ fwd.pc = pc /\ fwd'.pc \in {"challenges", "retrieves"} /\ fwd'.sent = fwd.sent
        /\ UNCHANGED <<script, api, env, hurt>>
    BY <1>0, <1>2 DEF StartBatch, At, FwdSet, fixed
  <1>4. \A hk \in Hotkey : task'[hk] = [Idle EXCEPT !.pc = first] \/ task'[hk] = Idle
    BY <1>2 DEF StartBatch
  <1>5. \A hk \in Hotkey : task'[hk].pc \notin WithHash
    BY <1>4 DEF Idle, WithHash
  <1> QED BY <1>0, <1>3, <1>5 DEF FwdOK, TasksOK, OthersOK, AtHotkey, AtHash

LEMMA PurgeCtrl ==
  ASSUME Ctrl, Types',
         \/ DropData \/ DropTtl \/ Kill
         \/ \E cell \in Cell : PurgeField(cell)
         \/ \E h \in Hash : CheckTtl(h)
  PROVE  FwdOK' /\ TasksOK' /\ OthersOK'
  <1> USE DEF redis, fixed, At, Goto
  <1>0. fwd \in FwdSet /\ FwdOK /\ TasksOK /\ OthersOK
    BY DEF Ctrl, Types
  <1>1. CASE DropData
    <2>1. /\ fwd.pc = "drop_data" /\ fwd'.pc = "drop_ttl"
          /\ fwd'.hk = fwd.hk /\ fwd'.hash = fwd.hash /\ fwd'.sent = fwd.sent
      BY <1>0, <1>1 DEF DropData, FwdSet
    <2>2. /\ UNCHANGED <<task, script, api, env>>
          /\ hurt' = hurt \/ hurt' = hurt \cup {fwd.hk}
      BY <1>1 DEF DropData
    <2>3. fwd.hk \in Hotkey
      BY <1>0, <2>1 DEF FwdOK, AtHotkey
    <2> QED BY <1>0, <2>1, <2>2, <2>3, Names
            DEF FwdOK, TasksOK, OthersOK, Live, AtHotkey, AtHash
  <1>2. CASE DropTtl
    <2>1. /\ fwd.pc = "drop_ttl" /\ fwd'.pc = "check"
          /\ fwd'.hk = fwd.hk /\ fwd'.sent = fwd.sent
      BY <1>0, <1>2 DEF DropTtl, FwdSet
    <2>2. UNCHANGED <<task, script, api, env, hurt>>
      BY <1>2 DEF DropTtl
    <2> QED BY <1>0, <2>1, <2>2 DEF FwdOK, TasksOK, OthersOK, Live, AtHotkey, AtHash
  <1>3. CASE Kill
    <2>1. FwdOK' /\ TasksOK'
      BY <1>3, StopOK DEF Kill, Ctrl
    <2>2. UNCHANGED <<script, api, env>> /\ hurt \subseteq hurt' /\ hurt' \subseteq hurt \cup Hotkey
      BY <1>3 DEF Kill
    <2> QED BY <1>0, <2>1, <2>2, Names DEF OthersOK
  <1>4. ASSUME NEW cell \in Cell, PurgeField(cell) PROVE FwdOK' /\ TasksOK' /\ OthersOK'
    <2>1. /\ fwd.pc = "delete" /\ fwd'.pc = "delete" /\ fwd'.hk = fwd.hk /\ fwd'.sent = fwd.sent
      BY <1>0, <1>4 DEF PurgeField, FwdSet
    <2>2. UNCHANGED <<task, script, api, env, hurt>>
      BY <1>4 DEF PurgeField
    <2> QED BY <1>0, <2>1, <2>2 DEF FwdOK, TasksOK, OthersOK, Live, AtHotkey, AtHash
  <1>5. ASSUME NEW h \in Hash, CheckTtl(h) PROVE FwdOK' /\ TasksOK' /\ OthersOK'
    <2>1. UNCHANGED <<script, api, env, hurt>>
      BY <1>5 DEF CheckTtl
    <2>2. CASE Stop("dead")
      BY <1>0, <2>1, <2>2, StopOK DEF OthersOK, Ctrl
    <2>3. CASE /\ UNCHANGED task /\ fwd'.hk = fwd.hk /\ fwd'.sent = fwd.sent
               /\ fwd'.pc = "check" \/ (fwd'.pc = "drop_data" /\ fwd'.hash = h)
      <3>1. fwd.pc = "check"
        BY <1>5 DEF CheckTtl
      <3> QED BY <1>0, <2>1, <2>3, <3>1 DEF FwdOK, TasksOK, OthersOK, Live, AtHotkey, AtHash
    <2>4. \/ Stop("dead")
          \/ /\ UNCHANGED task /\ fwd'.hk = fwd.hk /\ fwd'.sent = fwd.sent
             /\ fwd'.pc = "check" \/ (fwd'.pc = "drop_data" /\ fwd'.hash = h)
      BY <1>0, <1>5 DEF CheckTtl, FwdSet
    <2> QED BY <2>2, <2>3, <2>4
  <1> QED BY <1>1, <1>2, <1>3, <1>4, <1>5

LEMMA OthersCtrl ==
  ASSUME Ctrl, Types', Script \/ Api \/ \E hk \in Hotkey, h \in Hash : Expire(hk, h)
  PROVE  FwdOK' /\ TasksOK' /\ OthersOK'
  <1> USE DEF redis, fixed
  <1>0. /\ script \in ScriptSet /\ api \in ApiSet /\ fwd \in FwdSet
        /\ FwdOK /\ TasksOK /\ OthersOK
    BY DEF Ctrl, Types
  <1>1. UNCHANGED <<fwd, task>>
    BY DEF Script, Api, Expire, ScriptStart, ScriptHotkey, ScriptPurge, ScriptField, ScriptEnd,
           ApiData, ApiTtl
  <1>2. FwdOK' /\ TasksOK'
    BY <1>0, <1>1 DEF FwdOK, TasksOK, Live
  <1>3. ASSUME \E hotkeys \in SUBSET env.neurons : ScriptStart(hotkeys) PROVE OthersOK'
    BY <1>0, <1>3 DEF ScriptStart, OthersOK, NoScript
  <1>4. ASSUME NEW hk \in Hotkey, ScriptHotkey(hk) PROVE OthersOK'
    <2>1. script'.hk = hk /\ script'.pc = "purge"
      BY <1>0, <1>4 DEF ScriptHotkey, ScriptSet
    <2> QED BY <1>0, <1>4, <2>1 DEF ScriptHotkey, OthersOK
  <1>5. ASSUME ScriptPurge PROVE OthersOK'
    <2>1. script'.hk = script.hk /\ script'.pc = "delete"
      BY <1>0, <1>5 DEF ScriptPurge, ScriptSet
    <2> QED BY <1>0, <1>5, <2>1, Names DEF ScriptPurge, OthersOK
  <1>6. ASSUME NEW cell \in Cell, ScriptField(cell) PROVE OthersOK'
    <2>1. script'.hk = script.hk /\ script'.pc = script.pc
      BY <1>0, <1>6 DEF ScriptField, ScriptSet
    <2> QED BY <1>0, <1>6, <2>1 DEF ScriptField, OthersOK
  <1>7. ASSUME ScriptEnd PROVE OthersOK'
    BY <1>0, <1>7 DEF ScriptEnd, OthersOK, NoScript
  <1>8. ASSUME NEW hk \in env.neurons, NEW c \in Chunk, ApiData(hk, c) PROVE OthersOK'
    <2>1. /\ UNCHANGED <<script, env>> /\ api'.hash \in Chunk
          /\ hurt' = hurt \/ hurt' = hurt \cup {hk}
      BY <1>8 DEF ApiData
    <2>2. hk # None
      BY Environment, Names DEF Ctrl
    <2> QED BY <1>0, <2>1, <2>2 DEF OthersOK
  <1>9. ASSUME ApiTtl PROVE OthersOK'
    BY <1>0, <1>9 DEF ApiTtl, OthersOK
  <1>10. ASSUME \E hk \in Hotkey, h \in Hash : Expire(hk, h) PROVE OthersOK'
    BY <1>0, <1>10 DEF Expire, OthersOK
  <1> QED BY <1>2, <1>3, <1>4, <1>5, <1>6, <1>7, <1>8, <1>9, <1>10 DEF Script, Api

LEMMA FwdOnlyCtrl ==
  ASSUME Ctrl, FwdOnly
  PROVE  FwdOK' /\ TasksOK' /\ OthersOK'
  <1>1. UNCHANGED <<task, script, api, env>>
        /\ (hurt' = hurt \/ \E hk \in Hotkey : hurt' = hurt \cup {hk})
    BY FwdOnlyFrame
  <1>2. FwdOK' /\ TasksOK'
    BY <1>1, FwdOnlyQuiet DEF Ctrl, TasksOK, Live
  <1>3. OthersOK'
    BY <1>1, Names DEF Ctrl, OthersOK
  <1> QED BY <1>2, <1>3

LEMMA NextCtrl ==
  ASSUME Ctrl, [Next]_vars
  PROVE  Ctrl'
  <1>1. Types'
    BY NextTypes DEF Ctrl
  <1>2. CASE UNCHANGED vars
    BY <1>2 DEF vars, Ctrl, Types, FwdOK, TasksOK, OthersOK, Live
  <1>3. CASE Next
    <2>1. FwdOK' /\ TasksOK' /\ OthersOK'
      BY <1>1, <1>3, Steps, FwdOnlyCtrl, StoreCtrl, StartCtrl, PurgeCtrl, OthersCtrl, TaskCtrl
    <2> QED BY <1>1, <2>1 DEF Ctrl
  <1> QED BY <1>2, <1>3

LEMMA InitCtrl == Init => Ctrl
  <1> SUFFICES ASSUME Init PROVE Ctrl
    OBVIOUS
  <1>1. fwd = Begin /\ task = [hk \in Hotkey |-> Idle] /\ script = NoScript
        /\ api = [hk |-> None, hash |-> None] /\ hurt = {}
    BY DEF Init
  <1>2. FwdOK /\ TasksOK
    BY <1>1 DEF FwdOK, TasksOK, Begin, Idle, Live, AtHotkey, AtHash, WithHash
  <1>3. OthersOK
    BY <1>1 DEF OthersOK, NoScript
  <1> QED BY <1>2, <1>3, InitTypes DEF Ctrl

-----------------------------------------------------------------------------
(* What is recorded is stored                                              *)

LEMMA AgedCells ==
  ASSUME Types, NEW hks, NEW hash, NEW hk \in Hotkey, NEW h \in Hash
  PROVE  /\ Aged(hks, hash)[hk][h] = None <=> field[hk][h] = None
         /\ hk \notin hks \/ hash[hk] # h => Aged(hks, hash)[hk][h] = field[hk][h]
  <1>2. field[hk] \in [Hash -> Seed \cup {None}]
    BY DEF Types, FieldSet
  <1> QED BY <1>2, Names DEF Aged

LEMMA HdelCells ==
  ASSUME Types, NEW k \in Hotkey, NEW cell \in Cell, Hdel(k, cell), NEW hk \in Hotkey, NEW h \in Hash
  PROVE  /\ field'[hk][h] = field[hk][h] \/ (field'[hk][h] = None /\ k = hk /\ cell = <<"data", h>>)
         /\ ttl'[hk][h] = ttl[hk][h] \/ (ttl'[hk][h] = None /\ k = hk /\ cell = <<"ttl", h>>)
  <1>1. /\ field[hk] \in [Hash -> Seed \cup {None}] /\ field \in [Hotkey -> [Hash -> Seed \cup {None}]]
        /\ ttl \in [Hotkey -> [Hash -> {"fresh", "expired", None}]]
    BY DEF Types, FieldSet, TtlSet
  <1>2. cell[1] \in {"data", "ttl"} /\ cell = <<cell[1], cell[2]>>
    BY DEF Cell
  <1> QED BY <1>1, <1>2 DEF Hdel, SetField, SetTtl

\* The steps of a task, seen from the record of the task.
Moves(hk) ==
  LET o == task[hk]
      t == task'[hk]
      kept == t.hash = o.hash
      still == UNCHANGED <<field, open>>
  IN  \/ o.pc = "ck_keys" /\ t.pc = "idle" /\ still
      \/ o.pc = "ck_keys" /\ t.pc = "ck_data" /\ t.hash \in Keys(hk) /\ still
      \/ o.pc = "ck_data" /\ t.pc = "ck_wait" /\ kept /\ field[hk][o.hash] # None /\ still
      \/ /\ o.pc = "ck_wait" /\ t.pc = "ck_put" /\ kept /\ t.seed = "same" /\ Has(hk)
         /\ field' = Used(hk) /\ open' = open \ Exchange(hk)
      \/ /\ o.pc = "ck_wait" /\ t.pc = "idle"
         /\ field' = Used(hk) \/ field' = field
         /\ open' = open \cup Doubt(Exchange(hk))
      \/ o.pc = "rt_keys" /\ t.pc = "rt_wait" /\ t.hash \in Keys(hk) /\ t.seed = "other" /\ still
      \/ /\ o.pc = "rt_wait" /\ t.pc = "rt_data" /\ kept
         /\ \/ t.seed = "same" /\ field' = Used(hk) /\ open' = open \ Exchange(hk)
            \/ /\ t.seed \in {"same", o.seed} /\ (field' = Used(hk) \/ field' = field)
               /\ open' = open \cup Doubt(Exchange(hk))
      \/ o.pc = "rt_data" /\ t.pc = "idle" /\ field[hk][o.hash] = None /\ still
      \/ /\ o.pc = "rt_data" /\ t.pc = "rt_put" /\ kept /\ t.seed = o.seed
         /\ field[hk][o.hash] # None /\ still
      \/ /\ o.pc \in {"ck_put", "rt_put"} /\ t.pc = "idle"
         /\ SetField(hk, o.hash, o.seed) /\ UNCHANGED open

Raises(hk) ==
  \/ task[hk].pc = "ck_data" /\ field[hk][task[hk].hash] = None
  \/ task[hk].pc = "rt_keys" /\ Keys(hk) = {}

Frame ==
  /\ UNCHANGED <<ttl, script, api, miner, env, due, hurt>>
  /\ fwd' = fwd \/ fwd' = [fwd EXCEPT !.got = fwd'.got]

LEMMA TaskMoves ==
  ASSUME Ctrl, NEW hk \in Hotkey, HandleTask(hk)
  PROVE  \/ Stop("dead") /\ Raises(hk)
         \/ /\ Moves(hk) /\ Frame
            /\ \A k \in Hotkey \ {hk} : task'[k] = task[k]
  <1> USE DEF redis, fixed, Frame
  <1>0. task \in [Hotkey -> TaskRec] /\ task[hk] \in TaskRec
    BY DEF Ctrl, Types, TaskSet
  <1>1. EndTask(hk) => task'[hk].pc = "idle" /\ \A k \in Hotkey \ {hk} : task'[k] = task[k]
    BY <1>0 DEF EndTask, Idle
  <1>2. ASSUME NEW pc, NEW h, NEW s, SetTask(hk, pc, h, s)
        PROVE  /\ task'[hk].pc = pc /\ task'[hk].hash = h /\ task'[hk].seed = s
               /\ \A k \in Hotkey \ {hk} : task'[k] = task[k]
    BY <1>0, <1>2 DEF SetTask
  <1>3. ASSUME NEW pc, task' = [task EXCEPT ![hk].pc = pc]
        PROVE  /\ task'[hk].pc = pc /\ task'[hk].hash = task[hk].hash /\ task'[hk].seed = task[hk].seed
               /\ \A k \in Hotkey \ {hk} : task'[k] = task[k]
    BY <1>0, <1>3 DEF TaskRec
  <1>4. ASSUME NEW pc, Handle(hk, pc)
        PROVE  /\ task'[hk].pc = pc /\ task'[hk].hash = task[hk].hash /\ task'[hk].seed = "same"
               /\ \A k \in Hotkey \ {hk} : task'[k] = task[k]
               /\ Has(hk) /\ field' = Used(hk)
    BY <1>0, <1>4 DEF Handle, TaskRec
  <1>5. CASE CkKeys(hk)
    BY <1>1, <1>2, <1>5 DEF CkKeys, Moves
  <1>6. CASE CkData(hk)
    BY <1>2, <1>6 DEF CkData, Moves, Raises
  <1>7. CASE CkVerified(hk)
    BY <1>4, <1>7 DEF CkVerified, Moves
  <1>8. CASE CkFailed(hk)
    BY <1>1, <1>8 DEF CkFailed, Moves
  <1>9. CASE CkPut(hk)
    BY <1>1, <1>9 DEF CkPut, Moves
  <1>10. CASE RtKeys(hk)
    BY <1>2, <1>10 DEF RtKeys, Moves, Raises
  <1>11. CASE RtAnswered(hk)
    BY <1>4, <1>11 DEF RtAnswered, Moves, Ctrl, Types, FwdSet
  <1>12. CASE RtFailed(hk)
    BY <1>3, <1>4, <1>12 DEF RtFailed, Moves
  <1>13. CASE RtData(hk)
    BY <1>1, <1>3, <1>13 DEF RtData, Moves
  <1>14. CASE RtPut(hk)
    BY <1>1, <1>14 DEF RtPut, Moves
  <1> QED BY <1>5, <1>6, <1>7, <1>8, <1>9, <1>10, <1>11, <1>12, <1>13, <1>14 DEF HandleTask

\* How a task changes the fields: data the miner used, or what it writes back.
LEMMA TaskFields ==
  ASSUME Ctrl, NEW hk \in Hotkey, Moves(hk), NEW k \in Hotkey, NEW h \in Hash
  PROVE  \/ /\ field'[k][h] = None <=> field[k][h] = None
            /\ k # hk \/ h # task[hk].hash => field'[k][h] = field[k][h]
         \/ /\ task[hk].pc \in {"ck_put", "rt_put"} /\ k = hk /\ h = task[hk].hash
            /\ field'[k][h] = task[hk].seed
  <1>0. Types /\ field[k] \in [Hash -> Seed \cup {None}] /\ field \in [Hotkey -> [Hash -> Seed \cup {None}]]
    BY DEF Ctrl, Types, FieldSet
  <1>1. CASE field' = Used(hk) \/ field' = field
    BY <1>0, <1>1, AgedCells DEF Used
  <1>2. CASE task[hk].pc \in {"ck_put", "rt_put"} /\ SetField(hk, task[hk].hash, task[hk].seed)
    BY <1>0, <1>2 DEF SetField
  <1> QED BY <1>1, <1>2 DEF Moves

WithSeed == {"ck_put", "rt_wait", "rt_data", "rt_put"}

Stored ==
  /\ StoredOnly
  /\ \A hk \in Hotkey, h \in Hash : ttl[hk][h] # None => h \in miner[hk]
  /\ \A hk \in Hotkey : task[hk].pc \in {"ck_put", "rt_put"} => task[hk].hash \in miner[hk]
  /\ \A hk \in Hotkey : task[hk].pc \in WithSeed => task[hk].seed # None
  /\ \A hk \in Hotkey : fwd.sent[hk] => fwd.hash \in miner[hk]
  /\ fwd.pc = "put_ttl" => fwd.hash \in miner[fwd.hk]
  /\ api.hk # None => api.hash \in miner[api.hk]

LEMMA StoredStop ==
  ASSUME Ctrl, Stored, NEW pc \in {"dead", "killed"}, Stop(pc), UNCHANGED <<api, miner>>
  PROVE  Stored'
  <1>1. fwd' = [Begin EXCEPT !.pc = pc] /\ task' = [hk \in Hotkey |-> Idle] /\ ttl' = ttl
    BY DEF Stop
  <1>2. fwd'.pc = pc /\ \A hk \in Hotkey : ~ fwd'.sent[hk]
    BY <1>1, BeginOK
  <1>3. \A hk \in Hotkey : task'[hk].pc = "idle"
    BY <1>1 DEF Idle
  <1>4. \A hk \in Hotkey, h \in Hash : field'[hk][h] = None <=> field[hk][h] = None
    BY AgedCells DEF Stop, Ctrl
  <1> QED BY <1>1, <1>2, <1>3, <1>4 DEF Stored, StoredOnly, WithSeed

LEMMA StoredSend ==
  ASSUME Ctrl, Stored, Send
  PROVE  Stored'
  <1>0. PICK h \in Hash, stored \in SUBSET env.neurons :
          \E ok \in Verified(stored) : StoreSend(h, stored, ok)
    BY DEF Send
  <1>1. PICK ok \in Verified(stored) : StoreSend(h, stored, ok)
    BY <1>0
  <1>2. /\ fwd.pc = "store" /\ fwd'.pc = "put_data" /\ fwd'.hash = h
        /\ \A hk \in Hotkey : fwd'.sent[hk] <=> hk \in ok
    BY <1>1 DEF StoreSend, At, Ctrl, Types, FwdSet
  <1>3. \A hk \in Hotkey : task[hk].pc = "idle"
    BY <1>2 DEF Ctrl, TasksOK, Live
  <1>4. \A hk \in Hotkey, d \in Hash : field'[hk][d] = None <=> field[hk][d] = None
    BY <1>1, AgedCells DEF StoreSend, Ctrl
  <1>5. /\ \A hk \in ok : hk \in Hotkey => h \in miner'[hk]
        /\ \A hk \in Hotkey, d \in Hash : d \in miner[hk] /\ (d # h \/ fwd.reb) => d \in miner'[hk]
    BY <1>1 DEF StoreSend, Verified
  <1>6. fwd.reb \/ (h \in Rand /\ \A hk \in Hotkey : field[hk][h] = None /\ ttl[hk][h] = None)
    BY <1>1 DEF StoreSend, Payload, Unused
  <1>7. UNCHANGED <<ttl, task, api>>
    BY <1>1 DEF StoreSend
  <1>8. api.hk # None => api.hash \in miner'[api.hk]
    <2>1. api.hk # None => api.hk \in Hotkey /\ api.hash \in Chunk /\ api.hash \in miner[api.hk]
      BY DEF Ctrl, Types, ApiSet, OthersOK, Stored
    <2> QED BY <2>1, <1>5, <1>6, Names DEF Hash
  <1>9. StoredOnly' /\ \A hk \in Hotkey, d \in Hash : ttl[hk][d] # None => d \in miner'[hk]
    BY <1>4, <1>5, <1>6 DEF Stored, StoredOnly, WithSeed
  <1> QED BY <1>2, <1>3, <1>5, <1>7, <1>8, <1>9 DEF Stored, WithSeed

LEMMA StoredTask ==
  ASSUME Ctrl, Stored, NEW hk \in Hotkey, HandleTask(hk)
  PROVE  Stored'
  <1>1. CASE Stop("dead") /\ Raises(hk)
    <2>1. UNCHANGED <<api, miner>>
      BY TaskSteps
    <2> QED BY <1>1, <2>1, StoredStop
  <1>2. CASE Moves(hk) /\ Frame /\ \A k \in Hotkey \ {hk} : task'[k] = task[k]
    <2>1. \A k \in Hotkey, h \in Hash :
            field'[k][h] # None => field[k][h] # None \/ h \in miner[k]
      BY <1>2, TaskFields DEF Stored
    <2>2. task'[hk].pc \in {"ck_put", "rt_put"} => task'[hk].hash \in miner[hk]
      <3>1. task[hk].pc \in WithHash => task[hk].hash \in Hash
        BY DEF Ctrl, TasksOK
      <3> QED BY <1>2, <3>1 DEF Moves, Has, Stored, StoredOnly, WithHash
    <2>3. fwd'.sent = fwd.sent /\ fwd'.hash = fwd.hash /\ fwd'.pc = fwd.pc /\ fwd'.hk = fwd.hk
      BY <1>2 DEF Frame, Ctrl, Types, FwdSet
    <2>4. task'[hk].pc \in WithSeed => task'[hk].seed # None
      BY <1>2, Names DEF Moves, Stored, WithSeed
    <2> QED BY <1>2, <2>1, <2>2, <2>3, <2>4 DEF Frame, Stored, StoredOnly
  <1> QED BY <1>1, <1>2, TaskMoves

\* What the loops that delete do.
LEMMA Deletions ==
  ASSUME Ctrl, NEW cell \in Cell, PurgeField(cell) \/ ScriptField(cell) \/ DropData \/ DropTtl
  PROVE  /\ \E k \in Hotkey, c \in Cell : Hdel(k, c)
         /\ UNCHANGED <<task, api, miner, open, env>>
         /\ \/ UNCHANGED fwd
            \/ /\ \A hk \in Hotkey : ~ fwd.sent[hk] /\ ~ fwd'.sent[hk]
               /\ fwd'.pc # "put_ttl"
  <1> USE DEF redis, fixed
  <1>0. fwd \in FwdSet /\ FwdOK /\ OthersOK
    BY DEF Ctrl, Types
  <1>1. CASE PurgeField(cell)
    BY <1>0, <1>1 DEF PurgeField, At, FwdSet, FwdOK, AtHotkey
  <1>2. CASE ScriptField(cell)
    BY <1>0, <1>2 DEF ScriptField, OthersOK
  <1>3. CASE DropData
    <2>1. fwd.hk \in Hotkey /\ <<"data", fwd.hash>> \in Cell
      BY <1>0, <1>3 DEF DropData, At, FwdOK, AtHotkey, AtHash, Cell
    <2> QED BY <1>0, <1>3, <2>1 DEF DropData, At, Goto, FwdSet, FwdOK
  <1>4. CASE DropTtl
    <2>1. fwd.hk \in Hotkey /\ <<"ttl", fwd.hash>> \in Cell
      BY <1>0, <1>4 DEF DropTtl, At, FwdOK, AtHotkey, AtHash, Cell
    <2> QED BY <1>0, <1>4, <2>1 DEF DropTtl, At, FwdSet, FwdOK
  <1> QED BY <1>1, <1>2, <1>3, <1>4

LEMMA StoredNext ==
  ASSUME Ctrl, Ctrl', Stored, [Next]_vars
  PROVE  Stored'
  <1> USE DEF redis, fixed
  <1>0. fwd \in FwdSet /\ api \in ApiSet /\ Types /\ FwdOK
    BY DEF Ctrl, Types
  <1>1. CASE UNCHANGED vars
    BY <1>1 DEF vars, Stored, StoredOnly
  <1>2. CASE FwdOnly
    <2>1. /\ UNCHANGED <<field, ttl, task, api, miner>>
          /\ fwd'.pc # "put_ttl" /\ \A hk \in Hotkey : ~ fwd'.sent[hk]
      BY <1>2, FwdOnlyFrame, FwdOnlyQuiet DEF AtHash
    <2> QED BY <2>1 DEF Stored, StoredOnly, WithSeed
  <1>3. CASE Start
    <2>2. PICK pc \in {"challenge", "retrieve"}, first \in {"ck_keys", "rt_keys"},
               asked \in SUBSET Hotkey : StartBatch(pc, first, asked)
      BY <1>3, StartIs DEF Ctrl
    <2>3. \A hk \in Hotkey : task'[hk].pc \notin {"ck_put", "rt_put"} \cup WithSeed
      BY <2>2 DEF StartBatch, Idle, WithSeed
    <2>4. /\ UNCHANGED <<field, ttl, api, miner>>
          /\ fwd'.pc # "put_ttl" /\ fwd'.sent = fwd.sent /\ fwd'.hash = fwd.hash
      BY <1>0, <2>2 DEF StartBatch, FwdSet
    <2> QED BY <2>3, <2>4 DEF Stored, StoredOnly, WithSeed
  <1>4. ASSUME NEW hk \in Hotkey, PutData(hk) PROVE Stored'
    <2>1. /\ fwd.pc = "put_data" /\ fwd'.pc = "put_ttl" /\ fwd'.hk = hk /\ fwd'.hash = fwd.hash
          /\ fwd.sent[hk] /\ \A k \in Hotkey : fwd'.sent[k] => fwd.sent[k]
      BY <1>0, <1>4 DEF PutData, At, FwdSet
    <2>2. UNCHANGED <<ttl, task, api, miner>>
      BY <1>4 DEF PutData
    <2>3. \A k \in Hotkey, h \in Hash : field'[k][h] # field[k][h] => k = hk /\ h = fwd.hash
      BY <1>0, <1>4 DEF PutData, SetField, Types, FieldSet
    <2> QED BY <2>1, <2>2, <2>3 DEF Stored, StoredOnly, WithSeed
  <1>5. CASE PutTtl
    <2>1. /\ fwd.pc = "put_ttl" /\ fwd'.pc = "put_data" /\ fwd'.hash = fwd.hash /\ fwd'.sent = fwd.sent
      BY <1>0, <1>5 DEF PutTtl, At, Goto, FwdSet
    <2>2. UNCHANGED <<field, task, api, miner>>
      BY <1>5 DEF PutTtl
    <2>3. \A k \in Hotkey, h \in Hash : ttl'[k][h] # ttl[k][h] => k = fwd.hk /\ h = fwd.hash
      BY <1>0, <1>5 DEF PutTtl, SetTtl, Types, TtlSet
    <2> QED BY <2>1, <2>2, <2>3 DEF Stored, StoredOnly, WithSeed
  <1>6. ASSUME NEW cell \in Cell, PurgeField(cell) \/ ScriptField(cell) \/ DropData \/ DropTtl
        PROVE  Stored'
    <2>1. /\ \A k \in Hotkey, h \in Hash : field'[k][h] # None => field[k][h] # None
          /\ \A k \in Hotkey, h \in Hash : ttl'[k][h] # None => ttl[k][h] # None
      <3>1. PICK k \in Hotkey, c \in Cell : Hdel(k, c)
        BY <1>6, Deletions
      <3> QED BY <1>0, <3>1, HdelCells
    <2> QED BY <1>6, <2>1, Deletions DEF Stored, StoredOnly, WithSeed
  <1>7. ASSUME NEW h \in Hash, CheckTtl(h) PROVE Stored'
    <2>1. CASE Stop("dead")
      BY <1>7, <2>1, StoredStop DEF CheckTtl
    <2>2. CASE /\ UNCHANGED <<field, ttl, task, api, miner>>
               /\ fwd'.sent = fwd.sent /\ fwd'.pc # "put_ttl" /\ fwd.pc = "check"
      BY <1>0, <2>2 DEF Stored, StoredOnly, WithSeed, FwdOK
    <2> QED BY <1>0, <1>7, <2>1, <2>2 DEF CheckTtl, At, FwdSet
  <1>8. CASE Kill
    BY <1>8, StoredStop DEF Kill
  <1>9. ASSUME NEW hk \in env.neurons, NEW c \in Chunk, ApiData(hk, c) PROVE Stored'
    <2>1. hk \in Hotkey /\ c \in Hash
      BY Environment, <1>0 DEF Hash
    <2>2. /\ \A k \in Hotkey, h \in Hash : field'[k][h] # field[k][h] => k = hk /\ h = c
          /\ \A k \in Hotkey : miner[k] \subseteq miner'[k]
          /\ c \in miner'[hk] /\ api'.hk = hk /\ api'.hash = c
      BY <1>0, <1>9, <2>1 DEF ApiData, SetField, Types, FieldSet
    <2>3. fwd.pc = "put_ttl" => fwd.hk \in Hotkey
      BY <1>0 DEF FwdOK, AtHotkey
    <2>4. UNCHANGED <<ttl, fwd, task>>
      BY <1>9 DEF ApiData
    <2> QED BY <2>1, <2>2, <2>3, <2>4 DEF Stored, StoredOnly, WithSeed
  <1>10. CASE ApiTtl
    <2>1. \A k \in Hotkey, h \in Hash : ttl'[k][h] # ttl[k][h] => k = api.hk /\ h = api.hash
      BY <1>0, <1>10 DEF ApiTtl, SetTtl, Types, TtlSet
    <2>2. UNCHANGED <<field, fwd, task, miner>> /\ api'.hk = None
      BY <1>10 DEF ApiTtl
    <2> QED BY <1>10, <2>1, <2>2 DEF Stored, StoredOnly, WithSeed, ApiTtl
  <1>11. ASSUME NEW hk \in Hotkey, NEW h \in Hash, Expire(hk, h) PROVE Stored'
    <2>1. \A k \in Hotkey, d \in Hash : ttl'[k][d] # None => ttl[k][d] # None
      BY <1>0, <1>11, Names DEF Expire, SetTtl, Types, TtlSet
    <2> QED BY <1>11, <2>1 DEF Expire, Stored, StoredOnly
  <1>12. ASSUME Script PROVE Stored' \/ \E cell \in Cell : ScriptField(cell)
    <2>1. UNCHANGED <<field, ttl, fwd, task, api, miner>> \/ \E cell \in Cell : ScriptField(cell)
      BY <1>12 DEF Script, ScriptStart, ScriptHotkey, ScriptPurge, ScriptEnd
    <2>2. UNCHANGED <<field, ttl, fwd, task, api, miner>> => Stored'
      BY DEF Stored, StoredOnly, WithSeed
    <2> QED BY <2>1, <2>2
  <1>13. CASE Api
    BY <1>9, <1>10, <1>13 DEF Api
  <1>14. <<"ttl", Empty>> \in Cell
    BY Names DEF Cell, Hash
  <1>15. CASE Next
    BY <1>2, <1>3, <1>4, <1>5, <1>6, <1>7, <1>8, <1>11, <1>12, <1>13, <1>14, <1>15, Steps,
       StoredSend, StoredTask
  <1> QED BY <1>1, <1>15

\* A miner is never challenged for, or asked for, what nobody proved it stored
\* (add_metadata_to_hotkey after verify_store_with_seed, and the writes back of
\* handle_challenge and handle_retrieve).
THEOREM RecordedIsStored == Spec => []StoredOnly
  <1>1. Init => Ctrl /\ Stored
    BY InitCtrl DEF Init, Stored, StoredOnly, Begin, Idle, WithSeed
  <1>2. Ctrl /\ Stored /\ [Next]_vars => Ctrl' /\ Stored'
    BY NextCtrl, StoredNext
  <1>3. Stored => StoredOnly
    BY DEF Stored
  <1> QED BY <1>1, <1>2, <1>3, PTL DEF Spec

\* The types of the records, the hashes and the hotkeys, at every step.
THEOREM DataTypes == Spec => []TypeOK
  <1>1. Ctrl => TypeOK
    BY TypesSuffice DEF Ctrl, OthersOK
  <1> QED BY <1>1, InitCtrl, NextCtrl, PTL DEF Spec

-----------------------------------------------------------------------------
(* The seeds of both ends                                                  *)

Seeds ==
  /\ SeedsAgree
  /\ \A hk \in Hotkey : task[hk].pc = "ck_put" => task[hk].seed = "same"
  /\ \A hk \in Hotkey :
       task[hk].pc \in {"rt_data", "rt_put"} /\ task[hk].hash \in Rand
         => task[hk].seed = "same" \/ <<hk, task[hk].hash>> \in open

LEMMA SeedsStop ==
  ASSUME Ctrl, Seeds, NEW pc \in {"dead", "killed"}, Stop(pc)
  PROVE  Seeds'
  <1>1. task' = [hk \in Hotkey |-> Idle]
    BY DEF Stop
  <1>2. \A hk \in Hotkey : task'[hk].pc = "idle"
    BY <1>1 DEF Idle
  <1>3. SUFFICES ASSUME NEW hk \in Hotkey, NEW h \in Rand,
                        field'[hk][h] # None, <<hk, h>> \notin open'
                 PROVE  field'[hk][h] = "same"
    BY <1>2 DEF Seeds, SeedsAgree
  <1>4. /\ <<hk, h>> \notin open
        /\ ~ (Live(hk) /\ task[hk].hash = h)
        /\ ~ (fwd.sent[hk] /\ fwd.hash = h)
    BY <1>3 DEF Stop
  <1>5. PICK handled \in SUBSET {k \in Hotkey : task[k].pc \in {"ck_wait", "rt_wait"} /\ Has(k)} :
          field' = Aged(handled, [k \in Hotkey |-> task[k].hash])
    BY DEF Stop
  <1>6. hk \notin handled \/ task[hk].hash # h
    BY <1>4, <1>5 DEF Live
  <1>7. field'[hk][h] = field[hk][h]
    BY <1>5, <1>6, AgedCells DEF Ctrl, Hash
  <1>8. ~ Pending(hk, h)
    BY <1>4 DEF Pending, Live
  <1> QED BY <1>3, <1>4, <1>7, <1>8 DEF Seeds, SeedsAgree

LEMMA SeedsSend ==
  ASSUME Ctrl, Seeds, Send
  PROVE  Seeds'
  <1>0. PICK h \in Hash, stored \in SUBSET env.neurons :
          \E ok \in Verified(stored) : StoreSend(h, stored, ok)
    BY DEF Send
  <1>1. PICK ok \in Verified(stored) : StoreSend(h, stored, ok)
    BY <1>0
  <1>2. /\ fwd.pc = "store" /\ fwd'.hash = h /\ task' = task
        /\ \A hk \in Hotkey : fwd'.sent[hk] <=> hk \in ok
    BY <1>1 DEF StoreSend, At, Ctrl, Types, FwdSet
  <1>3. \A hk \in Hotkey : task[hk].pc = "idle" /\ ~ fwd.sent[hk]
    BY <1>2 DEF Ctrl, TasksOK, FwdOK, Live
  <1>4. SUFFICES ASSUME NEW hk \in Hotkey, NEW d \in Rand, field'[hk][d] # None,
                        <<hk, d>> \notin open', ~ Pending(hk, d)'
                 PROVE  field'[hk][d] = "same"
    BY <1>2, <1>3 DEF Seeds, SeedsAgree
  <1>5. ~ Pending(hk, d)
    BY <1>3 DEF Pending
  <1>6. field' = Aged(stored, [k \in Hotkey |-> h]) /\ ok \subseteq stored
    BY <1>1 DEF StoreSend, Verified
  <1>7. CASE d # h
    <2>1. field'[hk][d] = field[hk][d]
      BY <1>6, <1>7, AgedCells DEF Ctrl, Hash
    <2>2. <<hk, d>> \notin open
      BY <1>1, <1>4, <1>7 DEF StoreSend
    <2> QED BY <1>4, <1>5, <2>1, <2>2 DEF Seeds, SeedsAgree
  <1>8. CASE d = h
    <2>1. hk \notin ok
      BY <1>2, <1>4, <1>8 DEF Pending
    <2>2. hk \notin stored
      BY <1>1, <1>4, <1>8, <2>1 DEF StoreSend, Doubt
    <2>3. field'[hk][d] = field[hk][d]
      BY <1>6, <2>2, AgedCells DEF Ctrl, Hash
    <2>4. fwd.reb
      BY <1>1, <1>4, <1>8, <2>3 DEF StoreSend, Payload, Unused
    <2>5. <<hk, d>> \notin open
      BY <1>1, <1>4, <1>8, <2>1, <2>4 DEF StoreSend
    <2> QED BY <1>4, <1>5, <2>3, <2>5 DEF Seeds, SeedsAgree
  <1> QED BY <1>7, <1>8

LEMMA SeedsMove ==
  ASSUME Ctrl, Seeds, NEW hk \in Hotkey, Moves(hk), \A k \in Hotkey \ {hk} : task'[k] = task[k],
         fwd'.sent = fwd.sent, fwd'.hash = fwd.hash
  PROVE  Seeds'
  <1> DEFINE h == task[hk].hash
  <1>0. task[hk].pc \in WithHash => h \in Hash
    BY DEF Ctrl, TasksOK
  <1>1. \A pair \in Hotkey \X Rand : pair # <<hk, h>> => (pair \in open' <=> pair \in open)
    BY DEF Moves, Exchange, Doubt
  <1>2. ASSUME NEW k \in Hotkey, NEW d \in Rand, field'[k][d] # None, <<k, d>> \notin open',
               ~ Pending(k, d)'
        PROVE  field'[k][d] = "same"
    <2>1. CASE k # hk \/ d # h
      <3>1. field'[k][d] = field[k][d]
        BY <2>1, TaskFields DEF Hash
      <3>2. <<k, d>> \notin open
        BY <1>1, <1>2, <2>1
      <3>3. ~ Pending(k, d)
        BY <1>2, <2>1 DEF Pending
      <3> QED BY <1>2, <3>1, <3>2, <3>3 DEF Seeds, SeedsAgree
    <2>2. CASE k = hk /\ d = h
      <3>1. ~ (fwd.sent[hk] /\ fwd.hash = h)
        BY <1>2, <2>2 DEF Pending
      <3>2. CASE task[hk].pc \in {"ck_put", "rt_put"}
        <4>1. field'[hk][h] = task[hk].seed /\ open' = open
          BY <2>2, <3>2, <1>0 DEF Moves, SetField, Ctrl, Types, FieldSet, WithHash
        <4> QED BY <1>2, <2>2, <3>2, <4>1 DEF Seeds
      <3>3. CASE task[hk].pc \in {"ck_keys", "rt_keys", "ck_data"}
        <4>1. UNCHANGED <<field, open>> /\ ~ Pending(hk, h)
          BY <3>1, <3>3 DEF Moves, Pending
        <4> QED BY <1>2, <2>2, <4>1 DEF Seeds, SeedsAgree
      <3>4. CASE task[hk].pc = "ck_wait"
        <4>1. task'[hk].pc # "ck_put"
          BY <1>2, <2>2, <3>4 DEF Moves, Pending
        <4>2. open' = open \cup Doubt(Exchange(hk))
          BY <3>4, <4>1 DEF Moves
        <4> QED BY <1>2, <2>2, <4>2 DEF Doubt, Exchange
      <3>5. CASE task[hk].pc \in {"rt_wait", "rt_data"}
        BY <1>2, <2>2, <3>5 DEF Moves, Pending
      <3> QED BY <3>2, <3>3, <3>4, <3>5 DEF Moves
    <2> QED BY <2>1, <2>2
  <1>3. ASSUME NEW k \in Hotkey
        PROVE  /\ task'[k].pc = "ck_put" => task'[k].seed = "same"
               /\ task'[k].pc \in {"rt_data", "rt_put"} /\ task'[k].hash \in Rand
                    => task'[k].seed = "same" \/ <<k, task'[k].hash>> \in open'
    <2>1. CASE k # hk
      BY <1>1, <2>1 DEF Seeds
    <2>2. CASE k = hk
      BY <2>2 DEF Moves, Seeds, Doubt, Exchange
    <2> QED BY <2>1, <2>2
  <1> QED BY <1>2, <1>3 DEF Seeds, SeedsAgree

LEMMA SeedsTask ==
  ASSUME Ctrl, Seeds, NEW hk \in Hotkey, HandleTask(hk)
  PROVE  Seeds'
  <1>1. CASE Stop("dead")
    BY <1>1, SeedsStop
  <1>2. CASE Moves(hk) /\ Frame /\ \A k \in Hotkey \ {hk} : task'[k] = task[k]
    <2>1. fwd'.sent = fwd.sent /\ fwd'.hash = fwd.hash
      BY <1>2 DEF Frame, Ctrl, Types, FwdSet
    <2> QED BY <1>2, <2>1, SeedsMove
  <1> QED BY <1>1, <1>2, TaskMoves

\* Steps that only take fields away, or none.
LEMMA SeedsLess ==
  ASSUME Ctrl, Seeds, UNCHANGED <<task, open>>,
         \A hk \in Hotkey, h \in Rand : field'[hk][h] = field[hk][h] \/ field'[hk][h] = None,
         \/ fwd'.sent = fwd.sent /\ fwd'.hash = fwd.hash
         \/ \A hk \in Hotkey : ~ fwd.sent[hk] /\ ~ fwd'.sent[hk]
  PROVE  Seeds'
  <1>1. \A hk \in Hotkey, h \in Rand : Pending(hk, h)' <=> Pending(hk, h)
    BY DEF Pending
  <1> QED BY <1>1 DEF Seeds, SeedsAgree

LEMMA SeedsNext ==
  ASSUME Ctrl, Seeds, [Next]_vars
  PROVE  Seeds'
  <1> USE DEF redis, fixed
  <1>0. fwd \in FwdSet /\ api \in ApiSet /\ Types /\ FwdOK /\ \A h \in Rand : h \in Hash
    BY DEF Ctrl, Types, Hash
  <1>1. CASE UNCHANGED vars
    BY <1>1, SeedsLess DEF vars
  <1>2. CASE FwdOnly
    BY <1>2, FwdOnlyFrame, FwdOnlyQuiet, SeedsLess
  <1>3. CASE Start
    <2>2. PICK pc \in {"challenge", "retrieve"}, first \in {"ck_keys", "rt_keys"},
               asked \in SUBSET Hotkey : StartBatch(pc, first, asked)
      BY <1>3, StartIs DEF Ctrl
    <2>3. \A hk \in Hotkey : task'[hk].pc \notin {"ck_put", "rt_data", "rt_put"}
      BY <2>2 DEF StartBatch, Idle
    <2>4. \A hk \in Hotkey : task[hk].pc = "idle"
      BY <2>2 DEF StartBatch, At, Ctrl, TasksOK, Live
    <2>5. UNCHANGED <<field, open>> /\ fwd'.sent = fwd.sent /\ fwd'.hash = fwd.hash
      BY <1>0, <2>2 DEF StartBatch, FwdSet
    <2>6. \A hk \in Hotkey, h \in Rand : Pending(hk, h)' <=> Pending(hk, h)
      BY <2>3, <2>4, <2>5 DEF Pending
    <2> QED BY <2>3, <2>5, <2>6 DEF Seeds, SeedsAgree
  <1>4. ASSUME NEW hk \in Hotkey, PutData(hk) PROVE Seeds'
    <2>1. /\ fwd'.hash = fwd.hash
          /\ \A k \in Hotkey \ {hk} : fwd'.sent[k] = fwd.sent[k]
      BY <1>0, <1>4 DEF PutData, At, FwdSet
    <2>2. UNCHANGED <<task, open>>
      BY <1>4 DEF PutData
    <2>3. \A k \in Hotkey, h \in Rand :
            field'[k][h] = IF k = hk /\ h = fwd.hash THEN "same" ELSE field[k][h]
      BY <1>0, <1>4 DEF PutData, SetField, Types, FieldSet
    <2>4. \A k \in Hotkey, h \in Rand :
            k # hk \/ h # fwd.hash => (Pending(k, h)' <=> Pending(k, h))
      BY <2>1, <2>2 DEF Pending
    <2> QED BY <2>2, <2>3, <2>4 DEF Seeds, SeedsAgree
  <1>5. CASE PutTtl
    <2>1. fwd'.hash = fwd.hash /\ fwd'.sent = fwd.sent
      BY <1>0, <1>5 DEF PutTtl, Goto, FwdSet
    <2> QED BY <1>5, <2>1, SeedsLess DEF PutTtl
  <1>6. ASSUME NEW cell \in Cell, PurgeField(cell) \/ ScriptField(cell) \/ DropData \/ DropTtl
        PROVE  Seeds'
    <2>1. PICK k \in Hotkey, c \in Cell : Hdel(k, c)
      BY <1>6, Deletions
    <2>2. \A hk \in Hotkey, h \in Rand : field'[hk][h] = field[hk][h] \/ field'[hk][h] = None
      BY <1>0, <2>1, HdelCells
    <2> QED BY <1>6, <2>2, Deletions, SeedsLess
  <1>7. ASSUME NEW h \in Hash, CheckTtl(h) PROVE Seeds'
    <2>1. CASE Stop("dead")
      BY <2>1, SeedsStop
    <2>2. CASE UNCHANGED <<field, task, open>> /\ fwd'.sent = fwd.sent /\ fwd.pc = "check"
      BY <1>0, <2>2, SeedsLess DEF FwdOK
    <2> QED BY <1>0, <1>7, <2>1, <2>2 DEF CheckTtl, At, FwdSet
  <1>8. CASE Kill
    BY <1>8, SeedsStop DEF Kill
  <1>9. ASSUME NEW hk, NEW c \in Chunk, ApiData(hk, c) PROVE Seeds'
    <2>1. \A k \in Hotkey, h \in Rand : field'[k][h] = field[k][h]
      BY <1>0, <1>9, Names DEF ApiData, SetField, Types, FieldSet
    <2> QED BY <1>9, <2>1, SeedsLess DEF ApiData
  <1>10. CASE ApiTtl
    BY <1>10, SeedsLess DEF ApiTtl
  <1>11. ASSUME NEW hk \in Hotkey, NEW h \in Hash, Expire(hk, h) PROVE Seeds'
    BY <1>11, SeedsLess DEF Expire
  <1>12. ASSUME Script PROVE Seeds' \/ \E cell \in Cell : ScriptField(cell)
    <2>1. UNCHANGED <<field, fwd, task, open>> \/ \E cell \in Cell : ScriptField(cell)
      BY <1>12 DEF Script, ScriptStart, ScriptHotkey, ScriptPurge, ScriptEnd
    <2> QED BY <2>1, SeedsLess
  <1>13. CASE Api
    BY <1>9, <1>10, <1>13 DEF Api
  <1>14. <<"ttl", Empty>> \in Cell
    BY Names DEF Cell, Hash
  <1>15. CASE Next
    BY <1>2, <1>3, <1>4, <1>5, <1>6, <1>7, <1>8, <1>11, <1>12, <1>13, <1>14, <1>15, Steps,
       SeedsSend, SeedsTask
  <1> QED BY <1>1, <1>15

\* The seed recorded for random data is the one the miner used last, unless an
\* exchange was not verified: what success, handle_challenge and handle_retrieve
\* write, whatever is purged or killed between the answer and the write.
THEOREM BothEndsAgree == Spec => []SeedsAgree
  <1>1. Init => Ctrl /\ Seeds
    BY InitCtrl, Names DEF Init, Seeds, SeedsAgree, Idle, Hash
  <1>2. Ctrl /\ Seeds /\ [Next]_vars => Ctrl' /\ Seeds'
    BY NextCtrl, SeedsNext
  <1>3. Seeds => SeedsAgree
    BY DEF Seeds
  <1> QED BY <1>1, <1>2, <1>3, PTL DEF Spec

-----------------------------------------------------------------------------
(* What can make forward raise                                             *)

LEMMA HurtGrows ==
  ASSUME Next
  PROVE  env' = env /\ hurt \subseteq hurt'
  <1> USE DEF redis, fixed
  <1>1. CASE FwdOnly
    BY <1>1, FwdOnlyFrame
  <1>2. CASE Send \/ Start
    BY <1>2 DEF Send, Start, StoreSend, ChallengeData, RetrieveData, StartBatch
  <1>3. CASE PutTtl \/ DropData \/ DropTtl \/ Kill
    BY <1>3 DEF PutTtl, DropData, DropTtl, Kill
  <1>4. CASE Api \/ \E hk \in Hotkey, h \in Hash : Expire(hk, h)
    BY <1>4 DEF Api, ApiData, ApiTtl, Expire
  <1>5. CASE Script
    BY <1>5 DEF Script, ScriptStart, ScriptHotkey, ScriptPurge, ScriptField, ScriptEnd
  <1>6. ASSUME NEW hk \in Hotkey, PutData(hk) PROVE env' = env /\ hurt \subseteq hurt'
    BY <1>6 DEF PutData
  <1>7. ASSUME NEW hk \in Hotkey, HandleTask(hk) PROVE env' = env /\ hurt \subseteq hurt'
    BY <1>7 DEF HandleTask, CkKeys, CkData, CkVerified, CkFailed, CkPut, RtKeys, RtAnswered,
                RtFailed, RtData, RtPut
  <1>8. CASE \/ \E cell \in Cell : PurgeField(cell)
             \/ \E h \in Hash : CheckTtl(h)
    BY <1>8 DEF PurgeField, CheckTtl
  <1> QED BY <1>1, <1>2, <1>3, <1>4, <1>5, <1>6, <1>7, <1>8, Steps

Excused == "script" \in env.others /\ hurt # {}

Expiring == {"check", "drop_data", "drop_ttl"}

Survives ==
  /\ ~ At("dead")
  /\ \A hk \in Hotkey : task[hk].pc = "ck_data" => field[hk][task[hk].hash] # None
  /\ \A hk \in Hotkey : task[hk].pc = "rt_keys" => Keys(hk) # {}
  /\ fwd.pc \in Expiring =>
       \A h \in Hash : <<"ttl", h>> \in fwd.left => ttl[fwd.hk][h] # None
  /\ fwd.pc \in {"drop_data", "drop_ttl"} => <<"ttl", fwd.hash>> \notin fwd.left

\* Only ExpireHotkey leads into the loop over the times to live.
LEMMA FwdOnlyElsewhere ==
  ASSUME Types, FwdOnly
  PROVE  \/ fwd'.pc \notin Expiring \cup {"dead"}
         \/ \E hk \in Hotkey : ExpireHotkey(hk)
  <1> USE DEF FwdSet, Goto, AfterStore, Expiring
  <1>0. fwd \in FwdSet
    BY DEF Types
  <1>1. CASE StoreNothing \/ StoreEnd \/ ChallengeEnd \/ NoRetrieve \/ RetrieveEnd
    <2>1. CASE StoreNothing
      BY <1>0, <2>1 DEF StoreNothing
    <2>2. CASE StoreEnd
      BY <1>0, <2>2 DEF StoreEnd
    <2>3. CASE ChallengeEnd \/ NoRetrieve \/ RetrieveEnd
      BY <1>0, <2>3 DEF ChallengeEnd, NoRetrieve, RetrieveEnd, BatchEnd
    <2> QED BY <1>1, <2>1, <2>2, <2>3
  <1>2. ASSUME NEW down, Monitor(down) PROVE fwd'.pc \notin Expiring \cup {"dead"}
    BY <1>0, <1>2 DEF Monitor
  <1>3. ASSUME NEW hk, RebalanceHotkey(hk) \/ PurgeHotkey(hk)
        PROVE  fwd'.pc \notin Expiring \cup {"dead"}
    BY <1>0, <1>3 DEF RebalanceHotkey, PurgeHotkey, At
  <1>4. ASSUME NEW h, RebalanceHash(h) PROVE fwd'.pc \notin Expiring \cup {"dead"}
    BY <1>0, <1>4 DEF RebalanceHash
  <1>5. CASE RebalanceEnd \/ EpochPurge \/ NoEpochPurge \/ PurgedHotkey \/ PurgeEnd
    BY <1>0, <1>5 DEF RebalanceEnd, EpochPurge, NoEpochPurge, PurgedHotkey, PurgeEnd
  <1>6. CASE TtlPurge \/ ExpiredHotkey
    BY <1>0, <1>6 DEF TtlPurge, ExpiredHotkey
  <1>7. CASE NoTtlPurge \/ ExpireEnd \/ Restart
    BY <1>7 DEF NoTtlPurge, ExpireEnd, Restart, Begin
  <1> QED BY <1>1, <1>2, <1>3, <1>4, <1>5, <1>6, <1>7 DEF FwdOnly

LEMMA SurvivesFwdOnly ==
  ASSUME Ctrl, Survives, FwdOnly
  PROVE  Survives'
  <1>1. UNCHANGED <<field, ttl, task>> /\ \A hk \in Hotkey : task[hk].pc = "idle"
    BY FwdOnlyFrame, FwdOnlyQuiet DEF Live
  <1>2. CASE fwd'.pc \notin Expiring \cup {"dead"}
    BY <1>1, <1>2 DEF Survives, At, Expiring
  <1>3. ASSUME NEW hk \in Hotkey, ExpireHotkey(hk) PROVE Survives'
    <2>1. /\ fwd'.pc = "check" /\ fwd'.hk = hk
          /\ fwd'.left = {cell \in Cells(hk) : cell[1] = "ttl"}
      BY <1>3 DEF ExpireHotkey, Ctrl, Types, FwdSet
    <2>2. \A h \in Hash : <<"ttl", h>> \in fwd'.left => ttl[hk][h] # None
      BY <2>1 DEF Cells, Ttls
    <2> QED BY <1>1, <2>1, <2>2 DEF Survives, At
  <1> QED BY <1>2, <1>3, FwdOnlyElsewhere DEF Ctrl

\* Steps outside the loop that take no field away.
LEMMA SurvivesFrame ==
  ASSUME Ctrl, Survives,
         \A hk \in Hotkey, h \in Hash : field[hk][h] # None => field'[hk][h] # None,
         \A hk \in Hotkey, h \in Hash : ttl[hk][h] # None => ttl'[hk][h] # None,
         UNCHANGED task,
         \/ fwd'.pc \notin Expiring \cup {"dead"}
         \/ UNCHANGED fwd
  PROVE  Survives'
  <1>1. \A hk \in Hotkey : task[hk].pc = "ck_data" => task[hk].hash \in Hash
    BY DEF Ctrl, TasksOK, WithHash
  <1>2. fwd.pc \in Expiring => fwd.hk \in Hotkey
    BY DEF Expiring, Ctrl, FwdOK, AtHotkey
  <1> QED BY <1>1, <1>2 DEF Survives, At, Keys, Expiring

LEMMA SurvivesTask ==
  ASSUME Ctrl, Stored, Survives, NEW hk \in Hotkey, HandleTask(hk)
  PROVE  Survives'
  <1>1. ~ Raises(hk)
    BY DEF Raises, Survives
  <1>2. Moves(hk) /\ Frame /\ \A k \in Hotkey \ {hk} : task'[k] = task[k]
    BY <1>1, TaskMoves
  <1>3. fwd'.pc \in {"challenges", "retrieves"}
    <2>1. Live(hk)
      BY <1>2 DEF Moves, Live
    <2> QED BY <1>2, <2>1 DEF Frame, Ctrl, Types, FwdSet, TasksOK
  <1>4. ASSUME NEW k \in Hotkey, NEW h \in Hash, field[k][h] # None
        PROVE  field'[k][h] # None
    <2>1. task[hk].pc \in {"ck_put", "rt_put"} => task[hk].seed # None
      BY DEF Stored, WithSeed
    <2> QED BY <1>2, <1>4, <2>1, TaskFields
  <1>5. \A k \in Hotkey : task[k].pc = "ck_data" => task[k].hash \in Hash
    BY DEF Ctrl, TasksOK, WithHash
  <1>6. ASSUME NEW k \in Hotkey
        PROVE  /\ task'[k].pc = "ck_data" => field'[k][task'[k].hash] # None
               /\ task'[k].pc = "rt_keys" => Keys(k)' # {}
    <2>1. CASE k # hk
      BY <1>2, <1>4, <1>5, <2>1 DEF Survives, Keys
    <2>2. CASE k = hk
      BY <1>2, <1>4, <2>2 DEF Moves, Keys
    <2> QED BY <2>1, <2>2
  <1> QED BY <1>3, <1>6 DEF Survives, At, Expiring

\* Deletions: the script has not purged, and forward purges with no task under way.
LEMMA SurvivesDelete ==
  ASSUME Ctrl, Survives, script.pc # "delete", NEW cell \in Cell,
         PurgeField(cell) \/ ScriptField(cell) \/ DropData \/ DropTtl
  PROVE  Survives'
  <1>0. fwd \in FwdSet /\ Types
    BY DEF Ctrl, Types
  <1>1. fwd.pc \in {"delete", "drop_data", "drop_ttl"}
    BY DEF PurgeField, ScriptField, DropData, DropTtl, At
  <1>2. \A hk \in Hotkey : task'[hk].pc = "idle"
    BY <1>1, Deletions DEF Ctrl, TasksOK, Live
  <1>3. CASE PurgeField(cell)
    <2>1. fwd'.pc = "delete"
      BY <1>0, <1>3 DEF PurgeField, At, FwdSet
    <2> QED BY <1>2, <2>1 DEF Survives, At, Expiring
  <1>4. CASE DropData
    <2>1. /\ fwd.pc = "drop_data" /\ fwd'.pc = "drop_ttl"
          /\ fwd'.hk = fwd.hk /\ fwd'.hash = fwd.hash /\ fwd'.left = fwd.left
      BY <1>0, <1>4 DEF DropData, At, Goto, FwdSet
    <2>2. ttl' = ttl
      BY <1>4 DEF DropData, Hdel
    <2> QED BY <1>2, <2>1, <2>2 DEF Survives, At, Expiring
  <1>5. CASE DropTtl
    <2>1. /\ fwd.pc = "drop_ttl" /\ fwd'.pc = "check"
          /\ fwd'.hk = fwd.hk /\ fwd'.left = fwd.left
      BY <1>0, <1>5 DEF DropTtl, At, FwdSet
    <2>2. fwd.hk \in Hotkey /\ <<"ttl", fwd.hash>> \in Cell
      BY <2>1 DEF Ctrl, FwdOK, AtHotkey, AtHash, Cell
    <2>3. \A h \in Hash : h # fwd.hash => ttl'[fwd.hk][h] = ttl[fwd.hk][h]
      BY <1>0, <1>5, <2>2, HdelCells DEF DropTtl
    <2>4. <<"ttl", fwd.hash>> \notin fwd.left
      BY <2>1 DEF Survives
    <2> QED BY <1>2, <2>1, <2>3, <2>4 DEF Survives, At, Expiring
  <1> QED BY <1>3, <1>4, <1>5 DEF ScriptField

LEMMA SurvivesCheck ==
  ASSUME Ctrl, Survives, NEW h \in Hash, CheckTtl(h)
  PROVE  Survives'
  <1> DEFINE rest == fwd.left \ {<<"ttl", h>>}
  <1>1. fwd.pc = "check" /\ ttl[fwd.hk][h] # None
    BY DEF CheckTtl, At, Survives, Expiring
  <1>2. /\ UNCHANGED <<field, ttl, task>>
        /\ \/ fwd' = [fwd EXCEPT !.left = rest]
           \/ fwd' = [fwd EXCEPT !.pc = "drop_data", !.left = rest, !.hash = h]
    BY <1>1 DEF CheckTtl, redis
  <1>3. /\ fwd'.hk = fwd.hk /\ fwd'.left = rest
        /\ fwd'.pc = "check" \/ (fwd'.pc = "drop_data" /\ fwd'.hash = h)
    BY <1>1, <1>2 DEF Ctrl, Types, FwdSet
  <1> QED BY <1>1, <1>2, <1>3 DEF Survives, At, Expiring, Keys

LEMMA SurvivesStart ==
  ASSUME Ctrl, Survives, Start
  PROVE  Survives'
  <1>1. PICK uids \in SUBSET env.neurons : ChallengeData(uids) \/ RetrieveData(uids)
    BY DEF Start
  <1>2. /\ UNCHANGED <<field, ttl>> /\ fwd'.pc \in {"challenges", "retrieves"}
    BY <1>1 DEF ChallengeData, RetrieveData, StartBatch, redis, Ctrl, Types, FwdSet
  <1>3. \A hk \in Hotkey : task'[hk].pc # "ck_data"
    BY <1>1 DEF ChallengeData, RetrieveData, StartBatch, Idle
  <1>4. \A hk \in Hotkey : task'[hk].pc = "rt_keys" => Keys(hk) # {}
    BY <1>1 DEF ChallengeData, RetrieveData, StartBatch, Idle, WithMetadata
  <1> QED BY <1>2, <1>3, <1>4 DEF Survives, At, Expiring, Keys

LEMMA SurvivesNext ==
  ASSUME Ctrl, Stored, Excused \/ Survives, [Next]_vars
  PROVE  Excused' \/ Survives'
  <1> USE DEF redis, fixed
  <1>0. fwd \in FwdSet /\ api \in ApiSet /\ Types
    BY DEF Ctrl, Types
  <1>1. CASE UNCHANGED vars
    BY <1>1 DEF vars, Excused, Survives, At, Keys
  <1>2. CASE Excused /\ Next
    BY <1>2, HurtGrows DEF Excused
  <1>3. CASE Survives /\ ~ Excused /\ Next
    <2>1. script.pc # "delete"
      BY <1>3 DEF Ctrl, OthersOK, Excused
    <2>2. ASSUME \/ Send \/ PutTtl \/ Script \/ Api
                 \/ \E hk \in Hotkey : PutData(hk)
                 \/ \E hk \in Hotkey, h \in Hash : Expire(hk, h)
          PROVE  Survives'
      <3>1. CASE Send
        <4>0. PICK h \in Hash, stored \in SUBSET env.neurons :
                \E ok \in Verified(stored) : StoreSend(h, stored, ok)
          BY <3>1 DEF Send
        <4>1. PICK ok \in Verified(stored) : StoreSend(h, stored, ok)
          BY <4>0
        <4>2. fwd'.pc = "put_data" /\ UNCHANGED <<ttl, task>>
          BY <1>0, <4>1 DEF StoreSend, FwdSet
        <4>3. \A hk \in Hotkey, d \in Hash : field[hk][d] # None => field'[hk][d] # None
          BY <1>0, <4>1, AgedCells DEF StoreSend
        <4> QED BY <1>3, <4>2, <4>3, SurvivesFrame DEF Expiring
      <3>2. CASE PutTtl
        <4>1. \A hk \in Hotkey, h \in Hash : ttl[hk][h] # None => ttl'[hk][h] # None
          BY <1>0, <3>2, Names DEF PutTtl, SetTtl, Types, TtlSet
        <4>2. fwd'.pc = "put_data" /\ UNCHANGED <<field, task>>
          BY <1>0, <3>2 DEF PutTtl, Goto, FwdSet
        <4> QED BY <1>3, <4>1, <4>2, SurvivesFrame DEF Expiring
      <3>3. CASE Script
        BY <1>3, <2>1, <3>3, SurvivesFrame
           DEF Script, ScriptStart, ScriptHotkey, ScriptPurge, ScriptField, ScriptEnd
      <3>4. ASSUME NEW hk, NEW c \in Chunk, ApiData(hk, c) PROVE Survives'
        <4>1. \A k \in Hotkey, h \in Hash : field[k][h] # None => field'[k][h] # None
          BY <1>0, <3>4, Names DEF ApiData, SetField, Types, FieldSet
        <4> QED BY <1>3, <3>4, <4>1, SurvivesFrame DEF ApiData
      <3>5. CASE ApiTtl
        <4>1. \A k \in Hotkey, h \in Hash : ttl[k][h] # None => ttl'[k][h] # None
          BY <1>0, <3>5, Names DEF ApiTtl, SetTtl, Types, TtlSet
        <4> QED BY <1>3, <3>5, <4>1, SurvivesFrame DEF ApiTtl
      <3>6. ASSUME NEW hk \in Hotkey, PutData(hk) PROVE Survives'
        <4>1. \A k \in Hotkey, h \in Hash : field[k][h] # None => field'[k][h] # None
          BY <1>0, <3>6, Names DEF PutData, SetField, Types, FieldSet
        <4>2. fwd'.pc = "put_ttl" /\ UNCHANGED <<ttl, task>>
          BY <1>0, <3>6 DEF PutData, FwdSet
        <4> QED BY <1>3, <4>1, <4>2, SurvivesFrame DEF Expiring
      <3>7. ASSUME NEW hk \in Hotkey, NEW h \in Hash, Expire(hk, h) PROVE Survives'
        <4>1. \A k \in Hotkey, d \in Hash : ttl[k][d] # None => ttl'[k][d] # None
          BY <1>0, <3>7, Names DEF Expire, SetTtl, Types, TtlSet
        <4> QED BY <1>3, <3>7, <4>1, SurvivesFrame DEF Expire
      <3> QED BY <2>2, <3>1, <3>2, <3>3, <3>4, <3>5, <3>6, <3>7 DEF Api
    <2>3. CASE Kill
      <3>1. fwd' = [Begin EXCEPT !.pc = "killed"] /\ task' = [hk \in Hotkey |-> Idle]
        BY <2>3 DEF Kill, Stop
      <3>2. fwd'.pc = "killed" /\ \A hk \in Hotkey : task'[hk].pc = "idle"
        BY <3>1, BeginOK DEF Idle
      <3> QED BY <3>2 DEF Survives, At, Expiring
    <2>4. <<"ttl", Empty>> \in Cell
      BY Names DEF Cell, Hash
    <2> QED BY <1>3, <2>1, <2>2, <2>3, <2>4, Steps, SurvivesFwdOnly, SurvivesTask,
               SurvivesDelete, SurvivesCheck, SurvivesStart
  <1> QED BY <1>1, <1>2, <1>3

\* forward only raises when the script has purged under it: no purge of its own,
\* nor the API node, takes away what a task or a loop has read (get_metadata of
\* handle_challenge, hkeys of handle_retrieve, is_ttl_expired_for_hash_and_hotkey).
THEOREM OnlyTheScriptKills == Spec => []LoopSurvives
  <1>1. Init => Ctrl /\ Stored /\ (Excused \/ Survives)
    <2>1. Init => Ctrl /\ Stored
      BY InitCtrl DEF Init, Stored, StoredOnly, Begin, Idle, WithSeed
    <2>2. Init => Survives
      BY DEF Init, Survives, Begin, Idle, At, Expiring
    <2> QED BY <2>1, <2>2
  <1>2. Ctrl /\ Stored /\ (Excused \/ Survives) /\ [Next]_vars
          => Ctrl' /\ Stored' /\ (Excused \/ Survives)'
    BY NextCtrl, StoredNext, SurvivesNext
  <1>3. Excused \/ Survives => LoopSurvives
    BY DEF Excused, Survives, LoopSurvives
  <1> QED BY <1>1, <1>2, <1>3, PTL DEF Spec

-----------------------------------------------------------------------------
(* Metadata and times to live                                              *)

\* The pair of commands of one hash that has run half.
Dropping(hk, h) == fwd.pc = "drop_ttl" /\ fwd.hk = hk /\ fwd.hash = h
Sending(hk, h) ==
  \/ api.hk = hk /\ api.hash = h
  \/ fwd.pc = "put_ttl" /\ fwd.hk = hk /\ fwd.hash = h
Deleting(hk) == fwd.pc = "delete" /\ fwd.hk = hk

KeptAt(hk) ==
  /\ ~ Deleting(hk) =>
       \A h \in Hash : field[hk][h] # None <=> \/ ttl[hk][h] # None /\ ~ Dropping(hk, h)
                                             \/ Sending(hk, h)
  /\ Deleting(hk) =>
       \A h \in Hash : /\ field[hk][h] # None => <<"data", h>> \in fwd.left
                       /\ ttl[hk][h] # None => <<"ttl", h>> \in fwd.left
  /\ fwd.pc \in {"delete", "drop_ttl"} /\ fwd.hk = hk => api.hk # hk
  /\ fwd.pc = "drop_data" /\ fwd.hk = hk => ttl[hk][fwd.hash] # None
  /\ task[hk].pc \in WithHash => field[hk][task[hk].hash] # None

Kept == \A hk \in Hotkey \ hurt : KeptAt(hk)

\* Steps that keep which fields there are.
LEMMA KeptFrame ==
  ASSUME Ctrl, NEW hk \in Hotkey, KeptAt(hk),
         \A h \in Hash : field'[hk][h] = None <=> field[hk][h] = None,
         \A h \in Hash : ttl'[hk][h] = None <=> ttl[hk][h] = None,
         UNCHANGED <<api, fwd>>,
         task'[hk].pc \in WithHash =>
           task'[hk].hash \in Hash /\ field[hk][task'[hk].hash] # None
  PROVE  KeptAt(hk)'
  <1>1. fwd.pc = "drop_data" => fwd.hash \in Hash
    BY DEF Ctrl, FwdOK, AtHash
  <1> QED BY <1>1 DEF KeptAt, Dropping, Sending, Deleting

\* Steps of forward from and to places where no pair of commands has run half.
LEMMA KeptQuiet ==
  ASSUME Ctrl, NEW hk \in Hotkey, KeptAt(hk),
         \A h \in Hash : field'[hk][h] = None <=> field[hk][h] = None,
         UNCHANGED <<ttl, api>>,
         fwd.hk = hk => fwd.pc \notin {"put_ttl", "delete", "drop_ttl"},
         fwd'.hk = hk => fwd'.pc \notin {"put_ttl", "delete", "drop_data", "drop_ttl"},
         task'[hk].pc \in WithHash =>
           task'[hk].hash \in Hash /\ field[hk][task'[hk].hash] # None
  PROVE  KeptAt(hk)'
  <1>1. ~ Deleting(hk) /\ ~ Deleting(hk)'
    BY DEF Deleting
  <1>2. \A h \in Hash : ~ Dropping(hk, h) /\ ~ Dropping(hk, h)' /\ (Sending(hk, h) <=> Sending(hk, h)')
    BY DEF Dropping, Sending
  <1> QED BY <1>1, <1>2 DEF KeptAt

LEMMA KeptStop ==
  ASSUME Ctrl, NEW hk \in Hotkey, KeptAt(hk), ~ Busy(hk), NEW pc \in {"dead", "killed"}, Stop(pc),
         UNCHANGED api
  PROVE  KeptAt(hk)'
  <1>1. fwd' = [Begin EXCEPT !.pc = pc] /\ task' = [k \in Hotkey |-> Idle] /\ ttl' = ttl
    BY DEF Stop
  <1>2. fwd'.pc = pc /\ task'[hk].pc = "idle"
    BY <1>1, BeginOK DEF Idle
  <1>3. \A h \in Hash : field'[hk][h] = None <=> field[hk][h] = None
    BY AgedCells DEF Stop, Ctrl
  <1>4. fwd.hk = hk => fwd.pc \notin {"put_ttl", "delete", "drop_data", "drop_ttl"}
    BY DEF Busy
  <1> QED BY <1>1, <1>2, <1>3, <1>4, KeptQuiet DEF WithHash

LEMMA KeptTask ==
  ASSUME Ctrl, Stored, NEW hk \in Hotkey, KeptAt(hk), NEW k \in Hotkey, HandleTask(k)
  PROVE  KeptAt(hk)'
  <1>1. CASE Stop("dead") /\ Raises(k)
    <2>1. Live(k)
      BY <1>1 DEF Raises, Live
    <2>2. ~ Busy(hk)
      BY <2>1 DEF Busy, Ctrl, TasksOK
    <2>3. UNCHANGED api
      BY TaskSteps
    <2> QED BY <1>1, <2>2, <2>3, KeptStop
  <1>2. CASE Moves(k) /\ Frame /\ \A j \in Hotkey \ {k} : task'[j] = task[j]
    <2>1. \A j \in Hotkey : task[j].pc \in WithHash => task[j].hash \in Hash
      BY DEF Ctrl, TasksOK
    <2>2. \A h \in Hash : field'[hk][h] = None <=> field[hk][h] = None
      <3>1. ASSUME NEW h \in Hash, task[k].pc \in {"ck_put", "rt_put"}, k = hk, h = task[k].hash
            PROVE  task[k].seed # None /\ field[hk][h] # None
        BY <3>1 DEF Stored, WithSeed, KeptAt, WithHash
      <3> QED BY <1>2, <3>1, TaskFields
    <2>3. task'[hk].pc \in WithHash => task'[hk].hash \in Hash /\ field[hk][task'[hk].hash] # None
      <3>1. CASE k # hk
        BY <1>2, <2>1, <3>1 DEF KeptAt
      <3>2. CASE k = hk
        BY <1>2, <2>1, <3>2 DEF Moves, KeptAt, Keys, WithHash
      <3> QED BY <3>1, <3>2
    <2>4. Live(k)
      BY <1>2 DEF Moves, Live
    <2>5. fwd.pc \in {"challenges", "retrieves"} /\ fwd'.pc = fwd.pc /\ fwd'.hk = fwd.hk
      BY <1>2, <2>4 DEF Frame, Ctrl, Types, FwdSet, TasksOK
    <2> QED BY <1>2, <2>2, <2>3, <2>5, KeptQuiet DEF Frame
  <1> QED BY <1>1, <1>2, TaskMoves

LEMMA FwdOnlyPlaces ==
  ASSUME Types, FwdOnly
  PROVE  \/ PurgedHotkey
         \/ \E hk \in Hotkey : PurgeHotkey(hk)
         \/ fwd.pc \notin {"put_ttl", "delete", "drop_data", "drop_ttl"} /\ fwd'.pc # "delete"
  <1> USE DEF FwdSet, At, Goto, AfterStore
  <1>0. fwd \in FwdSet
    BY DEF Types
  <1> DEFINE Apart ==
        fwd.pc \notin {"put_ttl", "delete", "drop_data", "drop_ttl"} /\ fwd'.pc # "delete"
  <1>1. StoreNothing => Apart
    BY <1>0 DEF StoreNothing
  <1>2. StoreEnd => Apart
    BY <1>0 DEF StoreEnd
  <1>3. ChallengeEnd \/ NoRetrieve \/ RetrieveEnd => Apart
    BY <1>0 DEF ChallengeEnd, NoRetrieve, RetrieveEnd, BatchEnd
  <1>4. ASSUME NEW x, Monitor(x) \/ RebalanceHotkey(x) PROVE Apart
    BY <1>0, <1>4 DEF Monitor, RebalanceHotkey
  <1>5. ASSUME NEW x, RebalanceHash(x) \/ ExpireHotkey(x) PROVE Apart
    BY <1>0, <1>5 DEF RebalanceHash, ExpireHotkey
  <1>6. RebalanceEnd \/ EpochPurge \/ NoEpochPurge => Apart
    BY <1>0 DEF RebalanceEnd, EpochPurge, NoEpochPurge
  <1>7. PurgeEnd \/ TtlPurge => Apart
    BY <1>0 DEF PurgeEnd, TtlPurge
  <1>8. ExpiredHotkey => Apart
    BY <1>0 DEF ExpiredHotkey
  <1>9. NoTtlPurge \/ ExpireEnd \/ Restart => Apart
    BY DEF NoTtlPurge, ExpireEnd, Restart, Begin
  <1> HIDE DEF Apart
  <1>10. Apart \/ PurgedHotkey \/ \E hk \in Hotkey : PurgeHotkey(hk)
    BY <1>1, <1>2, <1>3, <1>4, <1>5, <1>6, <1>7, <1>8, <1>9 DEF FwdOnly
  <1> QED BY <1>10 DEF Apart

LEMMA KeptFwdOnly ==
  ASSUME Ctrl, NEW hk \in Hotkey, hk \notin hurt', KeptAt(hk), FwdOnly
  PROVE  KeptAt(hk)'
  <1>1. /\ UNCHANGED <<field, ttl, task, api>>
        /\ task[hk].pc = "idle" /\ fwd'.pc \notin AtHash
    BY FwdOnlyFrame, FwdOnlyQuiet DEF Live
  <1>2. CASE fwd.pc \notin {"put_ttl", "delete", "drop_data", "drop_ttl"} /\ fwd'.pc # "delete"
    BY <1>1, <1>2, KeptQuiet DEF AtHash, WithHash
  <1>3. CASE PurgedHotkey
    <2>1. fwd.pc = "delete" /\ fwd.left = {} /\ fwd'.pc = "purge" /\ fwd'.hk = None
      BY <1>3 DEF PurgedHotkey, At, Ctrl, Types, FwdSet
    <2>2. CASE fwd.hk # hk
      BY <1>1, <2>1, <2>2, KeptQuiet, Names DEF WithHash
    <2>3. CASE fwd.hk = hk
      <3>1. api.hk # hk /\ \A h \in Hash : field[hk][h] = None /\ ttl[hk][h] = None
        BY <2>1, <2>3 DEF KeptAt, Deleting
      <3> QED BY <1>1, <2>1, <3>1 DEF KeptAt, Deleting, Dropping, Sending, WithHash
    <2> QED BY <2>2, <2>3
  <1>4. ASSUME NEW k \in Hotkey, PurgeHotkey(k) PROVE KeptAt(hk)'
    <2>1. fwd.pc = "purge" /\ fwd'.pc = "delete" /\ fwd'.hk = k /\ fwd'.left = Cells(k)
      BY <1>4 DEF PurgeHotkey, At, ChallengesForHotkey, Ctrl, Types, FwdSet
    <2>2. CASE k # hk
      BY <1>1, <2>1, <2>2, KeptQuiet DEF WithHash
    <2>3. CASE k = hk
      <3>1. api.hk # hk
        BY <1>4, <2>3 DEF PurgeHotkey
      <3>2. \A h \in Hash : /\ field[hk][h] # None => <<"data", h>> \in Cells(hk)
                            /\ ttl[hk][h] # None => <<"ttl", h>> \in Cells(hk)
        BY DEF Cells, Cell, Keys, Ttls
      <3> QED BY <1>1, <2>1, <2>3, <3>1, <3>2 DEF KeptAt, Deleting, WithHash
    <2> QED BY <2>2, <2>3
  <1> QED BY <1>2, <1>3, <1>4, FwdOnlyPlaces DEF Ctrl

LEMMA KeptStore ==
  ASSUME Ctrl, NEW hk \in Hotkey, KeptAt(hk), Send \/ PutTtl \/ \E k \in Hotkey : PutData(k)
  PROVE  KeptAt(hk)'
  <1>0. fwd \in FwdSet /\ Types /\ task[hk].pc = "idle"
    <2>1. fwd.pc \in {"store", "put_data", "put_ttl"}
      BY DEF Send, StoreSend, PutTtl, PutData, At
    <2> QED BY <2>1 DEF Ctrl, Types, TasksOK, Live
  <1>1. CASE Send
    <2>0. PICK h \in Hash, stored \in SUBSET env.neurons :
            \E ok \in Verified(stored) : StoreSend(h, stored, ok)
      BY <1>1 DEF Send
    <2>1. PICK ok \in Verified(stored) : StoreSend(h, stored, ok)
      BY <2>0
    <2>2. fwd.pc = "store" /\ fwd'.pc = "put_data" /\ UNCHANGED <<ttl, task, api>>
      BY <1>0, <2>1 DEF StoreSend, At, FwdSet
    <2>3. \A d \in Hash : field'[hk][d] = None <=> field[hk][d] = None
      BY <1>0, <2>1, AgedCells DEF StoreSend
    <2> QED BY <1>0, <2>2, <2>3, KeptQuiet DEF WithHash
  <1>2. CASE PutTtl
    <2>1. /\ fwd.pc = "put_ttl" /\ fwd'.pc = "put_data" /\ fwd'.hk = fwd.hk
          /\ UNCHANGED <<field, task, api>>
      BY <1>0, <1>2 DEF PutTtl, At, Goto, FwdSet
    <2>2. \A h \in Hash : ttl'[hk][h] = IF fwd.hk = hk /\ h = fwd.hash THEN "fresh" ELSE ttl[hk][h]
      BY <1>0, <1>2 DEF PutTtl, SetTtl, Types, TtlSet
    <2> QED BY <1>0, <2>1, <2>2, Names DEF KeptAt, Deleting, Dropping, Sending, WithHash
  <1>3. ASSUME NEW k \in Hotkey, PutData(k) PROVE KeptAt(hk)'
    <2>1. /\ fwd.pc = "put_data" /\ fwd'.pc = "put_ttl" /\ fwd'.hk = k /\ fwd'.hash = fwd.hash
          /\ UNCHANGED <<ttl, task, api>>
      BY <1>0, <1>3 DEF PutData, At, FwdSet
    <2>2. \A h \in Hash : field'[hk][h] = IF k = hk /\ h = fwd.hash THEN "same" ELSE field[hk][h]
      BY <1>0, <1>3 DEF PutData, SetField, Types, FieldSet
    <2> QED BY <1>0, <2>1, <2>2, Names DEF KeptAt, Deleting, Dropping, Sending, WithHash
  <1> QED BY <1>1, <1>2, <1>3

LEMMA HdelExact ==
  ASSUME Types, NEW k \in Hotkey, NEW cell \in Cell, Hdel(k, cell), NEW hk \in Hotkey, NEW h \in Hash
  PROVE  /\ field'[hk][h] = IF k = hk /\ cell = <<"data", h>> THEN None ELSE field[hk][h]
         /\ ttl'[hk][h] = IF k = hk /\ cell = <<"ttl", h>> THEN None ELSE ttl[hk][h]
  <1>1. /\ field \in [Hotkey -> [Hash -> Seed \cup {None}]]
        /\ ttl \in [Hotkey -> [Hash -> {"fresh", "expired", None}]]
    BY DEF Types, FieldSet, TtlSet
  <1>2. cell[1] \in {"data", "ttl"} /\ cell = <<cell[1], cell[2]>>
    BY DEF Cell
  <1> QED BY <1>1, <1>2 DEF Hdel, SetField, SetTtl

LEMMA KeptDelete ==
  ASSUME Ctrl, NEW hk \in Hotkey, hk \notin hurt', hk \notin hurt, KeptAt(hk), NEW cell \in Cell,
         PurgeField(cell) \/ ScriptField(cell) \/ DropData \/ DropTtl
  PROVE  KeptAt(hk)'
  <1> USE DEF redis, fixed
  <1>0. fwd \in FwdSet /\ Types /\ FwdOK /\ UNCHANGED <<task, api>>
    BY Deletions DEF Ctrl, Types
  <1>1. CASE ScriptField(cell)
    <2>1. script.hk \in Hotkey /\ script.hk # hk
      BY <1>1 DEF ScriptField, Ctrl, OthersOK
    <2>2. \A h \in Hash : field'[hk][h] = field[hk][h] /\ ttl'[hk][h] = ttl[hk][h]
      BY <1>0, <1>1, <2>1, HdelExact DEF ScriptField
    <2>3. task[hk].pc \in WithHash => task[hk].hash \in Hash
      BY DEF Ctrl, TasksOK
    <2> QED BY <1>0, <1>1, <2>2, <2>3, KeptFrame DEF ScriptField, KeptAt
  <1>2. CASE ~ ScriptField(cell)
    <2>0. fwd.pc \in {"delete", "drop_data", "drop_ttl"} /\ fwd.hk \in Hotkey
      BY <1>0, <1>2 DEF PurgeField, DropData, DropTtl, At, FwdOK, AtHotkey
    <2>1. task[hk].pc \notin WithHash
      BY <2>0 DEF Ctrl, TasksOK, Live, WithHash
    <2>2. CASE PurgeField(cell)
      <3>1. /\ fwd.pc = "delete" /\ fwd'.pc = "delete" /\ fwd'.hk = fwd.hk
            /\ fwd'.left = fwd.left \ {cell} /\ Hdel(fwd.hk, cell)
        BY <1>0, <2>2 DEF PurgeField, At, FwdSet
      <3>2. \A h \in Hash :
              /\ field'[hk][h] = IF fwd.hk = hk /\ cell = <<"data", h>> THEN None ELSE field[hk][h]
              /\ ttl'[hk][h] = IF fwd.hk = hk /\ cell = <<"ttl", h>> THEN None ELSE ttl[hk][h]
        BY <1>0, <2>0, <3>1, HdelExact
      <3>3. CASE fwd.hk = hk
        BY <1>0, <2>1, <3>1, <3>2, <3>3 DEF KeptAt, Deleting
      <3>4. CASE fwd.hk # hk
        BY <1>0, <2>1, <3>1, <3>2, <3>4 DEF KeptAt, Deleting, Dropping, Sending
      <3> QED BY <3>3, <3>4
    <2>3. CASE DropData
      <3>1. /\ fwd.pc = "drop_data" /\ fwd'.pc = "drop_ttl" /\ fwd'.hk = fwd.hk
            /\ fwd'.hash = fwd.hash /\ Hdel(fwd.hk, <<"data", fwd.hash>>)
        BY <1>0, <2>3 DEF DropData, At, Goto, FwdSet
      <3>2. fwd.hash \in Hash /\ <<"data", fwd.hash>> \in Cell
        BY <1>0, <3>1 DEF FwdOK, AtHash, Cell
      <3>3. \A h \in Hash :
              /\ field'[hk][h] = IF fwd.hk = hk /\ h = fwd.hash THEN None ELSE field[hk][h]
              /\ ttl'[hk][h] = ttl[hk][h]
        BY <1>0, <2>0, <3>1, <3>2, HdelExact
      <3>4. CASE fwd.hk = hk
        <4>1. api.hk # hk
          BY <2>3, <3>4 DEF DropData
        <4> QED BY <1>0, <2>1, <3>1, <3>2, <3>3, <3>4, <4>1 DEF KeptAt, Deleting, Dropping, Sending
      <3>5. CASE fwd.hk # hk
        BY <1>0, <2>1, <3>1, <3>3, <3>5 DEF KeptAt, Deleting, Dropping, Sending
      <3> QED BY <3>4, <3>5
    <2>4. CASE DropTtl
      <3>1. /\ fwd.pc = "drop_ttl" /\ fwd'.pc = "check" /\ fwd'.hk = fwd.hk
            /\ Hdel(fwd.hk, <<"ttl", fwd.hash>>)
        BY <1>0, <2>4 DEF DropTtl, At, FwdSet
      <3>2. fwd.hash \in Hash /\ <<"ttl", fwd.hash>> \in Cell
        BY <1>0, <3>1 DEF FwdOK, AtHash, Cell
      <3>3. \A h \in Hash :
              /\ field'[hk][h] = field[hk][h]
              /\ ttl'[hk][h] = IF fwd.hk = hk /\ h = fwd.hash THEN None ELSE ttl[hk][h]
        BY <1>0, <2>0, <3>1, <3>2, HdelExact
      <3>4. CASE fwd.hk = hk
        BY <1>0, <2>1, <3>1, <3>2, <3>3, <3>4 DEF KeptAt, Deleting, Dropping, Sending
      <3>5. CASE fwd.hk # hk
        BY <1>0, <2>1, <3>1, <3>3, <3>5 DEF KeptAt, Deleting, Dropping, Sending
      <3> QED BY <3>4, <3>5
    <2> QED BY <1>2, <2>2, <2>3, <2>4
  <1> QED BY <1>1, <1>2

LEMMA KeptCheck ==
  ASSUME Ctrl, NEW hk \in Hotkey, KeptAt(hk), NEW d \in Hash, CheckTtl(d)
  PROVE  KeptAt(hk)'
  <1>0. fwd \in FwdSet /\ fwd.pc = "check" /\ task[hk].pc = "idle"
    <2>1. fwd.pc = "check"
      BY DEF CheckTtl, At
    <2> QED BY <2>1 DEF Ctrl, Types, TasksOK, Live
  <1>1. CASE Stop("dead")
    BY <1>0, <1>1, KeptStop DEF Busy, CheckTtl
  <1> DEFINE rest == fwd.left \ {<<"ttl", d>>}
  <1>2. CASE /\ UNCHANGED <<field, ttl, task, api>>
             /\ fwd' = [fwd EXCEPT !.left = rest]
    <2>1. fwd'.pc = "check" /\ fwd'.hk = fwd.hk
      BY <1>0, <1>2 DEF FwdSet
    <2> QED BY <1>0, <1>2, <2>1, KeptQuiet DEF WithHash
  <1>3. CASE /\ UNCHANGED <<field, ttl, task, api>> /\ ttl[fwd.hk][d] = "expired"
             /\ fwd' = [fwd EXCEPT !.pc = "drop_data", !.left = rest, !.hash = d]
    <2>1. fwd'.pc = "drop_data" /\ fwd'.hk = fwd.hk /\ fwd'.hash = d
      BY <1>0, <1>3 DEF FwdSet
    <2> QED BY <1>0, <1>3, <2>1, Names DEF KeptAt, Deleting, Dropping, Sending, WithHash
  <1> QED BY <1>1, <1>2, <1>3 DEF CheckTtl, redis

LEMMA KeptStart ==
  ASSUME Ctrl, NEW hk \in Hotkey, KeptAt(hk), Start
  PROVE  KeptAt(hk)'
  <1>1. PICK uids \in SUBSET env.neurons : ChallengeData(uids) \/ RetrieveData(uids)
    BY DEF Start
  <1>2. /\ UNCHANGED <<field, ttl, api>>
        /\ fwd.pc \in {"challenge", "retrieve"} /\ fwd'.pc \in {"challenges", "retrieves"}
    BY <1>1 DEF ChallengeData, RetrieveData, StartBatch, At, redis, Ctrl, Types, FwdSet
  <1>3. task'[hk].pc \notin WithHash
    BY <1>1 DEF ChallengeData, RetrieveData, StartBatch, Idle, WithHash
  <1> QED BY <1>2, <1>3, KeptQuiet

LEMMA KeptOthers ==
  ASSUME Ctrl, NEW hk \in Hotkey, hk \notin hurt', KeptAt(hk),
         Api \/ \E k \in Hotkey, h \in Hash : Expire(k, h)
  PROVE  KeptAt(hk)'
  <1>0. /\ Types /\ api \in ApiSet /\ UNCHANGED <<fwd, task>>
        /\ task[hk].pc \in WithHash => task[hk].hash \in Hash
    BY DEF Ctrl, Types, TasksOK, Api, ApiData, ApiTtl, Expire
  <1>1. ASSUME NEW k \in Hotkey, NEW h \in Hash, Expire(k, h) PROVE KeptAt(hk)'
    <2>1. \A d \in Hash : ttl'[hk][d] = None <=> ttl[hk][d] = None
      BY <1>0, <1>1, Names DEF Expire, SetTtl, Types, TtlSet
    <2> QED BY <1>0, <1>1, <2>1, KeptFrame DEF Expire, KeptAt
  <1>2. ASSUME NEW k \in env.neurons, NEW c \in Chunk, ApiData(k, c) PROVE KeptAt(hk)'
    <2>1. k \in Hotkey /\ c \in Hash
      BY <1>0, Environment DEF Hash
    <2>2. /\ \A h \in Hash : field'[hk][h] = IF k = hk /\ h = c THEN "same" ELSE field[hk][h]
          /\ ttl' = ttl
      BY <1>0, <1>2, <2>1 DEF ApiData, SetField, Types, FieldSet
    <2>3. api.hk = None /\ api'.hk = k /\ api'.hash = c
      BY <1>2 DEF ApiData
    <2>4. CASE k # hk
      BY <1>0, <2>2, <2>3, <2>4, Names DEF KeptAt, Deleting, Dropping, Sending
    <2>5. CASE k = hk
      <3>1. ~ Busy(hk)
        BY <1>2, <2>5 DEF ApiData
      <3>2. fwd.hk = hk => fwd.pc \notin {"put_ttl", "delete", "drop_data", "drop_ttl"}
        BY <3>1 DEF Busy
      <3> QED BY <1>0, <2>2, <2>3, <2>5, <3>2, Names DEF KeptAt, Deleting, Dropping, Sending
    <2> QED BY <2>4, <2>5
  <1>3. CASE ApiTtl
    <2>1. /\ \A h \in Hash :
                ttl'[hk][h] = IF api.hk = hk /\ h = api.hash THEN "fresh" ELSE ttl[hk][h]
          /\ field' = field
      BY <1>0, <1>3 DEF ApiTtl, SetTtl, Types, TtlSet
    <2>2. api.hk # None /\ api'.hk = None
      BY <1>3 DEF ApiTtl
    <2>3. fwd.pc = "drop_data" => fwd.hash \in Hash
      BY DEF Ctrl, FwdOK, AtHash
    <2> QED BY <1>0, <2>1, <2>2, <2>3, Names DEF KeptAt, Deleting, Dropping, Sending
  <1> QED BY <1>1, <1>2, <1>3 DEF Api

LEMMA KeptNext ==
  ASSUME Ctrl, Stored, Kept, [Next]_vars
  PROVE  Kept'
  <1> USE DEF redis, fixed
  <1>1. CASE UNCHANGED vars
    BY <1>1 DEF vars, Kept, KeptAt, Deleting, Dropping, Sending
  <1>2. CASE Next
    <2> SUFFICES ASSUME NEW hk \in Hotkey, hk \notin hurt' PROVE KeptAt(hk)'
      BY DEF Kept
    <2>1. hk \notin hurt /\ KeptAt(hk)
      BY <1>2, HurtGrows DEF Kept
    <2>2. ASSUME Kill PROVE KeptAt(hk)'
      <3>1. ~ Busy(hk)
        BY <2>2 DEF Kill
      <3> QED BY <2>1, <2>2, <3>1, KeptStop DEF Kill
    <2>3. ASSUME Script PROVE KeptAt(hk)' \/ \E cell \in Cell : ScriptField(cell)
      <3>1. UNCHANGED <<field, ttl, fwd, task, api>> \/ \E cell \in Cell : ScriptField(cell)
        BY <2>3 DEF Script, ScriptStart, ScriptHotkey, ScriptPurge, ScriptEnd
      <3>2. task[hk].pc \in WithHash => task[hk].hash \in Hash /\ field[hk][task[hk].hash] # None
        BY <2>1 DEF Ctrl, TasksOK, KeptAt
      <3> QED BY <2>1, <3>1, <3>2, KeptFrame
    <2>4. <<"ttl", Empty>> \in Cell
      BY Names DEF Cell, Hash
    <2> QED BY <1>2, <2>1, <2>2, <2>3, <2>4, Steps, KeptFwdOnly, KeptStore, KeptTask,
               KeptDelete, KeptCheck, KeptStart, KeptOthers
  <1> QED BY <1>1, <1>2

LEMMA InitData == Init => Ctrl /\ Stored /\ Kept
  <1> SUFFICES ASSUME Init PROVE Ctrl /\ Stored /\ Kept
    OBVIOUS
  <1>1. /\ \A hk \in Hotkey, h \in Hash : field[hk][h] = None /\ ttl[hk][h] = None
        /\ fwd.pc = "store" /\ api.hk = None
        /\ \A hk \in Hotkey : task[hk].pc = "idle" /\ ~ fwd.sent[hk]
    BY DEF Init, Begin, Idle
  <1>2. Stored
    BY <1>1 DEF Stored, StoredOnly, WithSeed
  <1>3. Kept
    BY <1>1, Names DEF Kept, KeptAt, Deleting, Dropping, Sending, WithHash
  <1> QED BY <1>2, <1>3, InitCtrl

\* Metadata and its time to live come and go together (add_metadata_to_hotkey,
\* remove_metadata_from_hotkey, and the two purges), where no two processes met and
\* none was killed between the two commands.
THEOREM MetadataExpires == Spec => []TtlKept
  <1>1. Ctrl /\ Stored /\ Kept /\ [Next]_vars => Ctrl' /\ Stored' /\ Kept'
    BY NextCtrl, StoredNext, KeptNext
  <1>2. Ctrl /\ Kept => TtlKept
    <2> SUFFICES ASSUME Kept, NEW hk \in Hotkey \ hurt, ~ Busy(hk), api.hk # hk
                 PROVE  Keys(hk) = Ttls(hk)
      BY DEF TtlKept
    <2>1. \A h \in Hash : field[hk][h] # None <=> ttl[hk][h] # None
      BY DEF Kept, KeptAt, Busy, Deleting, Dropping, Sending
    <2> QED BY <2>1 DEF Keys, Ttls
  <1> QED BY <1>1, <1>2, InitData, PTL DEF Spec

-----------------------------------------------------------------------------
(* The purge of what has expired                                           *)

InLoop == Expiring \cup {"expire"}

DueAt(hk, h) ==
  \/ hk \in hurt
  \/ field[hk][h] = None /\ ttl[hk][h] = None
  \/ /\ ttl[hk][h] = "expired"
     /\ \/ hk \in fwd.who
        \/ fwd.pc \in Expiring /\ fwd.hk = hk /\ <<"ttl", h>> \in fwd.left
        \/ fwd.pc \in {"drop_data", "drop_ttl"} /\ fwd.hk = hk /\ fwd.hash = h

Due ==
  /\ due # {} => fwd.pc \in InLoop
  /\ \A pair \in due : pair[2] \in miner[pair[1]] /\ DueAt(pair[1], pair[2])

LEMMA DueNone ==
  ASSUME due' = {}
  PROVE  Due'
  BY DEF Due

\* Steps elsewhere, and steps that change neither the loop nor what is due.
LEMMA DueElsewhere ==
  ASSUME Due, due' = due, fwd.pc \notin InLoop
  PROVE  Due'
  BY DEF Due

LEMMA DueFrame ==
  ASSUME Ctrl, Due, due' \subseteq due, UNCHANGED fwd, hurt \subseteq hurt',
         \A pair \in due' :
           /\ miner[pair[1]] \subseteq miner'[pair[1]]
           /\ \/ pair[1] \in hurt'
              \/ /\ field'[pair[1]][pair[2]] = field[pair[1]][pair[2]]
                 /\ ttl'[pair[1]][pair[2]] = ttl[pair[1]][pair[2]]
  PROVE  Due'
  BY DEF Due, DueAt

LEMMA DueTask ==
  ASSUME Due, Ctrl, NEW hk \in Hotkey, HandleTask(hk)
  PROVE  Due'
  <1>1. CASE Stop("dead")
    BY <1>1, DueNone DEF Stop
  <1>2. CASE Moves(hk) /\ Frame
    <2>1. Live(hk)
      BY <1>2 DEF Moves, Live
    <2>2. fwd.pc \notin InLoop
      BY <2>1 DEF Ctrl, TasksOK, InLoop, Expiring
    <2> QED BY <1>2, <2>2, DueElsewhere DEF Frame
  <1> QED BY <1>1, <1>2, TaskMoves

LEMMA DueFwdOnly ==
  ASSUME Due, Ctrl, Stored, FwdOnly
  PROVE  Due'
  <1>0. /\ fwd \in FwdSet /\ due \subseteq Hotkey \X Hash
        /\ UNCHANGED <<field, ttl, miner>> /\ hurt \subseteq hurt'
    BY FwdOnlyFrame DEF Ctrl, Types
  <1>1. CASE TtlPurge
    <2>1. fwd'.pc = "expire" /\ fwd'.who = ScanHotkeys
      BY <1>0, <1>1 DEF TtlPurge, FwdSet
    <2>2. ASSUME NEW pair \in due'
          PROVE  pair[2] \in miner[pair[1]] /\ ttl[pair[1]][pair[2]] = "expired" /\ pair[1] \in fwd'.who
      <3>1. pair[1] \in Hotkey /\ pair[2] \in Hash /\ ttl[pair[1]][pair[2]] = "expired"
        BY <1>1, <2>2 DEF TtlPurge
      <3>2. <<"ttl", pair[2]>> \in Cells(pair[1])
        BY <3>1, Names DEF Cells, Cell, Ttls
      <3> QED BY <2>1, <3>1, <3>2, Names DEF Stored, ScanHotkeys
    <2> QED BY <1>0, <2>1, <2>2 DEF Due, DueAt, InLoop
  <1>2. CASE ExpireEnd
    BY <1>2, DueNone DEF ExpireEnd
  <1>3. ASSUME NEW hk \in Hotkey, ExpireHotkey(hk) PROVE Due'
    <2>1. /\ fwd.pc = "expire" /\ fwd'.pc = "check" /\ fwd'.hk = hk /\ fwd'.who = fwd.who \ {hk}
          /\ fwd'.left = {cell \in Cells(hk) : cell[1] = "ttl"} /\ due' = due
      BY <1>0, <1>3 DEF ExpireHotkey, At, FwdSet, fixed
    <2>2. ASSUME NEW pair \in due PROVE DueAt(pair[1], pair[2])'
      <3>1. DueAt(pair[1], pair[2]) /\ pair[1] \in Hotkey /\ pair[2] \in Hash
        BY <1>0, <2>2 DEF Due
      <3>2. ttl[hk][pair[2]] = "expired" => <<"ttl", pair[2]>> \in fwd'.left
        BY <2>1, <3>1, Names DEF Cells, Cell, Ttls
      <3> QED BY <1>0, <2>1, <3>1, <3>2 DEF DueAt, Expiring
    <2> QED BY <1>0, <2>1, <2>2 DEF Due, InLoop, Expiring
  <1>4. CASE ExpiredHotkey
    <2>1. fwd.pc = "check" /\ fwd.left = {} /\ fwd'.pc = "expire" /\ fwd'.who = fwd.who /\ due' = due
      BY <1>0, <1>4 DEF ExpiredHotkey, At, FwdSet, fixed
    <2> QED BY <1>0, <2>1 DEF Due, DueAt, InLoop
  <1>5. CASE ~ TtlPurge /\ ~ ExpireEnd /\ ~ ExpiredHotkey /\ ~ \E hk \in Hotkey : ExpireHotkey(hk)
    <2>1. due' = due /\ fwd.pc \notin InLoop
      <3> USE DEF InLoop, Expiring, At, fixed
      <3>1. StoreNothing \/ StoreEnd => due' = due /\ fwd.pc \notin InLoop
        BY DEF StoreNothing, StoreEnd
      <3>2. ChallengeEnd \/ NoRetrieve \/ RetrieveEnd => due' = due /\ fwd.pc \notin InLoop
        BY DEF ChallengeEnd, NoRetrieve, RetrieveEnd, BatchEnd
      <3>3. ASSUME NEW x, Monitor(x) \/ RebalanceHotkey(x) \/ PurgeHotkey(x) \/ RebalanceHash(x)
            PROVE  due' = due /\ fwd.pc \notin InLoop
        BY <3>3 DEF Monitor, RebalanceHotkey, PurgeHotkey, RebalanceHash
      <3>4. RebalanceEnd \/ EpochPurge \/ NoEpochPurge \/ PurgedHotkey \/ PurgeEnd
              => due' = due /\ fwd.pc \notin InLoop
        BY DEF RebalanceEnd, EpochPurge, NoEpochPurge, PurgedHotkey, PurgeEnd
      <3>5. NoTtlPurge \/ Restart => due' = due /\ fwd.pc \notin InLoop
        BY DEF NoTtlPurge, Restart
      <3> QED BY <1>5, <3>1, <3>2, <3>3, <3>4, <3>5 DEF FwdOnly
    <2> QED BY <2>1, DueElsewhere
  <1> QED BY <1>1, <1>2, <1>3, <1>4, <1>5

LEMMA DueDelete ==
  ASSUME Due, Ctrl, Kept, NEW cell \in Cell,
         PurgeField(cell) \/ ScriptField(cell) \/ DropData \/ DropTtl
  PROVE  Due'
  <1> USE DEF redis, fixed
  <1>0. /\ fwd \in FwdSet /\ Types /\ FwdOK /\ due \subseteq Hotkey \X Hash
        /\ due' = due /\ miner' = miner
    BY DEF Ctrl, Types, PurgeField, ScriptField, DropData, DropTtl
  <1>1. CASE PurgeField(cell)
    <2>1. fwd.pc \notin InLoop
      BY <1>1 DEF PurgeField, At, InLoop, Expiring
    <2> QED BY <1>0, <2>1, DueElsewhere
  <1>2. CASE ScriptField(cell)
    <2>1. script.hk \in Hotkey /\ script.hk \in hurt /\ Hdel(script.hk, cell) /\ UNCHANGED <<fwd, hurt>>
      BY <1>2 DEF ScriptField, Ctrl, OthersOK
    <2>2. \A hk \in Hotkey, h \in Hash :
            hk # script.hk => field'[hk][h] = field[hk][h] /\ ttl'[hk][h] = ttl[hk][h]
      BY <1>0, <2>1, HdelExact
    <2> QED BY <1>0, <2>1, <2>2, DueFrame
  <1>3. CASE DropData
    <2>1. /\ fwd.pc = "drop_data" /\ fwd'.pc = "drop_ttl" /\ fwd'.hk = fwd.hk /\ fwd'.who = fwd.who
          /\ fwd'.hash = fwd.hash /\ fwd'.left = fwd.left /\ Hdel(fwd.hk, <<"data", fwd.hash>>)
      BY <1>0, <1>3 DEF DropData, At, Goto, FwdSet
    <2>2. fwd.hk \in Hotkey /\ <<"data", fwd.hash>> \in Cell
      BY <1>0, <2>1 DEF FwdOK, AtHotkey, AtHash, Cell
    <2>3. \A hk \in Hotkey, h \in Hash :
            /\ ttl'[hk][h] = ttl[hk][h]
            /\ field[hk][h] = None => field'[hk][h] = None
      BY <1>0, <2>1, <2>2, HdelExact
    <2>4. hurt \subseteq hurt'
      BY <1>3 DEF DropData
    <2> QED BY <1>0, <2>1, <2>3, <2>4 DEF Due, DueAt, InLoop, Expiring
  <1>4. CASE DropTtl
    <2>1. /\ fwd.pc = "drop_ttl" /\ fwd'.pc = "check" /\ fwd'.hk = fwd.hk /\ fwd'.who = fwd.who
          /\ fwd'.left = fwd.left /\ Hdel(fwd.hk, <<"ttl", fwd.hash>>) /\ hurt' = hurt
      BY <1>0, <1>4 DEF DropTtl, At, FwdSet
    <2>2. fwd.hk \in Hotkey /\ fwd.hash \in Hash /\ <<"ttl", fwd.hash>> \in Cell
      BY <1>0, <2>1 DEF FwdOK, AtHotkey, AtHash, Cell
    <2>3. \A hk \in Hotkey, h \in Hash :
            /\ ttl'[hk][h] = IF hk = fwd.hk /\ h = fwd.hash THEN None ELSE ttl[hk][h]
            /\ field'[hk][h] = field[hk][h]
      BY <1>0, <2>1, <2>2, HdelExact
    <2>4. fwd.hk \notin hurt => field[fwd.hk][fwd.hash] = None
      BY <2>1, <2>2 DEF Kept, KeptAt, Deleting, Dropping, Sending
    <2>5. ASSUME NEW pair \in due PROVE DueAt(pair[1], pair[2])'
      <3>1. DueAt(pair[1], pair[2]) /\ pair[1] \in Hotkey /\ pair[2] \in Hash
        BY <1>0, <2>5 DEF Due
      <3> QED BY <2>1, <2>3, <2>4, <3>1 DEF DueAt, Expiring
    <2> QED BY <1>0, <2>1, <2>5 DEF Due, InLoop, Expiring
  <1> QED BY <1>1, <1>2, <1>3, <1>4

LEMMA DueCheck ==
  ASSUME Due, Ctrl, NEW d \in Hash, CheckTtl(d)
  PROVE  Due'
  <1>0. fwd \in FwdSet /\ fwd.pc = "check" /\ due \subseteq Hotkey \X Hash
    BY DEF CheckTtl, At, Ctrl, Types
  <1>1. CASE Stop("dead")
    BY <1>1, DueNone DEF Stop
  <1> DEFINE rest == fwd.left \ {<<"ttl", d>>}
  <1>2. CASE /\ UNCHANGED <<field, ttl, miner, due, hurt>>
             /\ \/ ttl[fwd.hk][d] = "fresh" /\ fwd' = [fwd EXCEPT !.left = rest]
                \/ fwd' = [fwd EXCEPT !.pc = "drop_data", !.left = rest, !.hash = d]
    <2>1. /\ fwd'.hk = fwd.hk /\ fwd'.who = fwd.who /\ fwd'.left = rest
          /\ \/ fwd'.pc = "check" /\ ttl[fwd.hk][d] = "fresh"
             \/ fwd'.pc = "drop_data" /\ fwd'.hash = d
      BY <1>0, <1>2 DEF FwdSet
    <2>2. ASSUME NEW pair \in due PROVE DueAt(pair[1], pair[2])'
      <3>1. DueAt(pair[1], pair[2]) /\ pair[1] \in Hotkey /\ pair[2] \in Hash
        BY <1>0, <2>2 DEF Due
      <3>2. pair[2] # d /\ <<"ttl", pair[2]>> \in fwd.left => <<"ttl", pair[2]>> \in rest
        OBVIOUS
      <3> HIDE DEF rest
      <3> QED BY <1>0, <1>2, <2>1, <3>1, <3>2 DEF DueAt, Expiring
    <2> QED BY <1>0, <1>2, <2>1, <2>2 DEF Due, InLoop, Expiring
  <1> QED BY <1>1, <1>2 DEF CheckTtl, redis

LEMMA DueOthers ==
  ASSUME Due, Ctrl, Api \/ \E k \in Hotkey, h \in Hash : Expire(k, h)
  PROVE  Due'
  <1> USE DEF redis, fixed
  <1>0. /\ Types /\ api \in ApiSet /\ due \subseteq Hotkey \X Hash
        /\ UNCHANGED fwd /\ hurt \subseteq hurt'
    BY DEF Ctrl, Types, Api, ApiData, ApiTtl, Expire
  <1>1. ASSUME NEW k \in Hotkey, NEW d \in Hash, Expire(k, d) PROVE Due'
    <2>1. \A hk \in Hotkey, h \in Hash :
            ttl'[hk][h] = ttl[hk][h] \/ (ttl[hk][h] = "fresh" /\ ttl'[hk][h] = "expired")
      BY <1>0, <1>1 DEF Expire, SetTtl, Types, TtlSet
    <2>2. UNCHANGED <<field, miner, due, hurt>>
      BY <1>1 DEF Expire
    <2>3. ASSUME NEW pair \in due PROVE DueAt(pair[1], pair[2])'
      <3>1. DueAt(pair[1], pair[2]) /\ pair[1] \in Hotkey /\ pair[2] \in Hash
        BY <1>0, <2>3 DEF Due
      <3> QED BY <1>0, <2>1, <2>2, <3>1, Names DEF DueAt
    <2> QED BY <1>0, <2>2, <2>3 DEF Due
  <1>2. ASSUME NEW k \in env.neurons, NEW c \in Chunk, ApiData(k, c) PROVE Due'
    <2>1. k \in Hotkey /\ c \in Hash
      BY <1>0, Environment DEF Hash
    <2>2. \A hk \in Hotkey, h \in Hash : <<hk, h>> # <<k, c>> => field'[hk][h] = field[hk][h]
      BY <1>0, <1>2, <2>1 DEF ApiData, SetField, Types, FieldSet
    <2>3. <<k, c>> \notin due
      BY <1>2 DEF ApiData, Due
    <2>4. /\ UNCHANGED <<ttl, due>>
          /\ \A hk \in Hotkey : miner[hk] \subseteq miner'[hk]
      BY <1>0, <1>2, <2>1 DEF ApiData, Types
    <2> QED BY <1>0, <2>2, <2>3, <2>4, DueFrame
  <1>3. CASE ApiTtl
    <2>1. \A hk \in Hotkey, h \in Hash : <<hk, h>> # <<api.hk, api.hash>> => ttl'[hk][h] = ttl[hk][h]
      BY <1>0, <1>3 DEF ApiTtl, SetTtl, Types, TtlSet
    <2>2. due' = due \ {<<api.hk, api.hash>>} /\ UNCHANGED <<field, miner>>
      BY <1>3 DEF ApiTtl
    <2> QED BY <1>0, <2>1, <2>2, DueFrame
  <1> QED BY <1>1, <1>2, <1>3 DEF Api

LEMMA DueNext ==
  ASSUME Due, Ctrl, Stored, Kept, [Next]_vars
  PROVE  Due'
  <1> USE DEF redis, fixed
  <1>1. CASE UNCHANGED vars
    BY <1>1 DEF vars, Due, DueAt
  <1>2. ASSUME Send \/ Start \/ PutTtl \/ \E hk \in Hotkey : PutData(hk) PROVE Due'
    <2>1. due' = due /\ fwd.pc \notin InLoop
      BY <1>2 DEF Send, StoreSend, Start, ChallengeData, RetrieveData, StartBatch, PutTtl, PutData,
                  At, InLoop, Expiring
    <2> QED BY <2>1, DueElsewhere
  <1>3. ASSUME Kill PROVE Due'
    BY <1>3, DueNone DEF Kill, Stop
  <1>4. ASSUME Script PROVE Due' \/ \E cell \in Cell : ScriptField(cell)
    <2>1. \/ UNCHANGED <<field, ttl, fwd, miner, due>> /\ hurt \subseteq hurt'
          \/ \E cell \in Cell : ScriptField(cell)
      BY <1>4 DEF Script, ScriptStart, ScriptHotkey, ScriptPurge, ScriptEnd
    <2> QED BY <2>1, DueFrame
  <1>5. <<"ttl", Empty>> \in Cell
    BY Names DEF Cell, Hash
  <1>6. CASE Next
    BY <1>2, <1>3, <1>4, <1>5, <1>6, Steps, DueFwdOnly, DueTask, DueDelete, DueCheck, DueOthers
  <1> QED BY <1>1, <1>6

PurgeInv == Ctrl /\ Stored /\ Kept /\ Due

\* What had expired when purge_expired_ttl_keys began is gone with its data when it
\* ends, where no two processes met.
THEOREM ExpiredIsPurged == Spec => PurgeComplete
  <1>1. Init => PurgeInv
    BY InitData DEF Init, Due, PurgeInv
  <1>2. PurgeInv /\ [Next]_vars => PurgeInv'
    BY NextCtrl, StoredNext, KeptNext, DueNext DEF PurgeInv
  <1>3. ASSUME PurgeInv, [Next]_vars
        PROVE  [ExpireEnd => Gone]_vars
    BY <1>3 DEF PurgeInv, Due, DueAt, ExpireEnd, At, Expiring, Gone
  <1> QED BY <1>1, <1>2, <1>3, PTL DEF Spec, PurgeComplete
=============================================================================
